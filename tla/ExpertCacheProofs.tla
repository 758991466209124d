-------------------------- MODULE ExpertCacheProofs --------------------------
(***************************************************************************)
(* Theorems about ExpertCache, for any experts, layers, capacities, pins,  *)
(* blocks and queue of the pilot.  IInv assumes nothing of lru: whichever  *)
(* slot is evicted, the two threads keep out of each other's way.  OInv is *)
(* about the order that lru is; Rewriting is about the pinned slots.       *)
(***************************************************************************)
EXTENDS ExpertCache, SequenceTheorems, FiniteSetTheorems, WellFoundedInduction, TLAPS

Uses == [in : {"pin", "cache", "ws"}, z : Nat]
Jobs(p) == [at : {"load", "publish"}, l : Sparse, e : Experts, z : {p.z}, new : BOOLEAN]

Types ==
    /\ slot \in [Sparse -> [1 .. Cap -> Slots]]
    /\ ecn \in [Sparse -> 0 .. Cap]
    /\ \A l \in Sparse : pin[l] \in [1 .. NPin[l] -> Pins]
    /\ pin = [l \in Sparse |-> pin[l]]
    /\ ws \in [1 .. Block -> Slots]
    /\ main \in [at : {"idle", "repin", "attn", "wait"} \cup InMoe, layer : 0 .. NLayers,
                 need : Seq(Experts), use : Seq(Uses)]
    /\ cur \in Int
    /\ pilotQ \in Seq([l : Sparse, e : Experts])
    /\ pilot = Resting \/ (pilot \in Jobs(pilot) /\ pilotQ # <<>>)

\* The layer at work is the one taken, and the pilot is not in it.
Ahead ==
    /\ main.at \in InMoe \cup {"wait"} => cur = main.layer /\ main.layer \in Sparse
    /\ main.at \in InMoe => pilot.at = "none" \/ pilot.l # main.layer

\* The slot that the pilot loads is hidden until it is complete, and nobody else has
\* cached the expert meanwhile.
InFlight ==
    pilot.at # "none" =>
        /\ pilot.new => pilot.z = ecn[pilot.l] + 1 /\ ecn[pilot.l] < Cap
        /\ ~pilot.new => ecn[pilot.l] = Cap
        /\ pilot.z \in 1 .. Cap =>
              slot[pilot.l][pilot.z] = IF pilot.at = "load" THEN Hidden ELSE Full(pilot.e)
        /\ \A z \in 1 .. ecn[pilot.l] : z # pilot.z => slot[pilot.l][z].eid # pilot.e

\* Slots that are not counted yet are empty, but for the one that is about to be.
Spare ==
    \A l \in Sparse : \A z \in 1 .. Cap :
        z > ecn[l] => slot[l][z] = Hidden \/ (pilot.at = "publish" /\ pilot.l = l /\ pilot.z = z)

\* The block at hand: distinct experts, each where the look-up found it.
InHand ==
    /\ \A i, j \in 1 .. Len(main.need) : main.need[i] = main.need[j] => i = j
    /\ Len(main.use) <= Len(main.need) /\ Len(main.use) <= Block
    /\ main.at \notin {"load", "matmul", "promote"} => main.use = <<>>
    /\ main.at \in {"load", "matmul", "promote"} =>
        \A j \in 1 .. Len(main.use) :
            LET u == main.use[j] IN
            /\ u.in = "pin" => u.z \in 1 .. NPin[main.layer]
                               /\ pin[main.layer][u.z] = Full(main.need[j])
            /\ u.in = "cache" => u.z \in 1 .. ecn[main.layer]
                                 /\ slot[main.layer][u.z] = Full(main.need[j])
            /\ u.in = "ws" => /\ ~Cached(main.layer, main.need[j])
                              /\ main.at # "load" => ws[j] = Full(main.need[j])

\* A pinned slot is without weights only while the re-pin in hand writes it.
Rewriting ==
    /\ main.at = "repin" => main.layer \in Sparse /\ main.need # <<>>
    /\ \A l \in Sparse : \A z \in 1 .. NPin[l] : pin[l][z].wt = Torn =>
          /\ main.at = "repin" /\ main.layer = l
          /\ \A y \in 1 .. NPin[l] : pin[l][y].wt = Torn => y = z

IInv == Types /\ Ahead /\ InFlight /\ Spare /\ NoExpertTwice /\ InHand
-----------------------------------------------------------------------------

\* A slot that is said to hold an expert holds its weights.
LEMMA NamedIsFull ==
    ASSUME NEW s \in Slots, NEW e \in Experts, s.eid = e
    PROVE  s = Full(e)
    BY ExpertCacheAssumption DEF Slots, Full, Hidden

\* So does a pinned slot, unless it is being written.
LEMMA PinnedIsFull ==
    ASSUME NEW s \in Pins, NEW e \in Experts, s.eid = e, s.wt # Torn
    PROVE  s = Full(e)
    BY ExpertCacheAssumption DEF Pins, Full, Overwritten

\* Nothing is being written while the main thread is at work.
LEMMA PinsComplete ==
    ASSUME Rewriting, main.at # "repin", NEW l \in Sparse, NEW z \in 1 .. NPin[l]
    PROVE  pin[l][z].wt # Torn
    BY DEF Rewriting

\* The look-up finds an expert where it says.
LEMMA PlaceFacts ==
    ASSUME Types, Rewriting, main.at # "repin", NEW l \in Sparse, NEW e \in Experts
    PROVE  /\ Place(l, e) \in Uses
           /\ Place(l, e).in = "pin" => Place(l, e).z \in 1 .. NPin[l]
                                        /\ pin[l][Place(l, e).z] = Full(e)
           /\ Place(l, e).in = "cache" => Place(l, e).z \in 1 .. ecn[l]
                                          /\ slot[l][Place(l, e).z] = Full(e)
           /\ Place(l, e).in = "ws" => ~Cached(l, e)
<1> USE ExpertCacheAssumption
<1>1. CASE Pinned(l, e)
    <2> DEFINE y == CHOOSE z \in 1 .. NPin[l] : pin[l][z].eid = e
    <2>1. y \in 1 .. NPin[l] /\ pin[l][y].eid = e
        BY <1>1 DEF Pinned
    <2>2. pin[l][y] = Full(e)
        <3>1. pin[l][y] \in Pins
            BY <2>1 DEF Types
        <3>2. pin[l][y].wt # Torn
            BY <2>1, PinsComplete
        <3> HIDE DEF y
        <3> QED
            BY <2>1, <3>1, <3>2, PinnedIsFull
    <2>3. Place(l, e) = [in |-> "pin", z |-> y]
        BY <1>1 DEF Place
    <2> QED
        BY <2>1, <2>2, <2>3 DEF Uses
<1>2. CASE ~Pinned(l, e) /\ Cached(l, e)
    <2> DEFINE y == CHOOSE z \in 1 .. ecn[l] : slot[l][z].eid = e
    <2>1. y \in 1 .. ecn[l] /\ slot[l][y].eid = e
        BY <1>2 DEF Cached
    <2>2. y \in 1 .. Cap
        <3>1. ecn[l] \in 0 .. Cap
            BY DEF Types
        <3> QED
            BY <2>1, <3>1
    <2>3. slot[l][y] = Full(e)
        <3>1. slot[l][y] \in Slots
            BY <2>2 DEF Types
        <3> QED
            BY <2>1, <3>1, NamedIsFull
    <2>4. Place(l, e) = [in |-> "cache", z |-> y]
        BY <1>2 DEF Place
    <2> QED
        BY <2>1, <2>2, <2>3, <2>4 DEF Uses
<1>3. CASE ~Pinned(l, e) /\ ~Cached(l, e)
    <2>1. Place(l, e) = [in |-> "ws", z |-> 0]
        BY <1>3 DEF Place
    <2> QED
        BY <1>3, <2>1 DEF Uses
<1> QED
    BY <1>1, <1>2, <1>3

\* The places of a block are finitely many.
LEMMA PlacesFinite ==
    ASSUME NEW n \in Nat
    PROVE  IsFiniteSet(1 .. n)
<1>1. 1 \in Int /\ n \in Int
    OBVIOUS
<1> QED
    BY <1>1, FS_Interval

\* Misses are counted by a natural number.
LEMMA NMissFacts ==
    ASSUME Types
    PROVE  NMiss \in Nat /\ Promoted \in 0 .. Cap
           /\ \A j \in 1 .. Len(main.use) : Turn(j) \in Nat
<1> DEFINE D == DOMAIN main.use
<1>1. D = 1 .. Len(main.use) /\ Len(main.use) \in Nat
    BY DEF Types
<1>2. IsFiniteSet(D)
    <2>1. IsFiniteSet(1 .. Len(main.use))
        BY <1>1, PlacesFinite
    <2> QED
        BY <1>1, <2>1
<1>3. NMiss \in Nat
    <2>1. {j \in D : Miss(j)} \subseteq D
        OBVIOUS
    <2> QED
        BY <1>2, <2>1, FS_Subset, FS_CardinalityType DEF NMiss
<1>4. ASSUME NEW j \in 1 .. Len(main.use)
      PROVE  Turn(j) \in Nat
    <2>1. {i \in D : i >= j /\ Miss(i)} \subseteq D
        OBVIOUS
    <2> QED
        BY <1>2, <2>1, FS_Subset, FS_CardinalityType DEF Turn
<1> QED
    BY <1>3, <1>4, ExpertCacheAssumption DEF Promoted
-----------------------------------------------------------------------------

LEMMA Initially == Init => IInv /\ Rewriting
<1> SUFFICES ASSUME Init PROVE IInv /\ Rewriting
    OBVIOUS
<1> USE ExpertCacheAssumption DEF Init
<1>1. \A l \in Sparse : pin[l] \in [1 .. NPin[l] -> {Full(e) : e \in Experts}]
    <2> TAKE l \in Sparse
    <2>1. DOMAIN pin[l] = 1 .. NPin[l]
        OBVIOUS
    <2>2. PICK k \in Sparse : pin[l] \in [1 .. NPin[k] -> {Full(e) : e \in Experts}]
        OBVIOUS
    <2> QED
        BY <2>1, <2>2
<1>2. Types
    <2>1. \A l \in Sparse : pin[l] \in [1 .. NPin[l] -> Pins]
        BY <1>1 DEF Pins
    <2> QED
        BY <2>1 DEF Types, Slots, Away, Resting, InMoe
<1>3. Ahead /\ InFlight /\ InHand
    BY DEF Ahead, InFlight, InHand, Away, Resting, InMoe
<1>4. Spare /\ NoExpertTwice
    BY DEF Spare, NoExpertTwice, Hidden
<1>5. Rewriting
    <2>1. ASSUME NEW l \in Sparse, NEW z \in 1 .. NPin[l]
          PROVE  pin[l][z].wt # Torn
        <3>1. pin[l][z] \in {Full(e) : e \in Experts}
            BY <1>1
        <3> QED
            BY <3>1 DEF Full
    <2>2. main.at # "repin"
        BY DEF Away
    <2> QED
        BY <2>1, <2>2 DEF Rewriting
<1> QED
    BY <1>2, <1>3, <1>4, <1>5 DEF IInv

\* A list of distinct experts.
LEMMA RouteFacts ==
    ASSUME NEW s \in Routes
    PROVE  s \in Seq(Experts) /\ \A i, j \in 1 .. Len(s) : s[i] = s[j] => i = j
<1>1. PICK n \in 0 .. MaxNeed : s \in {r \in [1 .. n -> Experts] : \A i, j \in 1 .. n : r[i] = r[j] => i = j}
    BY DEF Routes
<1>2. n \in Nat /\ s \in [1 .. n -> Experts]
    BY <1>1, ExpertCacheAssumption
<1> QED
    BY <1>1, <1>2

\* What is left of a list after its first n members.
LEMMA RestFacts ==
    ASSUME NEW S, NEW s \in Seq(S), NEW n \in Nat, n < Len(s)
    PROVE  /\ SubSeq(s, n + 1, Len(s)) \in Seq(S)
           /\ Len(SubSeq(s, n + 1, Len(s))) = Len(s) - n
           /\ \A i \in 1 .. Len(s) - n : SubSeq(s, n + 1, Len(s))[i] = s[n + i]
<1>1. Len(s) \in Nat /\ Len(s) - n \in Nat
    OBVIOUS
<1>2. SubSeq(s, n + 1, Len(s)) = [i \in 1 .. Len(s) - n |-> s[n + i]]
    BY <1>1
<1>3. \A i \in 1 .. Len(s) - n : s[n + i] \in S
    BY <1>1
<1> QED
    BY <1>1, <1>2, <1>3

\* The places where the main thread may be.
Ats == {"idle", "repin", "attn", "wait"} \cup InMoe
Mains == [at : Ats, layer : 0 .. NLayers, need : Seq(Experts), use : Seq(Uses)]

\* A step of the main thread outside the cache keeps what is said of the cache.
LEMMA CacheKept ==
    ASSUME InFlight, Spare, NoExpertTwice, slot' = slot, ecn' = ecn, pilot' = pilot
    PROVE  InFlight' /\ Spare' /\ NoExpertTwice'
    BY DEF InFlight, Spare, NoExpertTwice

\* It keeps its types if it keeps those of what it changes.
LEMMA TypesKept ==
    ASSUME Types, slot' = slot, ecn' = ecn, UNCHANGED <<pin, ws, pilot>>, main' \in Mains, cur' \in Int,
           pilotQ' \in Seq([l : Sparse, e : Experts]), pilotQ # <<>> => pilotQ' # <<>>
    PROVE  Types'
    BY DEF Types, Mains, Ats, Jobs

\* On to the next layer, or out of the pass.
LEMMA OnwardFacts ==
    ASSUME Types
    PROVE  /\ Onward \in Mains /\ Onward.at \in {"attn", "idle"}
           /\ Onward.need = <<>> /\ Onward.use = <<>>
<1>1. main.layer \in 0 .. NLayers /\ 0 \in 0 .. NLayers
    BY ExpertCacheAssumption DEF Types
<1>2. CASE main.layer + 1 < NLayers
    <2>1. Onward = [at |-> "attn", layer |-> main.layer + 1, need |-> <<>>, use |-> <<>>]
        BY <1>2 DEF Onward, Away
    <2>2. main.layer + 1 \in 0 .. NLayers
        BY <1>1, <1>2, ExpertCacheAssumption
    <2> QED
        BY <2>1, <2>2 DEF Mains, Ats
<1>3. CASE ~(main.layer + 1 < NLayers)
    BY <1>1, <1>3 DEF Onward, Away, Mains, Ats
<1> QED
    BY <1>2, <1>3

\* What the types say of main and of the words it shares.
LEMMA SharedTypes ==
    ASSUME Types
    PROVE  /\ main \in Mains /\ main.layer \in Int
           /\ cur \in Int /\ pilotQ \in Seq([l : Sparse, e : Experts])
    BY ExpertCacheAssumption DEF Types, Mains, Ats

\* The main thread, outside moe().
LEMMA OutsideNext ==
    ASSUME IInv, Forward \/ Mtp \/ DenseLayer \/ (\E e \in Experts : Predict(e))
    PROVE  IInv'
<1> USE ExpertCacheAssumption DEF IInv
<1>1. CASE Forward
    <2>1. main' = [at |-> "attn", layer |-> 0, need |-> <<>>, use |-> <<>>]
        BY <1>1 DEF Forward, Away
    <2>2. main' \in Mains
        BY <2>1 DEF Mains, Ats
    <2>3. cur' \in Int /\ pilotQ' \in Seq([l : Sparse, e : Experts])
        BY <1>1 DEF Forward, Types
    <2>4. Types'
        BY <1>1, <2>2, <2>3, TypesKept DEF Forward, cache
    <2>5. Ahead' /\ InHand'
        BY <2>1 DEF Ahead, InHand, InMoe
    <2> QED
        BY <1>1, <2>4, <2>5, CacheKept DEF Forward, cache
<1>2. CASE Mtp
    <2>1. main' = main /\ main.at = "idle" /\ cur' = NLayers /\ UNCHANGED <<slot, ecn, pin, ws, pilotQ, pilot>>
        BY <1>2 DEF Mtp, cache
    <2>2. main' \in Mains /\ cur' \in Int /\ pilotQ' \in Seq([l : Sparse, e : Experts])
        BY <2>1, SharedTypes
    <2>3. Types'
        BY <2>1, <2>2, TypesKept
    <2>4. Ahead'
        BY <2>1 DEF Ahead, InMoe
    <2>5. main.use = <<>>
        BY <2>1 DEF InHand
    <2>6. InHand'
        BY <2>1, <2>5 DEF InHand
    <2> QED
        BY <2>1, <2>3, <2>4, <2>6, CacheKept
<1>3. CASE DenseLayer
    <2>1. main' = Onward
        BY <1>3 DEF DenseLayer
    <2>2. main' \in Mains /\ main'.at \in {"attn", "idle"} /\ main'.need = <<>> /\ main'.use = <<>>
        BY <2>1, OnwardFacts
    <2>3. Types'
        BY <1>3, <2>2, TypesKept DEF DenseLayer, cache, Types
    <2>4. Ahead' /\ InHand'
        BY <2>2 DEF Ahead, InHand, InMoe
    <2> QED
        BY <1>3, <2>3, <2>4, CacheKept DEF DenseLayer, cache
<1>4. ASSUME NEW e \in Experts, Predict(e) PROVE IInv'
    <2>1. pilotQ' \in Seq([l : Sparse, e : Experts])
        <3>1. [l |-> main.layer + 1, e |-> e] \in [l : Sparse, e : Experts]
            BY <1>4 DEF Predict
        <3> QED
            BY <1>4, <3>1 DEF Predict, Types
    <2>2. Types'
        <3>1. pilotQ' # <<>>
            <4>1. Len(pilotQ') = Len(pilotQ) + 1 /\ Len(pilotQ) \in Nat
                BY <1>4, SharedTypes DEF Predict
            <4> QED
                BY <4>1
        <3>2. main' = main /\ cur' = cur
            BY <1>4 DEF Predict
        <3> QED
            BY <1>4, <2>1, <3>1, <3>2, SharedTypes, TypesKept DEF Predict, cache
    <2>3. Ahead' /\ InHand'
        BY <1>4 DEF Ahead, InHand, Predict, cache, Cached
    <2> QED
        BY <1>4, <2>2, <2>3, CacheKept DEF Predict, cache
<1> QED
    BY <1>1, <1>2, <1>3, <1>4

LEMMA EnterNext ==
    ASSUME IInv, EnterMoe
    PROVE  IInv'
<1> USE DEF IInv
<1>1. CASE Inflight = main.layer
    <2>1. main' = [main EXCEPT !.at = "wait"]
        BY <1>1 DEF EnterMoe
    <2>2. main' \in Mains
        BY <2>1 DEF Types, Mains, Ats
    <2>3. Types'
        BY <2>2, SharedTypes, TypesKept DEF EnterMoe, cache
    <2>4. Ahead' /\ InHand'
        BY <2>1 DEF EnterMoe, Ahead, InHand, InMoe, Types
    <2> QED
        BY <2>3, <2>4, CacheKept DEF EnterMoe, cache
<1>2. CASE Inflight # main.layer
    <2>1. PICK s \in Routes : main' = [main EXCEPT !.at = "resolve", !.need = s]
        BY <1>2 DEF EnterMoe
    <2>2. main' \in Mains
        BY <2>1, RouteFacts DEF Types, Mains, Ats, InMoe
    <2>3. Types'
        BY <2>2, SharedTypes, TypesKept DEF EnterMoe, cache
    <2>4. pilot.at = "none" \/ pilot.l # main.layer
        BY <1>2 DEF Inflight
    <2>5. Ahead'
        BY <2>1, <2>4 DEF EnterMoe, Ahead, Types
    <2>6. InHand'
        <3>1. main.use = <<>> /\ main \in Mains
            BY SharedTypes DEF EnterMoe, InHand
        <3>2. main'.need = s /\ main'.use = <<>> /\ main'.at = "resolve"
            BY <2>1, <3>1 DEF Mains
        <3>3. s \in Seq(Experts) /\ \A i, j \in 1 .. Len(s) : s[i] = s[j] => i = j
            BY RouteFacts
        <3> QED
            BY <3>2, <3>3, ExpertCacheAssumption DEF InHand
    <2> QED
        BY <2>3, <2>5, <2>6, CacheKept DEF EnterMoe, cache
<1> QED
    BY <1>1, <1>2
-----------------------------------------------------------------------------
(* The main thread, within moe() *)

LEMMA ResolveNext ==
    ASSUME IInv, Rewriting, Resolve
    PROVE  IInv'
<1> USE DEF IInv
<1> DEFINE nb == IF Len(main.need) < Block THEN Len(main.need) ELSE Block
           use == [j \in 1 .. nb |-> Place(main.layer, main.need[j])]
<1>1. /\ main.at = "resolve" /\ main' = [main EXCEPT !.at = "load", !.use = use]
      /\ slot' = slot /\ ecn' = ecn /\ UNCHANGED <<pin, ws, cur, pilotQ, pilot>>
    BY DEF Resolve
<1>2. main \in Mains /\ main.layer \in Sparse /\ main.need \in Seq(Experts)
    BY <1>1, SharedTypes DEF Ahead, InMoe, Mains
<1>3. nb \in Nat /\ nb <= Len(main.need) /\ nb <= Block
    BY <1>2, ExpertCacheAssumption
<1>4. \A j \in 1 .. nb : main.need[j] \in Experts
    BY <1>2, <1>3
<1>5. use \in Seq(Uses) /\ Len(use) = nb
    <2>1. \A j \in 1 .. nb : Place(main.layer, main.need[j]) \in Uses
        BY <1>1, <1>2, <1>4, PlaceFacts
    <2> QED
        BY <1>3, <2>1
<1> HIDE DEF nb
<1>6. \A j \in 1 .. nb : use[j] = Place(main.layer, main.need[j])
    OBVIOUS
<1> HIDE DEF use
<1>7. /\ main'.at = "load" /\ main'.layer = main.layer
      /\ main'.need = main.need /\ main'.use = use /\ main' \in Mains
    BY <1>1, <1>2, <1>5 DEF Mains, Ats, InMoe
<1>8. Types'
    BY <1>1, <1>7, SharedTypes, TypesKept
<1>9. Ahead'
    BY <1>1, <1>7 DEF Ahead, InMoe
<1>10. InHand'
    <2>1. ASSUME NEW j \in 1 .. nb
          PROVE  /\ use[j].in = "pin" => use[j].z \in 1 .. NPin[main.layer]
                               /\ pin[main.layer][use[j].z] = Full(main.need[j])
                 /\ use[j].in = "cache" => use[j].z \in 1 .. ecn[main.layer]
                                 /\ slot[main.layer][use[j].z] = Full(main.need[j])
                 /\ use[j].in = "ws" => ~Cached(main.layer, main.need[j])
        BY <1>1, <1>2, <1>4, <1>6, PlaceFacts
    <2>2. \A j \in 1 .. nb : Cached(main.layer, main.need[j])' <=> Cached(main.layer, main.need[j])
        BY <1>1, <1>7 DEF Cached
    <2> QED
        BY <1>1, <1>3, <1>5, <1>7, <2>1, <2>2 DEF InHand
<1> QED
    BY <1>1, <1>8, <1>9, <1>10, CacheKept

LEMMA LoadNext ==
    ASSUME IInv, LoadMisses
    PROVE  IInv'
<1> USE DEF IInv
<1>1. /\ main.at = "load" /\ main' = [main EXCEPT !.at = "matmul"]
      /\ ws' = [j \in 1 .. Block |-> IF Miss(j) THEN Full(main.need[j]) ELSE ws[j]]
      /\ UNCHANGED <<slot, ecn, pin, cur, pilotQ, pilot>>
    BY DEF LoadMisses, cache
<1>2. main \in Mains /\ main.use \in Seq(Uses) /\ main.need \in Seq(Experts)
    BY SharedTypes DEF Mains
<1>3. /\ main'.at = "matmul" /\ main'.layer = main.layer
      /\ main'.need = main.need /\ main'.use = main.use /\ main' \in Mains
    BY <1>1, <1>2 DEF Mains, Ats, InMoe
<1>4. \A j \in DOMAIN main.use : main.need[j] \in Experts
    BY <1>2 DEF InHand
<1>5. ws' \in [1 .. Block -> Slots]
    <2>1. \A j \in 1 .. Block : (IF Miss(j) THEN Full(main.need[j]) ELSE ws[j]) \in Slots
        BY <1>4 DEF Types, Miss, Slots
    <2> QED
        BY <1>1, <2>1
<1>6. Types'
    BY <1>1, <1>3, <1>5 DEF Types, Mains, Ats, Jobs
<1>7. Ahead'
    BY <1>1, <1>3 DEF Ahead, InMoe
<1>8. InHand'
    <2>1. \A j \in 1 .. Len(main.use) : j \in 1 .. Block /\ j \in DOMAIN main.use
        BY <1>2, ExpertCacheAssumption DEF InHand
    <2>2. \A j \in 1 .. Len(main.use) : main.use[j].in = "ws" => ws'[j] = Full(main.need[j])
        BY <1>1, <2>1 DEF Miss
    <2>3. \A j \in 1 .. Len(main.use) : Cached(main.layer, main.need[j])' <=> Cached(main.layer, main.need[j])
        BY <1>1, <1>3 DEF Cached
    <2>4. \A j \in 1 .. Len(main.use) :
              /\ main.use[j].in = "pin" => main.use[j].z \in 1 .. NPin[main.layer]
                               /\ pin[main.layer][main.use[j].z] = Full(main.need[j])
              /\ main.use[j].in = "cache" => main.use[j].z \in 1 .. ecn[main.layer]
                                 /\ slot[main.layer][main.use[j].z] = Full(main.need[j])
              /\ main.use[j].in = "ws" => ~Cached(main.layer, main.need[j])
        BY <1>1 DEF InHand
    <2>5. /\ \A i, j \in 1 .. Len(main.need) : main.need[i] = main.need[j] => i = j
          /\ Len(main.use) <= Len(main.need) /\ Len(main.use) <= Block
        BY DEF InHand
    <2>6. UNCHANGED <<pin, slot, ecn>> /\ main'.at \in {"load", "matmul", "promote"}
        BY <1>1, <1>3
    <2>7. \A j \in 1 .. Len(main'.use) :
              /\ main'.use[j].in = "pin" => main'.use[j].z \in 1 .. NPin[main'.layer]
                               /\ pin'[main'.layer][main'.use[j].z] = Full(main'.need[j])
              /\ main'.use[j].in = "cache" => main'.use[j].z \in 1 .. ecn'[main'.layer]
                                 /\ slot'[main'.layer][main'.use[j].z] = Full(main'.need[j])
        BY <1>3, <2>4, <2>6
    <2>8. \A j \in 1 .. Len(main'.use) :
              main'.use[j].in = "ws" => ~Cached(main.layer, main.need[j])' /\ ws'[j] = Full(main'.need[j])
        BY <1>3, <2>2, <2>3, <2>4
    <2> QED
        BY <1>3, <2>5, <2>6, <2>7, <2>8 DEF InHand
<1> QED
    BY <1>1, <1>6, <1>7, <1>8, CacheKept

LEMMA MatmulNext ==
    ASSUME IInv, Matmul
    PROVE  IInv'
<1> USE DEF IInv
<1>1. /\ main.at = "matmul" /\ main' = [main EXCEPT !.at = "promote"]
      /\ UNCHANGED <<slot, ecn, pin, ws, cur, pilotQ, pilot>>
    BY DEF Matmul, cache
<1>2. main \in Mains
    BY SharedTypes
<1>3. /\ main'.at = "promote" /\ main'.layer = main.layer
      /\ main'.need = main.need /\ main'.use = main.use /\ main' \in Mains
    BY <1>1, <1>2 DEF Mains, Ats, InMoe
<1>4. Types'
    BY <1>1, <1>3, SharedTypes, TypesKept
<1>5. Ahead'
    BY <1>1, <1>3 DEF Ahead, InMoe
<1>6. InHand'
    <2>1. \A j \in 1 .. Len(main.use) : Cached(main.layer, main.need[j])' <=> Cached(main.layer, main.need[j])
        BY <1>1, <1>3 DEF Cached
    <2> QED
        BY <1>1, <1>3, <2>1 DEF InHand
<1> QED
    BY <1>1, <1>4, <1>5, <1>6, CacheKept

\* Promotion fills slots that are counted afterwards, with experts of the block that
\* the layer had not cached.
LEMMA PromoteFacts ==
    ASSUME IInv, Promote
    PROVE  LET l == main.layer IN
           /\ ecn' = [ecn EXCEPT ![l] = ecn'[l]] /\ ecn[l] <= ecn'[l] /\ ecn'[l] <= Cap
           /\ \E Filled \in SUBSET (1 .. ecn'[l]) : \E by \in [Filled -> 1 .. Len(main.use)] :
                 /\ slot' = [slot EXCEPT ![l] = [z \in 1 .. Cap |->
                               IF z \in Filled THEN Full(main.need[by[z]]) ELSE slot[l][z]]]
                 /\ \A z \in Filled : ~Cached(l, main.need[by[z]])
                 /\ \A y, z \in Filled : by[y] = by[z] => y = z
<1> USE DEF IInv
<1> DEFINE l == main.layer
           full == ecn[l] + Promoted > Cap
           Mover(z) == {j \in DOMAIN main.use :
                          Miss(j) /\ Turn(j) <= Promoted /\ Target(l, Turn(j)) = z}
           Filled == {z \in 1 .. Cap : Mover(z) # {}}
           by == [z \in Filled |-> CHOOSE j \in Mover(z) : TRUE]
<1>1. /\ main.at = "promote"
      /\ slot' = [slot EXCEPT ![l] = [z \in 1 .. Cap |->
                        IF Mover(z) = {} THEN slot[l][z] ELSE ws[CHOOSE j \in Mover(z) : TRUE]]]
      /\ ecn' = [ecn EXCEPT ![l] = IF full THEN Cap ELSE @ + Promoted]
    BY DEF Promote
<1>2. l \in Sparse /\ ecn \in [Sparse -> 0 .. Cap] /\ Cap \in Nat
    BY <1>1, ExpertCacheAssumption DEF Ahead, InMoe, Types
<1>3. Promoted \in 0 .. Cap /\ \A j \in 1 .. Len(main.use) : Turn(j) \in Nat
    BY NMissFacts
<1>4. ecn[l] <= ecn'[l] /\ ecn'[l] <= Cap /\ ecn' = [ecn EXCEPT ![l] = ecn'[l]]
    <2> DEFINE n == IF full THEN Cap ELSE ecn[l] + Promoted
    <2>1. ecn[l] \in 0 .. Cap
        BY <1>2
    <2>2. ecn[l] <= n /\ n <= Cap
        BY <1>2, <1>3, <2>1
    <2>3. ecn' = [ecn EXCEPT ![l] = n]
        BY <1>1
    <2>4. ecn'[l] = n
        BY <1>2, <2>3
    <2> HIDE DEF n
    <2> QED
        BY <2>2, <2>3, <2>4
<1>5. DOMAIN main.use = 1 .. Len(main.use)
    BY DEF Types
<1>6. \A z \in Filled : /\ by[z] \in 1 .. Len(main.use) /\ Miss(by[z])
                        /\ Turn(by[z]) <= Promoted /\ Target(l, Turn(by[z])) = z
    BY <1>5
<1>7. \A z \in 1 .. Cap : (IF Mover(z) = {} THEN slot[l][z] ELSE ws[CHOOSE j \in Mover(z) : TRUE])
                           = IF z \in Filled THEN ws[by[z]] ELSE slot[l][z]
    OBVIOUS
<1> HIDE DEF by, Filled, Mover
<1>8. \A z \in Filled : ws[by[z]] = Full(main.need[by[z]]) /\ ~Cached(l, main.need[by[z]])
    BY <1>1, <1>6 DEF InHand, Miss
<1>9. Filled \in SUBSET (1 .. ecn'[l])
    <2>1. ASSUME NEW z \in Filled PROVE z \in 1 .. ecn'[l]
        <3> DEFINE a == Turn(by[z])
        <3>1. a \in Nat /\ a <= Promoted /\ Target(l, a) = z
            BY <1>3, <1>6
        <3>2. z \in 1 .. Cap
            BY DEF Filled
        <3>3. ecn'[l] = IF full THEN Cap ELSE ecn[l] + Promoted
            BY <1>1, <1>2
        <3>4. CASE full
            BY <3>2, <3>3, <3>4
        <3>5. CASE ~full
            <4>1. ecn[l] + a <= Cap
                BY <1>2, <1>3, <3>1, <3>5
            <4>2. z = ecn[l] + a
                BY <3>1, <4>1 DEF Target
            <4> QED
                BY <1>2, <1>3, <3>1, <3>2, <3>3, <3>5, <4>2
        <3> QED
            BY <3>4, <3>5
    <2> QED
        BY <2>1
<1>10. by \in [Filled -> 1 .. Len(main.use)]
    BY <1>6 DEF by
<1>11. slot' = [slot EXCEPT ![l] = [z \in 1 .. Cap |->
                   IF z \in Filled THEN Full(main.need[by[z]]) ELSE slot[l][z]]]
    BY <1>1, <1>7, <1>8
<1>12. \A y, z \in Filled : by[y] = by[z] => y = z
    BY <1>6
<1>13. \E F \in SUBSET (1 .. ecn'[l]) : \E b \in [F -> 1 .. Len(main.use)] :
          /\ slot' = [slot EXCEPT ![l] = [z \in 1 .. Cap |->
                        IF z \in F THEN Full(main.need[b[z]]) ELSE slot[l][z]]]
          /\ \A z \in F : ~Cached(l, main.need[b[z]])
          /\ \A y, z \in F : b[y] = b[z] => y = z
    <2> WITNESS Filled \in SUBSET (1 .. ecn'[l])
    <2> WITNESS by \in [Filled -> 1 .. Len(main.use)]
    <2> QED
        BY <1>8, <1>11, <1>12
<1> QED
    BY <1>4, <1>13

LEMMA PromoteNext ==
    ASSUME IInv, Promote
    PROVE  IInv'
<1> USE DEF IInv
<1> DEFINE l == main.layer
<1>1. /\ main.at = "promote" /\ ws' = [j \in 1 .. Block |-> Hidden]
      /\ main' = IF Len(main.need) > Len(main.use)
                 THEN [main EXCEPT !.at = "resolve", !.use = <<>>,
                                   !.need = SubSeq(@, Len(main.use) + 1, Len(@))]
                 ELSE Onward
      /\ UNCHANGED <<pin, cur, pilotQ, pilot>>
    BY DEF Promote
<1>2. /\ main \in Mains /\ l \in Sparse /\ main.need \in Seq(Experts)
      /\ main.use \in Seq(Uses) /\ Len(main.use) <= Len(main.need)
    BY <1>1, SharedTypes DEF Ahead, InMoe, Mains, InHand
<1>3. /\ ecn' = [ecn EXCEPT ![l] = ecn'[l]] /\ ecn[l] <= ecn'[l] /\ ecn'[l] <= Cap
      /\ \E Filled \in SUBSET (1 .. ecn'[l]) : \E by \in [Filled -> 1 .. Len(main.use)] :
            /\ slot' = [slot EXCEPT ![l] = [z \in 1 .. Cap |->
                          IF z \in Filled THEN Full(main.need[by[z]]) ELSE slot[l][z]]]
            /\ \A z \in Filled : ~Cached(l, main.need[by[z]])
            /\ \A y, z \in Filled : by[y] = by[z] => y = z
    BY PromoteFacts
<1>0. PICK Filled \in SUBSET (1 .. ecn'[l]) : \E by \in [Filled -> 1 .. Len(main.use)] :
            /\ slot' = [slot EXCEPT ![l] = [z \in 1 .. Cap |->
                          IF z \in Filled THEN Full(main.need[by[z]]) ELSE slot[l][z]]]
            /\ \A z \in Filled : ~Cached(l, main.need[by[z]])
            /\ \A y, z \in Filled : by[y] = by[z] => y = z
    BY <1>3
<1>4. PICK by \in [Filled -> 1 .. Len(main.use)] :
            /\ slot' = [slot EXCEPT ![l] = [z \in 1 .. Cap |->
                          IF z \in Filled THEN Full(main.need[by[z]]) ELSE slot[l][z]]]
            /\ \A z \in Filled : ~Cached(l, main.need[by[z]])
            /\ \A y, z \in Filled : by[y] = by[z] => y = z
    BY <1>0
<1>5. /\ slot \in [Sparse -> [1 .. Cap -> Slots]] /\ ecn \in [Sparse -> 0 .. Cap]
      /\ Cap \in Nat \ {0}
    BY ExpertCacheAssumption DEF Types
<1>6. /\ \A k \in Sparse : k # l => ecn'[k] = ecn[k] /\ slot'[k] = slot[k]
      /\ ecn'[l] \in Nat
      /\ \A z \in 1 .. Cap : slot'[l][z] = IF z \in Filled THEN Full(main.need[by[z]]) ELSE slot[l][z]
    <2>1. ecn[l] \in Nat
        BY <1>2, <1>5
    <2>2. ecn' \in [Sparse -> 0 .. Cap]
        <3>1. Promoted \in 0 .. Cap
            BY NMissFacts
        <3>2. (IF ecn[l] + Promoted > Cap THEN Cap ELSE ecn[l] + Promoted) \in 0 .. Cap
            BY <1>2, <1>5, <3>1
        <3> QED
            BY <1>5, <3>2 DEF Promote
    <2> QED
        BY <1>2, <1>3, <1>4, <1>5, <2>1, <2>2
<1>7. \A z \in Filled : main.need[by[z]] \in Experts /\ by[z] \in 1 .. Len(main.need)
    BY <1>2, <1>4
<1>8. Types'
    <2>1. main' \in Mains
        <3>1. CASE Len(main.need) > Len(main.use)
            <4>1. SubSeq(main.need, Len(main.use) + 1, Len(main.need)) \in Seq(Experts)
                BY <1>2, <3>1, RestFacts
            <4>2. main' = [at |-> "resolve", layer |-> l, use |-> <<>>,
                           need |-> SubSeq(main.need, Len(main.use) + 1, Len(main.need))]
                BY <1>1, <1>2, <3>1 DEF Mains
            <4>3. l \in 0 .. NLayers
                BY <1>2 DEF Mains
            <4> QED
                BY <4>1, <4>2, <4>3 DEF Mains, Ats, InMoe
        <3> QED
            BY <1>1, <3>1, OnwardFacts
    <2>2. slot' \in [Sparse -> [1 .. Cap -> Slots]]
        <3>1. \A z \in 1 .. Cap : (IF z \in Filled THEN Full(main.need[by[z]]) ELSE slot[l][z]) \in Slots
            BY <1>2, <1>5, <1>7 DEF Slots
        <3> QED
            BY <1>4, <1>5, <3>1
    <2>3. ecn' \in [Sparse -> 0 .. Cap]
        <3>1. ecn'[l] \in 0 .. Cap
            BY <1>3, <1>5, <1>6
        <3> QED
            BY <1>3, <1>5, <3>1
    <2>4. ws' \in [1 .. Block -> Slots]
        BY <1>1 DEF Slots
    <2> QED
        BY <1>1, <2>1, <2>2, <2>3, <2>4 DEF Types, Mains, Ats, Jobs
<1>9. Ahead'
    <2>1. CASE Len(main.need) > Len(main.use)
        BY <1>1, <1>2, <2>1 DEF Ahead, InMoe, Mains
    <2>2. CASE ~(Len(main.need) > Len(main.use))
        BY <1>1, <2>2, OnwardFacts DEF Ahead, InMoe
    <2> QED
        BY <2>1, <2>2
<1>10. InHand'
    <2>1. CASE Len(main.need) > Len(main.use)
        <3> DEFINE n == Len(main.use)
                   rest == SubSeq(main.need, n + 1, Len(main.need))
        <3>1. main'.at = "resolve" /\ main'.use = <<>> /\ main'.need = rest
            BY <1>1, <1>2, <2>1 DEF Mains
        <3>2. n \in Nat /\ Len(main.need) \in Nat
            BY <1>2
        <3>3. Len(rest) = Len(main.need) - n /\ \A i \in 1 .. Len(rest) : rest[i] = main.need[n + i]
            <4>1. n \in Nat /\ n < Len(main.need)
                BY <2>1, <3>2
            <4>2. /\ Len(rest) = Len(main.need) - n
                  /\ \A i \in 1 .. Len(main.need) - n : rest[i] = main.need[n + i]
                <5> HIDE DEF n
                <5> QED
                    BY <1>2, <4>1, RestFacts
            <4> HIDE DEF rest, n
            <4> QED
                BY <4>2
        <3>4. \A i, j \in 1 .. Len(rest) : rest[i] = rest[j] => i = j
            <4>1. ASSUME NEW i \in 1 .. Len(rest), NEW j \in 1 .. Len(rest), rest[i] = rest[j]
                  PROVE  i = j
                <5>1. n + i \in 1 .. Len(main.need) /\ n + j \in 1 .. Len(main.need)
                    BY <3>2, <3>3
                <5>2. main.need[n + i] = main.need[n + j]
                    BY <3>3, <4>1
                <5>3. n + i = n + j
                    BY <5>1, <5>2 DEF InHand
                <5> QED
                    BY <3>2, <3>3, <5>3
            <4> QED
                BY <4>1
        <3>5. Len(rest) \in Nat
            BY <2>1, <3>2, <3>3
        <3> HIDE DEF rest
        <3> QED
            BY <3>1, <3>4, <3>5, ExpertCacheAssumption DEF InHand
    <2>2. CASE ~(Len(main.need) > Len(main.use))
        BY <1>1, <2>2, OnwardFacts, ExpertCacheAssumption DEF InHand
    <2> QED
        BY <2>1, <2>2
<1>11. pilot.at = "none" \/ (pilot.l # l /\ pilot.l \in Sparse)
    BY <1>1 DEF Ahead, InMoe, Types, Jobs, Resting
<1>12. InFlight'
    BY <1>1, <1>6, <1>11 DEF InFlight
<1>13. Spare'
    <2>1. \A z \in 1 .. Cap : z > ecn'[l] => slot'[l][z] = slot[l][z] /\ z > ecn[l]
        BY <1>2, <1>3, <1>4, <1>5, <1>6
    <2> QED
        BY <1>1, <1>2, <1>6, <2>1 DEF Spare
<1>14. NoExpertTwice'
    <2>1. ASSUME NEW y \in 1 .. ecn'[l], NEW z \in 1 .. ecn'[l],
                 y # z, slot'[l][y].eid = slot'[l][z].eid, slot'[l][y].eid # None
          PROVE  FALSE
        <3>1. y \in 1 .. Cap /\ z \in 1 .. Cap
            BY <1>3, <1>5, <1>6
        <3>2. \A x \in 1 .. Cap \ Filled :
                 slot'[l][x].eid # None => x \in 1 .. ecn[l] /\ slot'[l][x] = slot[l][x]
            <4>1. ASSUME NEW x \in 1 .. Cap, x \notin Filled, slot[l][x].eid # None
                  PROVE  x \in 1 .. ecn[l]
                <5>1. ecn[l] \in Nat
                    BY <1>2, <1>5
                <5>2. ~(x > ecn[l])
                    <6>1. x > ecn[l] => slot[l][x] = Hidden \/ (pilot.at = "publish" /\ pilot.l = l)
                        BY <1>2, <4>1 DEF Spare
                    <6>2. slot[l][x] # Hidden
                        BY <4>1 DEF Hidden
                    <6> QED
                        BY <1>11, <6>1, <6>2
                <5> QED
                    BY <1>5, <5>1, <5>2
            <4> QED
                BY <1>6, <4>1
        <3>3. \A x \in Filled : slot'[l][x].eid = main.need[by[x]] /\ ~Cached(l, main.need[by[x]])
            <4>1. Filled \subseteq 1 .. Cap
                BY <1>3, <1>5, <1>6
            <4>2. \A x \in Filled : slot'[l][x] = Full(main.need[by[x]])
                BY <1>6, <4>1
            <4>3. \A e : Full(e).eid = e
                BY DEF Full
            <4> HIDE DEF l
            <4> QED
                BY <1>4, <4>2, <4>3
        <3>4. CASE y \in Filled /\ z \in Filled
            <4>1. by[y] = by[z]
                BY <1>7, <2>1, <3>3, <3>4 DEF InHand
            <4> QED
                BY <1>4, <2>1, <3>4, <4>1
        <3>5. CASE y \in Filled /\ z \notin Filled
            BY <2>1, <3>1, <3>2, <3>3, <3>5 DEF Cached
        <3>6. CASE y \notin Filled /\ z \in Filled
            BY <2>1, <3>1, <3>2, <3>3, <3>6 DEF Cached
        <3>7. CASE y \notin Filled /\ z \notin Filled
            BY <1>2, <2>1, <3>1, <3>2, <3>7 DEF NoExpertTwice
        <3> QED
            BY <3>4, <3>5, <3>6, <3>7
    <2> QED
        BY <1>2, <1>6, <2>1 DEF NoExpertTwice
<1> QED
    BY <1>8, <1>9, <1>10, <1>12, <1>13, <1>14

\* One pinned slot is written, with a proper content.
LEMMA OnePin ==
    ASSUME Types, NEW l \in Sparse, NEW z \in 1 .. NPin[l], NEW s \in Pins,
           pin' = [pin EXCEPT ![l][z] = s]
    PROVE  /\ \A k \in Sparse : pin'[k] \in [1 .. NPin[k] -> Pins]
           /\ pin' = [k \in Sparse |-> pin'[k]]
           /\ \A k \in Sparse : k # l => pin'[k] = pin[k]
           /\ \A y \in 1 .. NPin[l] : pin'[l][y] = IF y = z THEN s ELSE pin[l][y]
<1>1. DOMAIN pin = Sparse /\ \A k \in Sparse : pin[k] \in [1 .. NPin[k] -> Pins]
    BY DEF Types
<1>2. pin' = [pin EXCEPT ![l] = [pin[l] EXCEPT ![z] = s]]
    OBVIOUS
<1>3. [pin[l] EXCEPT ![z] = s] \in [1 .. NPin[l] -> Pins]
    BY <1>1
<1>4. \A y \in 1 .. NPin[l] : [pin[l] EXCEPT ![z] = s][y] = IF y = z THEN s ELSE pin[l][y]
    BY <1>1
<1> QED
    BY <1>1, <1>2, <1>3, <1>4

\* A slot that loses its weights keeps its name.
LEMMA TornPin ==
    ASSUME NEW s \in Pins
    PROVE  [s EXCEPT !.wt = Torn] \in Pins /\ [s EXCEPT !.wt = Torn].wt = Torn
    BY DEF Pins, Full, Overwritten

\* Another expert gets a pinned slot: first its weights go, then the new ones are in.
LEMMA RepinNext ==
    ASSUME IInv, Rewriting, RepinStarts \/ RepinEnds
    PROVE  IInv' /\ Rewriting'
<1> USE DEF IInv
<1>1. UNCHANGED <<slot, ecn, ws, cur, pilotQ, pilot>>
    BY DEF RepinStarts, RepinEnds, cache
<1>2. CASE RepinStarts
    <2>1. PICK l \in Sparse, e \in Experts : \E z \in 1 .. NPin[l] :
            /\ pin' = [pin EXCEPT ![l][z].wt = Torn]
            /\ main' = [Away EXCEPT !.at = "repin", !.layer = l, !.need = <<e>>]
        BY <1>2 DEF RepinStarts
    <2>2. PICK z \in 1 .. NPin[l] : pin' = [pin EXCEPT ![l][z].wt = Torn]
        BY <2>1
    <2>3. main.at = "idle" /\ main' = [at |-> "repin", layer |-> l, need |-> <<e>>, use |-> <<>>]
        BY <1>2, <2>1 DEF RepinStarts, Away
    <2> DEFINE s == [pin[l][z] EXCEPT !.wt = Torn]
    <2>4. s \in Pins /\ s.wt = Torn
        BY TornPin DEF Types
    <2>5. pin' = [pin EXCEPT ![l][z] = s]
        BY <2>2
    <2> HIDE DEF s
    <2>6. /\ \A k \in Sparse : pin'[k] \in [1 .. NPin[k] -> Pins]
          /\ pin' = [k \in Sparse |-> pin'[k]]
          /\ \A k \in Sparse : k # l => pin'[k] = pin[k]
          /\ \A y \in 1 .. NPin[l] : pin'[l][y] = IF y = z THEN s ELSE pin[l][y]
        BY <2>4, <2>5, OnePin
    <2>7. main' \in Mains
        BY <2>3, ExpertCacheAssumption DEF Mains, Ats
    <2>8. Types'
        BY <1>1, <2>6, <2>7 DEF Types, Mains, Ats, Jobs
    <2>9. Ahead' /\ InHand'
        BY <2>3 DEF Ahead, InHand, InMoe
    <2>10. Rewriting'
        <3>1. ASSUME NEW k \in Sparse, NEW y \in 1 .. NPin[k], pin'[k][y].wt = Torn
              PROVE  k = l /\ y = z
            <4>1. pin[k][y].wt # Torn
                BY <2>3, PinsComplete
            <4> QED
                BY <2>6, <3>1, <4>1
        <3>2. main'.at = "repin" /\ main'.layer = l /\ main'.need # <<>>
            BY <2>3
        <3> QED
            BY <3>1, <3>2 DEF Rewriting
    <2> QED
        BY <1>1, <2>8, <2>9, <2>10, CacheKept
<1>3. CASE RepinEnds
    <2> DEFINE l == main.layer
               e == Head(main.need)
    <2>1. main.at = "repin" /\ main' = [at |-> "idle", layer |-> 0, need |-> <<>>, use |-> <<>>]
        BY <1>3 DEF RepinEnds, Away
    <2>2. l \in Sparse /\ main.need # <<>> /\ main.need \in Seq(Experts)
        BY <2>1 DEF Rewriting, Types
    <2>3. Full(e) \in Pins /\ Full(e).wt # Torn
        BY <2>2, ExpertCacheAssumption DEF Pins, Full
    <2>4. PICK z \in 1 .. NPin[l] : pin[l][z].wt = Torn /\ pin' = [pin EXCEPT ![l][z] = Full(e)]
        BY <1>3 DEF RepinEnds
    <2> HIDE DEF e
    <2>5. /\ \A k \in Sparse : pin'[k] \in [1 .. NPin[k] -> Pins]
          /\ pin' = [k \in Sparse |-> pin'[k]]
          /\ \A k \in Sparse : k # l => pin'[k] = pin[k]
          /\ \A y \in 1 .. NPin[l] : pin'[l][y] = IF y = z THEN Full(e) ELSE pin[l][y]
        BY <2>2, <2>3, <2>4, OnePin
    <2>6. main' \in Mains
        BY <2>1, ExpertCacheAssumption DEF Mains, Ats
    <2>7. Types'
        BY <1>1, <2>5, <2>6 DEF Types, Mains, Ats, Jobs
    <2>8. Ahead' /\ InHand'
        BY <2>1 DEF Ahead, InHand, InMoe
    <2>9. ASSUME NEW k \in Sparse, NEW y \in 1 .. NPin[k], pin'[k][y].wt = Torn
          PROVE  FALSE
        <3>1. CASE k # l
            BY <2>5, <2>9, <3>1 DEF Rewriting
        <3>2. CASE k = l /\ y = z
            BY <2>3, <2>5, <2>9, <3>2
        <3>3. CASE k = l /\ y # z
            BY <2>2, <2>4, <2>5, <2>9, <3>3 DEF Rewriting
        <3> QED
            BY <3>1, <3>2, <3>3
    <2>10. Rewriting'
        BY <2>1, <2>9 DEF Rewriting
    <2> QED
        BY <1>1, <2>7, <2>8, <2>10, CacheKept
<1> QED
    BY <1>2, <1>3
-----------------------------------------------------------------------------
(* The pilot *)

\* A step of the pilot leaves the block at hand alone if it leaves its layer alone.
LEMMA InHandKept ==
    ASSUME InHand, UNCHANGED <<main, pin, ws>>,
           main.at \in InMoe => slot'[main.layer] = slot[main.layer] /\ ecn'[main.layer] = ecn[main.layer]
    PROVE  InHand'
<1>1. main.at \in InMoe => \A e : Cached(main.layer, e)' <=> Cached(main.layer, e)
    BY DEF Cached
<1> QED
    BY <1>1 DEF InHand, InMoe

\* One slot of one layer is written, with a proper content.
LEMMA OneSlot ==
    ASSUME Types, NEW l \in Sparse, NEW z, NEW s \in Slots,
           slot' = [slot EXCEPT ![l][z] = s]
    PROVE  /\ slot' \in [Sparse -> [1 .. Cap -> Slots]]
           /\ \A k \in Sparse : k # l => slot'[k] = slot[k]
           /\ \A y \in 1 .. Cap : slot'[l][y] = IF y = z THEN s ELSE slot[l][y]
<1>1. slot \in [Sparse -> [1 .. Cap -> Slots]]
    BY DEF Types
<1>2. slot' = [slot EXCEPT ![l] = [slot[l] EXCEPT ![z] = s]]
    OBVIOUS
<1>3. slot[l] \in [1 .. Cap -> Slots]
    BY <1>1
<1>4. [slot[l] EXCEPT ![z] = s] \in [1 .. Cap -> Slots]
    BY <1>3
<1>5. \A y \in 1 .. Cap : [slot[l] EXCEPT ![z] = s][y] = IF y = z THEN s ELSE slot[l][y]
    BY <1>3
<1> QED
    BY <1>1, <1>2, <1>4, <1>5

\* What the pilot is doing, when it is at work.
LEMMA JobFacts ==
    ASSUME Types, pilot.at # "none"
    PROVE  /\ pilot \in Jobs(pilot) /\ pilot.l \in Sparse /\ pilot.e \in Experts
           /\ pilot.new \in BOOLEAN /\ pilot.at \in {"load", "publish"}
           /\ pilotQ # <<>>
    BY DEF Types, Jobs, Resting

\* The front of a queue.
LEMMA FrontFacts ==
    ASSUME NEW S, NEW s \in Seq(S), s # <<>>
    PROVE  Head(s) \in S /\ Tail(s) \in Seq(S)
    OBVIOUS

LEMMA TakesNext ==
    ASSUME IInv, PilotTakes
    PROVE  IInv'
<1> USE DEF IInv
<1> DEFINE o == Head(pilotQ)
           z == IF Room(o.l) THEN ecn[o.l] + 1 ELSE lru[o.l][1]
<1>1. /\ pilot.at = "none" /\ pilotQ # <<>> /\ ~Useless(o)
      /\ slot' = [slot EXCEPT ![o.l][z] = Hidden]
      /\ pilot' = [at |-> "load", l |-> o.l, e |-> o.e, z |-> z, new |-> Room(o.l)]
      /\ UNCHANGED <<ecn, pin, ws, main, cur, pilotQ>>
    BY DEF PilotTakes
<1>2. o \in [l : Sparse, e : Experts]
    BY <1>1, SharedTypes, FrontFacts
<1>3. o.l \in Sparse /\ o.e \in Experts
    BY <1>2
<1>4. /\ ~(o.l <= cur) /\ ~Cached(o.l, o.e)
    BY <1>1 DEF Useless
<1>5. ecn \in [Sparse -> 0 .. Cap] /\ ecn[o.l] \in 0 .. Cap /\ Cap \in Nat
    BY <1>3, ExpertCacheAssumption DEF Types
<1>6. Room(o.l) <=> ecn[o.l] < Cap
    BY DEF Room
<1>7. Hidden \in Slots
    BY DEF Slots
<1>8. Room(o.l) \in BOOLEAN
    BY DEF Room
<1>9. Room(o.l) => z = ecn[o.l] + 1
    OBVIOUS
<1> HIDE DEF z, o
<1>10. /\ slot' \in [Sparse -> [1 .. Cap -> Slots]]
       /\ \A k \in Sparse : k # o.l => slot'[k] = slot[k]
       /\ \A y \in 1 .. Cap : slot'[o.l][y] = IF y = z THEN Hidden ELSE slot[o.l][y]
    BY <1>1, <1>3, <1>7, OneSlot
<1>11. Types'
    <2>1. pilot' \in Jobs(pilot)'
        BY <1>1, <1>3, <1>8 DEF Jobs
    <2> QED
        BY <1>1, <1>10, <2>1 DEF Types
<1>12. main.at \in InMoe => main.layer # o.l
    <2>1. cur \in Int /\ o.l \in Int
        <3>1. o.l \in 0 .. NLayers - 1
            BY <1>3, ExpertCacheAssumption
        <3> QED
            BY <3>1, SharedTypes, ExpertCacheAssumption
    <2> QED
        BY <1>4, <2>1 DEF Ahead
<1>13. Ahead'
    BY <1>1, <1>12 DEF Ahead
<1>14. InHand'
    <2>1. main.at \in InMoe => slot'[main.layer] = slot[main.layer]
        BY <1>10, <1>12 DEF Ahead
    <2> QED
        BY <1>1, <2>1, InHandKept
<1>15. InFlight'
    <2>1. /\ pilot'.at = "load" /\ pilot'.l = o.l /\ pilot'.e = o.e
          /\ pilot'.z = z /\ pilot'.new = Room(o.l)
        BY <1>1
    <2>2. \A y \in 1 .. ecn[o.l] : y # z => slot'[o.l][y].eid # o.e
        <3>1. \A y \in 1 .. ecn[o.l] : y \in 1 .. Cap /\ slot[o.l][y].eid # o.e
            BY <1>4, <1>5 DEF Cached
        <3> QED
            BY <1>10, <3>1
    <2>3. ~Room(o.l) => ecn[o.l] = Cap
        BY <1>5, <1>6
    <2>4. z \in 1 .. Cap => slot'[o.l][z] = Hidden
        BY <1>10
    <2> QED
        BY <1>1, <1>6, <1>9, <2>1, <2>2, <2>3, <2>4 DEF InFlight
<1>16. Spare'
    <2>1. ASSUME NEW k \in Sparse, NEW y \in 1 .. Cap, y > ecn[k]
          PROVE  slot'[k][y] = Hidden
        <3>1. slot[k][y] = Hidden
            BY <1>1, <2>1 DEF Spare
        <3> QED
            BY <1>10, <3>1
    <2> QED
        BY <1>1, <2>1 DEF Spare
<1>17. NoExpertTwice'
    <2>1. ASSUME NEW k \in Sparse, NEW x \in 1 .. ecn[k], NEW y \in 1 .. ecn[k],
                 x # y, slot'[k][x].eid # None
          PROVE  slot'[k][x].eid # slot'[k][y].eid
        <3>1. x \in 1 .. Cap /\ y \in 1 .. Cap
            <4>1. ecn[k] \in 0 .. Cap
                BY <1>5
            <4> QED
                BY <1>5, <4>1
        <3>2. \A w \in 1 .. Cap : slot'[k][w] = slot[k][w] \/ slot'[k][w] = Hidden
            BY <1>10
        <3>3. Hidden.eid = None
            BY DEF Hidden
        <3>4. slot[k][x].eid # slot[k][y].eid /\ slot'[k][x] = slot[k][x]
            BY <2>1, <3>1, <3>2, <3>3 DEF NoExpertTwice
        <3> QED
            BY <2>1, <3>1, <3>2, <3>3, <3>4
    <2> QED
        BY <1>1, <2>1 DEF NoExpertTwice
<1> QED
    BY <1>11, <1>13, <1>14, <1>15, <1>16, <1>17

LEMMA LoadsNext ==
    ASSUME IInv, PilotLoads
    PROVE  IInv'
<1> USE DEF IInv
<1> DEFINE l == pilot.l
           z == pilot.z
<1>1. /\ pilot.at = "load"
      /\ slot' = [slot EXCEPT ![l][z] = Full(pilot.e)]
      /\ pilot' = [pilot EXCEPT !.at = "publish"]
      /\ UNCHANGED <<ecn, pin, ws, main, cur, pilotQ>>
    BY DEF PilotLoads
<1>2. pilot \in Jobs(pilot) /\ l \in Sparse /\ pilot.e \in Experts /\ pilotQ # <<>>
    BY <1>1, JobFacts
<1>3. Full(pilot.e) \in Slots /\ Full(pilot.e).eid = pilot.e
    BY <1>2 DEF Slots, Full
<1>4. ecn \in [Sparse -> 0 .. Cap] /\ Cap \in Nat
    BY ExpertCacheAssumption DEF Types
<1>5. /\ slot' \in [Sparse -> [1 .. Cap -> Slots]]
      /\ \A k \in Sparse : k # l => slot'[k] = slot[k]
      /\ \A y \in 1 .. Cap : slot'[l][y] = IF y = z THEN Full(pilot.e) ELSE slot[l][y]
    BY <1>1, <1>2, <1>3, OneSlot
<1>6. /\ pilot'.at = "publish" /\ pilot'.l = l /\ pilot'.e = pilot.e
      /\ pilot'.z = z /\ pilot'.new = pilot.new /\ pilot' \in Jobs(pilot)'
    BY <1>1, <1>2 DEF Jobs
<1>7. Types'
    BY <1>1, <1>2, <1>5, <1>6 DEF Types
<1>8. Ahead'
    BY <1>1, <1>6 DEF Ahead
<1>9. InHand'
    <2>1. main.at \in InMoe => slot'[main.layer] = slot[main.layer]
        BY <1>1, <1>5 DEF Ahead
    <2> QED
        BY <1>1, <2>1, InHandKept
<1>10. \A y \in 1 .. ecn[l] : y \in 1 .. Cap /\ (y # z => slot'[l][y].eid # pilot.e)
    <2>1. \A y \in 1 .. ecn[l] : y \in 1 .. Cap
        <3>1. ecn[l] \in 0 .. Cap
            BY <1>2, <1>4
        <3> QED
            BY <1>4, <3>1
    <2> QED
        BY <1>1, <1>5, <2>1 DEF InFlight
<1>11. InFlight'
    BY <1>1, <1>5, <1>6, <1>10 DEF InFlight
<1>12. Spare'
    BY <1>1, <1>5, <1>6 DEF Spare
<1>13. NoExpertTwice'
    <2>1. ASSUME NEW k \in Sparse, NEW x \in 1 .. ecn[k], NEW y \in 1 .. ecn[k],
                 x # y, slot'[k][x].eid # None
          PROVE  slot'[k][x].eid # slot'[k][y].eid
        <3>1. CASE k # l
            BY <1>5, <2>1, <3>1 DEF NoExpertTwice
        <3>2. CASE k = l /\ x # z /\ y # z
            BY <1>5, <1>10, <2>1, <3>2 DEF NoExpertTwice
        <3>3. CASE k = l /\ (x = z \/ y = z)
            BY <1>3, <1>5, <1>10, <2>1, <3>3
        <3> QED
            BY <3>1, <3>2, <3>3
    <2> QED
        BY <1>1, <2>1 DEF NoExpertTwice
<1> QED
    BY <1>7, <1>8, <1>9, <1>11, <1>12, <1>13

LEMMA PublishesNext ==
    ASSUME IInv, PilotPublishes
    PROVE  IInv'
<1> USE DEF IInv
<1> DEFINE l == pilot.l
           z == pilot.z
<1>1. /\ pilot.at = "publish"
      /\ ecn' = [ecn EXCEPT ![l] = IF pilot.new THEN z ELSE @]
      /\ pilot' = Resting /\ pilotQ' = Tail(pilotQ)
      /\ UNCHANGED <<slot, pin, ws, main, cur>>
    BY DEF PilotPublishes
<1>2. l \in Sparse /\ pilot.e \in Experts /\ pilotQ # <<>>
    BY <1>1, JobFacts
<1>3. ecn \in [Sparse -> 0 .. Cap] /\ Cap \in Nat /\ ecn[l] \in 0 .. Cap
    BY <1>2, ExpertCacheAssumption DEF Types
<1>4. /\ ecn' \in [Sparse -> 0 .. Cap]
      /\ \A k \in Sparse : k # l => ecn'[k] = ecn[k]
      /\ ecn'[l] = IF pilot.new THEN z ELSE ecn[l]
      /\ pilot.new => z = ecn[l] + 1 /\ z \in 1 .. Cap
    <2>1. pilot.new => z = ecn[l] + 1 /\ z \in 1 .. Cap
        BY <1>1, <1>3 DEF InFlight
    <2>2. (IF pilot.new THEN z ELSE ecn[l]) \in 0 .. Cap
        BY <1>3, <2>1
    <2> HIDE DEF z
    <2> QED
        BY <1>1, <1>2, <1>3, <2>1, <2>2
<1>5. Types'
    <2>1. pilotQ' \in Seq([l : Sparse, e : Experts])
        BY <1>1, <1>2, SharedTypes, FrontFacts
    <2> QED
        BY <1>1, <1>4, <2>1 DEF Types
<1>6. Ahead'
    BY <1>1 DEF Ahead, Resting
<1>7. InHand'
    <2>1. main.at \in InMoe => ecn'[main.layer] = ecn[main.layer]
        BY <1>1, <1>4 DEF Ahead
    <2> QED
        BY <1>1, <2>1, InHandKept
<1>8. InFlight'
    BY <1>1 DEF InFlight, Resting
<1>9. Spare'
    <2>1. ASSUME NEW k \in Sparse, NEW y \in 1 .. Cap, y > ecn'[k]
          PROVE  slot[k][y] = Hidden
        <3>1. CASE k # l
            BY <1>4, <2>1, <3>1 DEF Spare
        <3>2. CASE k = l
            <4>1. y > ecn[l] /\ (y = z => ~pilot.new)
                BY <1>3, <1>4, <2>1, <3>2
            <4>2. ~pilot.new => ecn[l] = Cap
                BY <1>1 DEF InFlight
            <4> QED
                BY <1>3, <2>1, <3>2, <4>1, <4>2 DEF Spare
        <3> QED
            BY <3>1, <3>2
    <2> QED
        BY <1>1, <2>1 DEF Spare
<1>10. NoExpertTwice'
    <2>1. ASSUME NEW k \in Sparse, NEW x \in 1 .. ecn'[k], NEW y \in 1 .. ecn'[k],
                 x # y, slot[k][x].eid # None
          PROVE  slot[k][x].eid # slot[k][y].eid
        <3>1. CASE k # l \/ ~pilot.new
            BY <1>4, <2>1, <3>1 DEF NoExpertTwice
        <3>2. CASE k = l /\ pilot.new
            <4>1. \A w \in 1 .. ecn'[l] : w = z \/ w \in 1 .. ecn[l]
                BY <1>3, <1>4, <3>2
            <4>2. slot[l][z].eid = pilot.e
                BY <1>1, <1>4, <3>2 DEF InFlight, Full
            <4>3. \A w \in 1 .. ecn[l] : w # z => slot[l][w].eid # pilot.e
                BY <1>1 DEF InFlight
            <4> QED
                BY <1>2, <2>1, <3>2, <4>1, <4>2, <4>3 DEF NoExpertTwice
        <3> QED
            BY <3>1, <3>2
    <2> QED
        BY <1>1, <2>1 DEF NoExpertTwice
<1> QED
    BY <1>5, <1>6, <1>7, <1>8, <1>9, <1>10

\* The pilot drops a prediction, or gives up a load.
LEMMA DropsNext ==
    ASSUME IInv, PilotDrops \/ PilotFails
    PROVE  IInv'
<1> USE DEF IInv
<1>1. /\ pilotQ # <<>> /\ pilotQ' = Tail(pilotQ) /\ pilot' = Resting
      /\ UNCHANGED <<slot, ecn, pin, ws, main, cur>>
    <2>1. CASE PilotDrops
        BY <2>1 DEF PilotDrops, cache, Types, Jobs
    <2>2. CASE PilotFails
        BY <2>2, JobFacts DEF PilotFails, cache
    <2> QED
        BY <2>1, <2>2
<1>2. pilot.at # "publish"
    BY DEF PilotDrops, PilotFails
<1>3. Types'
    <2>1. pilotQ' \in Seq([l : Sparse, e : Experts])
        BY <1>1, SharedTypes, FrontFacts
    <2> QED
        BY <1>1, <2>1 DEF Types
<1>4. Ahead' /\ InFlight'
    BY <1>1 DEF Ahead, InFlight, Resting
<1>5. InHand'
    BY <1>1, InHandKept
<1>6. Spare' /\ NoExpertTwice'
    BY <1>1, <1>2 DEF Spare, NoExpertTwice
<1> QED
    BY <1>3, <1>4, <1>5, <1>6
-----------------------------------------------------------------------------
(* Theorems *)

\* Only the re-pin touches the pinned slots.
LEMMA PinsKept ==
    ASSUME Types, Rewriting, UNCHANGED pin, main' = main \/ main'.at # "repin",
           main.at # "repin" \/ main' = main
    PROVE  Rewriting'
<1>1. CASE main' = main
    BY <1>1 DEF Rewriting
<1>2. CASE main.at # "repin" /\ main'.at # "repin"
    <2>1. \A l \in Sparse : \A z \in 1 .. NPin[l] : pin[l][z].wt # Torn
        BY <1>2, PinsComplete
    <2> QED
        BY <1>2, <2>1 DEF Rewriting
<1> QED
    BY <1>1, <1>2

\* So every other step leaves no pinned slot without weights.
LEMMA RewritingNext ==
    ASSUME IInv, Rewriting, [Next]_vars
    PROVE  Rewriting'
<1> USE DEF IInv
<1>1. CASE Forward \/ Mtp \/ (\E e \in Experts : Predict(e))
    <2>1. UNCHANGED pin /\ (main' = main \/ (main.at # "repin" /\ main'.at = "attn"))
        BY <1>1 DEF Forward, Mtp, Predict, Away, cache
    <2> QED
        BY <2>1, PinsKept
<1>2. CASE DenseLayer
    <2>1. UNCHANGED pin /\ main.at # "repin" /\ main'.at \in {"attn", "idle"}
        BY <1>2, OnwardFacts DEF DenseLayer
    <2> QED
        BY <2>1, PinsKept
<1>3. CASE EnterMoe \/ Resolve \/ LoadMisses \/ Matmul
    <2>1. main \in Mains
        BY SharedTypes
    <2>2. UNCHANGED pin /\ main.at # "repin" /\ main'.at # "repin"
        BY <1>3, <2>1 DEF EnterMoe, Resolve, LoadMisses, Matmul, Mains
    <2> QED
        BY <2>2, PinsKept
<1>4. CASE Promote
    <2>1. main \in Mains /\ Onward.at # "repin"
        BY SharedTypes, OnwardFacts
    <2>2. UNCHANGED pin /\ main.at # "repin"
        BY <1>4 DEF Promote
    <2>3. main'.at # "repin"
        <3>1. main' = Onward \/ main' = [main EXCEPT !.at = "resolve", !.use = <<>>,
                                 !.need = SubSeq(@, Len(main.use) + 1, Len(@))]
            BY <1>4 DEF Promote
        <3> QED
            BY <2>1, <3>1 DEF Mains
    <2> QED
        BY <2>2, <2>3, PinsKept
<1>5. CASE RepinStarts \/ RepinEnds
    BY <1>5, RepinNext
<1>6. CASE Pilot \/ UNCHANGED vars
    <2>1. UNCHANGED <<pin, main>>
        BY <1>6 DEF Pilot, PilotDrops, PilotTakes, PilotLoads, PilotPublishes, PilotFails, vars
    <2> QED
        BY <2>1, PinsKept
<1> QED
    BY <1>1, <1>2, <1>3, <1>4, <1>5, <1>6 DEF Next, Main, Compute

\* Every step keeps the invariant.
LEMMA Inductive ==
    ASSUME IInv, Rewriting, [Next]_vars
    PROVE  IInv'
<1>1. CASE Main
    BY <1>1, OutsideNext, EnterNext, ResolveNext, LoadNext, MatmulNext, PromoteNext, RepinNext
    DEF Main, Compute
<1>2. CASE Pilot
    BY <1>2, DropsNext, TakesNext, LoadsNext, PublishesNext DEF Pilot
<1>3. CASE UNCHANGED vars
    <2> USE <1>3 DEF vars, cache, IInv
    <2>1. Types'
        BY SharedTypes, TypesKept
    <2>2. Ahead'
        BY DEF Ahead
    <2>3. InHand'
        BY InHandKept
    <2> QED
        BY <2>1, <2>2, <2>3, CacheKept
<1> QED
    BY <1>1, <1>2, <1>3 DEF Next

LEMMA SpecIInv == Spec => [](IInv /\ Rewriting)
    BY Initially, Inductive, RewritingNext, PTL DEF Spec

\* No load into the layer at work is in flight: part 1 of the comment at
\* glm.c:756-766, on which the other two rest.
THEOREM SpecPilotStaysAhead == Spec => []PilotStaysAhead
<1>1. IInv => PilotStaysAhead
    <2>1. ASSUME IInv, main.at \in InMoe PROVE Inflight # main.layer
        <3>1. main.layer \in 0 .. NLayers
            BY <2>1 DEF IInv, Types
        <3>2. main.layer # -1
            BY <3>1, ExpertCacheAssumption
        <3> QED
            BY <2>1, <3>2 DEF IInv, Ahead, Inflight
    <2> QED
        BY <2>1 DEF PilotStaysAhead
<1> QED
    BY <1>1, SpecIInv, PTL

\* No layer caches an expert twice, though two threads fill its cache.
THEOREM SpecNoExpertTwice == Spec => []NoExpertTwice
<1>1. IInv => NoExpertTwice
    BY DEF IInv
<1> QED
    BY <1>1, SpecIInv, PTL

\* Every matmul reads the complete weights of its own expert, from a pin, a cached slot
\* or the working set.
THEOREM SpecMatmulReadsLoaded == Spec => []MatmulReadsLoaded
<1>1. IInv => MatmulReadsLoaded
    <2>1. ASSUME IInv, main.at = "matmul", NEW j \in DOMAIN main.use
          PROVE  Holding(main.use[j], j) = Full(main.need[j])
        <3>1. main.use \in Seq(Uses)
            BY <2>1 DEF IInv, Types
        <3>2. j \in 1 .. Len(main.use) /\ main.use[j] \in Uses
            BY <2>1, <3>1
        <3>3. main.use[j].in \in {"pin", "cache", "ws"}
            BY <3>2 DEF Uses
        <3>4. CASE main.use[j].in = "pin"
            BY <2>1, <3>2, <3>4 DEF IInv, InHand, Holding
        <3>5. CASE main.use[j].in = "cache"
            BY <2>1, <3>2, <3>5 DEF IInv, InHand, Holding
        <3>6. CASE main.use[j].in = "ws"
            BY <2>1, <3>2, <3>6 DEF IInv, InHand, Holding
        <3> QED
            BY <3>3, <3>4, <3>5, <3>6
    <2> QED
        BY <2>1 DEF MatmulReadsLoaded
<1> QED
    BY <1>1, SpecIInv, PTL

-----------------------------------------------------------------------------
(* The order in which the slots were used *)

\* A sequence that has each of 1 .. n once.
Permutes(s, n) ==
    /\ s \in [1 .. n -> 1 .. n]
    /\ \A i, j \in 1 .. n : s[i] = s[j] => i = j
    /\ \A z \in 1 .. n : \E i \in 1 .. n : s[i] = z

\* Those of the first n look-ups that found the expert cached.
Hits(use, n) == {i \in 1 .. n : use[i].in = "cache"}

\* As many places at the end of the order as there were hits hold the slots they hit.
Recent(order, use, n) ==
    \A j \in Hits(use, n) : \E i \in 1 .. Len(order) :
        order[i] = use[j].z /\ i > Len(order) - Cardinality(Hits(use, n))

\* Such a sequence is a sequence, of n places.
LEMMA PermutesFacts ==
    ASSUME NEW n \in Nat, NEW s, Permutes(s, n)
    PROVE  s \in Seq(Nat) /\ Len(s) = n /\ DOMAIN s = 1 .. n /\ \A i \in 1 .. n : s[i] \in 1 .. n
    BY DEF Permutes

\* t is s with the place p moved to the end.
Moves(s, t, p, n) ==
    /\ t \in Seq(Nat) /\ Len(t) = n /\ t[n] = s[p]
    /\ \A j \in 1 .. n - 1 : t[j] = IF j < p THEN s[j] ELSE s[j + 1]

\* A slot in the order moves to its end, past those that come after it.
LEMMA TouchedFacts ==
    ASSUME NEW n \in Nat, NEW s \in Seq(Nat), Len(s) = n, NEW z \in Nat,
           \E i \in 1 .. n : s[i] = z
    PROVE  \E p \in 1 .. n : s[p] = z /\ Moves(s, Touched(s, z), p, n)
<1> DEFINE p == CHOOSE i \in DOMAIN s : s[i] = z
           left == SubSeq(s, 1, p - 1)
           right == SubSeq(s, p + 1, n)
<1>1. p \in 1 .. n /\ s[p] = z /\ n >= 1
    OBVIOUS
<1>2. Touched(s, z) = Append(left \o right, z)
    <2>1. DOMAIN s = 1 .. n /\ \E i \in DOMAIN s : s[i] = z
        OBVIOUS
    <2>2. Touched(s, z) = Append(RemoveAt(s, p), z)
        BY <2>1 DEF Touched
    <2> HIDE DEF p
    <2>3. RemoveAt(s, p) = left \o right
        BY DEF RemoveAt
    <2> HIDE DEF left, right
    <2> QED
        BY <2>2, <2>3
<1> HIDE DEF p
<1>3. /\ left \in Seq(Nat) /\ Len(left) = p - 1
      /\ \A j \in 1 .. p - 1 : left[j] = s[j]
    <2>1. \A j \in 1 .. p - 1 : s[j] \in Nat
        BY <1>1, ElementOfSeq
    <2> HIDE DEF left
    <2> QED
        BY <1>1, <2>1, SubSeqProperties, p - 1 \in Int, 1 \in Int DEF left
<1>4. /\ right \in Seq(Nat) /\ Len(right) = n - p
      /\ \A j \in 1 .. n - p : right[j] = s[p + j]
    <2>1. \A j \in p + 1 .. n : s[j] \in Nat
        BY <1>1, ElementOfSeq
    <2> HIDE DEF right
    <2> QED
        BY <1>1, <2>1, SubSeqProperties, p + 1 \in Int, n \in Int DEF right
<1> HIDE DEF left, right
<1> DEFINE rest == left \o right
<1>5. /\ rest \in Seq(Nat) /\ Len(rest) = n - 1
      /\ \A j \in 1 .. n - 1 : rest[j] = IF j < p THEN s[j] ELSE s[j + 1]
    <2>1. /\ rest \in Seq(Nat) /\ Len(rest) = Len(left) + Len(right)
          /\ \A j \in 1 .. Len(left) + Len(right) :
                rest[j] = IF j <= Len(left) THEN left[j] ELSE right[j - Len(left)]
        BY <1>3, <1>4, ConcatProperties
    <2> HIDE DEF rest
    <2>2. Len(left) + Len(right) = n - 1
        BY <1>1, <1>3, <1>4
    <2>3. ASSUME NEW j \in 1 .. n - 1 PROVE rest[j] = IF j < p THEN s[j] ELSE s[j + 1]
        <3>1. CASE j < p
            <4>1. j \in 1 .. Len(left) + Len(right) /\ j <= Len(left) /\ j \in 1 .. p - 1
                BY <1>1, <1>3, <2>2, <3>1
            <4>2. rest[j] = left[j]
                BY <2>1, <4>1
            <4> QED
                BY <1>3, <3>1, <4>1, <4>2
        <3>2. CASE ~(j < p)
            <4>1. /\ ~(j <= Len(left)) /\ j - Len(left) = j - p + 1
                  /\ j - p + 1 \in 1 .. n - p /\ p + (j - p + 1) = j + 1
                BY <1>1, <1>3, <3>2
            <4>2. rest[j] = right[j - p + 1]
                BY <2>1, <2>2, <4>1
            <4>3. right[j - p + 1] = s[p + (j - p + 1)]
                BY <1>4, <4>1
            <4> QED
                BY <3>2, <4>1, <4>2, <4>3
        <3> QED
            BY <3>1, <3>2
    <2> QED
        BY <2>1, <2>2, <2>3
<1> HIDE DEF rest
<1>6. /\ Append(rest, z) \in Seq(Nat) /\ Len(Append(rest, z)) = n
      /\ Append(rest, z)[n] = z
      /\ \A j \in 1 .. n - 1 : Append(rest, z)[j] = rest[j]
    <2>1. /\ Append(rest, z) \in Seq(Nat) /\ Len(Append(rest, z)) = Len(rest) + 1
          /\ Append(rest, z)[Len(rest) + 1] = z
          /\ \A j \in 1 .. Len(rest) : Append(rest, z)[j] = rest[j]
        BY <1>5, AppendProperties
    <2>2. Len(rest) + 1 = n
        BY <1>1, <1>5
    <2> QED
        BY <1>5, <2>1, <2>2
<1>7. Touched(s, z) = Append(rest, z)
    BY <1>2 DEF rest
<1> QED
    BY <1>1, <1>5, <1>6, <1>7 DEF Moves

\* The order keeps each slot once.
LEMMA TouchedPermutes ==
    ASSUME NEW n \in Nat, NEW s, Permutes(s, n), NEW z \in 1 .. n
    PROVE  Permutes(Touched(s, z), n)
<1>1. s \in Seq(Nat) /\ Len(s) = n /\ z \in Nat /\ \E i \in 1 .. n : s[i] = z
    <2>1. s \in Seq(Nat) /\ Len(s) = n
        BY PermutesFacts
    <2>2. \E i \in 1 .. n : s[i] = z
        BY DEF Permutes
    <2> QED
        BY <2>1, <2>2
<1>2. \E p \in 1 .. n : s[p] = z /\ Moves(s, Touched(s, z), p, n)
    BY <1>1, TouchedFacts
<1> DEFINE t == Touched(s, z)
<1> HIDE DEF t
<1>9. PICK p \in 1 .. n :
         /\ s[p] = z /\ t \in Seq(Nat) /\ Len(t) = n /\ t[n] = z
         /\ \A j \in 1 .. n - 1 : t[j] = IF j < p THEN s[j] ELSE s[j + 1]
    BY <1>2 DEF t, Moves
<1> DEFINE From(j) == IF j = n THEN p ELSE IF j < p THEN j ELSE j + 1
<1>3. \A j \in 1 .. n : From(j) \in 1 .. n /\ t[j] = s[From(j)]
    BY <1>9
<1>4. \A j, k \in 1 .. n : From(j) = From(k) => j = k
    OBVIOUS
<1>5. ASSUME NEW i \in 1 .. n PROVE \E j \in 1 .. n : From(j) = i
    <2>1. CASE i = p
        <3>1. n \in 1 .. n /\ From(n) = i
            BY <2>1
        <3> QED
            BY <3>1
    <2>2. CASE i < p
        <3>1. From(i) = i
            BY <2>2
        <3> QED
            BY <3>1
    <2>3. CASE i > p
        <3>1. i - 1 \in 1 .. n /\ From(i - 1) = i
            BY <2>3
        <3> QED
            BY <3>1
    <2> QED
        BY <2>1, <2>2, <2>3
<1> HIDE DEF From
<1>6. t \in [1 .. n -> 1 .. n]
    <2>1. DOMAIN t = 1 .. n /\ t = [j \in 1 .. n |-> t[j]]
        BY <1>9
    <2>2. \A j \in 1 .. n : t[j] \in 1 .. n
        BY <1>3, PermutesFacts
    <2> QED
        BY <2>1, <2>2
<1>7. \A i, j \in 1 .. n : t[i] = t[j] => i = j
    BY <1>3, <1>4 DEF Permutes
<1>8. ASSUME NEW y \in 1 .. n PROVE \E j \in 1 .. n : t[j] = y
    <2>1. PICK i \in 1 .. n : s[i] = y
        BY DEF Permutes
    <2>2. PICK j \in 1 .. n : From(j) = i
        BY <1>5
    <2> QED
        BY <1>3, <2>1, <2>2
<1> QED
    BY <1>6, <1>7, <1>8 DEF Permutes, t

\* A slot that is new to the order is the last of it.
LEMMA TouchedGrows ==
    ASSUME NEW n \in Nat, NEW s, Permutes(s, n)
    PROVE  Permutes(Touched(s, n + 1), n + 1)
<1> DEFINE t == Touched(s, n + 1)
<1>1. s \in Seq(Nat) /\ Len(s) = n /\ DOMAIN s = 1 .. n /\ \A i \in 1 .. n : s[i] \in 1 .. n
    BY PermutesFacts
<1>2. t = Append(s, n + 1)
    <2>1. \A i \in DOMAIN s : s[i] # n + 1
        BY <1>1
    <2> QED
        BY <2>1 DEF Touched
<1>3. /\ t \in Seq(Nat) /\ Len(t) = n + 1 /\ t[n + 1] = n + 1
      /\ \A i \in 1 .. n : t[i] = s[i]
    <2>1. n + 1 \in Nat
        OBVIOUS
    <2> HIDE DEF t
    <2>2. t \in Seq(Nat) /\ Len(t) = Len(s) + 1 /\ t[Len(s) + 1] = n + 1
        BY <1>1, <1>2, <2>1, AppendProperties
    <2>3. \A i \in 1 .. Len(s) : t[i] = s[i]
        BY <1>1, <1>2, <2>1, AppendProperties
    <2> QED
        BY <1>1, <2>2, <2>3
<1> HIDE DEF t
<1>4. \A i \in 1 .. n + 1 : t[i] \in 1 .. n + 1 /\ (i # n + 1 => i \in 1 .. n)
    BY <1>1, <1>3
<1>5. t \in [1 .. n + 1 -> 1 .. n + 1]
    <2>1. t = [i \in 1 .. n + 1 |-> t[i]]
        BY <1>3
    <2> QED
        BY <1>4, <2>1
<1>6. \A i, j \in 1 .. n + 1 : t[i] = t[j] => i = j
    <2>1. \A i, j \in 1 .. n : s[i] = s[j] => i = j
        BY DEF Permutes
    <2>2. \A i \in 1 .. n : t[i] # n + 1
        BY <1>1, <1>3
    <2> QED
        BY <1>3, <1>4, <2>1, <2>2
<1>7. ASSUME NEW z \in 1 .. n + 1 PROVE \E i \in 1 .. n + 1 : t[i] = z
    <2>1. CASE z = n + 1
        BY <1>3, <2>1
    <2>2. CASE z \in 1 .. n
        <3>1. PICK i \in 1 .. n : s[i] = z
            BY <2>2 DEF Permutes
        <3> QED
            BY <1>3, <3>1
    <2> QED
        BY <2>1, <2>2
<1> QED
    BY <1>5, <1>6, <1>7 DEF Permutes, t

\* What is at a place of s is at most one place nearer the front of t.
Falls(s, t, n) == \A i \in 1 .. n : \E k \in 1 .. n : t[k] = s[i] /\ k >= i - 1

\* No slot loses more than one place in the order when another is used.
LEMMA TouchedKeeps ==
    ASSUME NEW n \in Nat, NEW s, Permutes(s, n), NEW z \in 1 .. n
    PROVE  Touched(s, z)[n] = z /\ Falls(s, Touched(s, z), n)
<1>1. s \in Seq(Nat) /\ Len(s) = n /\ z \in Nat /\ \E i \in 1 .. n : s[i] = z
    <2>1. s \in Seq(Nat) /\ Len(s) = n
        BY PermutesFacts
    <2>2. \E i \in 1 .. n : s[i] = z
        BY DEF Permutes
    <2> QED
        BY <2>1, <2>2
<1>2. \E p \in 1 .. n : s[p] = z /\ Moves(s, Touched(s, z), p, n)
    BY <1>1, TouchedFacts
<1> DEFINE t == Touched(s, z)
<1> HIDE DEF t
<1>3. PICK p \in 1 .. n :
         /\ s[p] = z /\ t[n] = z
         /\ \A j \in 1 .. n - 1 : t[j] = IF j < p THEN s[j] ELSE s[j + 1]
    BY <1>2 DEF t, Moves
<1>4. ASSUME NEW i \in 1 .. n
      PROVE  \E k \in 1 .. n : t[k] = s[i] /\ k >= i - 1
    <2>1. CASE i = p
        <3>1. n \in 1 .. n /\ t[n] = s[i] /\ n >= i - 1
            BY <1>3, <2>1
        <3> QED
            BY <3>1
    <2>2. CASE i < p
        <3>1. i \in 1 .. n - 1 /\ t[i] = s[i] /\ i >= i - 1
            BY <1>3, <2>2
        <3> QED
            BY <3>1
    <2>3. CASE i > p
        <3>1. i - 1 \in 1 .. n - 1 /\ ~(i - 1 < p) /\ i - 1 + 1 = i
            BY <2>3
        <3>2. t[i - 1] = s[i]
            BY <1>3, <3>1
        <3>3. i - 1 \in 1 .. n /\ i - 1 >= i - 1
            BY <3>1
        <3> QED
            BY <3>2, <3>3
    <2> QED
        BY <2>1, <2>2, <2>3
<1> QED
    BY <1>3, <1>4 DEF t, Falls

\* g holds the order after each of the first n look-ups.
Orders(g, order, use, n) ==
    g = [j \in 0 .. n |-> IF j = 0 THEN order
                          ELSE IF use[j].in = "cache" THEN Touched(g[j - 1], use[j].z)
                               ELSE g[j - 1]]

\* A set of naturals that is not empty has a least element.
LEMMA Least ==
    ASSUME NEW T \in SUBSET Nat, T # {}
    PROVE  \E x \in T : \A y \in T : x <= y
<1> DEFINE R == {pair \in Nat \X Nat : pair[1] < pair[2]}
<1>1. IsWellFoundedOn(R, Nat)
    BY NatLessThanWellFounded DEF OpToRel
<1>2. \A x, y \in Nat : y < x => <<y, x>> \in R
    OBVIOUS
<1> HIDE DEF R
<1>3. PICK x \in T : \A y \in T : ~ (<<y, x>> \in R)
    <2>1. \E x \in T : \A y \in T : ~ (<<y, x>> \in R)
        BY <1>1, WFMin
    <2> QED
        BY <2>1
<1>4. \A y \in T : ~ (y < x) /\ x \in Nat /\ y \in Nat
    BY <1>2, <1>3
<1>5. \A y \in T : x <= y
    BY <1>4
<1> QED
    BY <1>5

\* There are such orders, of any number of look-ups: no least number lacks them.
LEMMA OrdersExist ==
    ASSUME NEW order, NEW use, NEW n \in Nat
    PROVE  \E g : Orders(g, order, use, n)
<1> DEFINE Lacking == {m \in Nat : ~ \E g : Orders(g, order, use, m)}
<1>1. ASSUME Lacking # {} PROVE FALSE
    <2>1. \E m \in Lacking : \A y \in Lacking : m <= y
        <3>1. Lacking \in SUBSET Nat
            OBVIOUS
        <3> HIDE DEF Lacking
        <3> QED
            BY <1>1, <3>1, Least
    <2>2. PICK m \in Lacking : \A y \in Lacking : m <= y
        BY <2>1
    <2>3. m \in Nat /\ ~ \E g : Orders(g, order, use, m)
        OBVIOUS
    <2>4. CASE m = 0
        <3>1. Orders([j \in 0 .. 0 |-> order], order, use, 0)
            BY DEF Orders
        <3> QED
            BY <2>3, <2>4, <3>1
    <2>5. CASE m # 0
        <3>1. m - 1 \in Nat /\ ~ (m <= m - 1)
            BY <2>3, <2>5
        <3>2. PICK h : Orders(h, order, use, m - 1)
            BY <2>2, <3>1
        <3> DEFINE last == IF use[m].in = "cache" THEN Touched(h[m - 1], use[m].z) ELSE h[m - 1]
                   g == [j \in 0 .. m |-> IF j = m THEN last ELSE h[j]]
        <3>3. ASSUME NEW j \in 0 .. m
              PROVE  g[j] = IF j = 0 THEN order
                            ELSE IF use[j].in = "cache" THEN Touched(g[j - 1], use[j].z)
                                 ELSE g[j - 1]
            <4>1. CASE j = m
                <5>1. g[j] = last /\ g[j - 1] = h[m - 1]
                    BY <2>5, <3>1, <4>1
                <5> QED
                    BY <2>5, <4>1, <5>1
            <4>2. CASE j # m
                <5>1. j \in 0 .. m - 1 /\ g[j] = h[j]
                    BY <2>3, <4>2
                <5>2. j # 0 => g[j - 1] = h[j - 1]
                    BY <2>3, <4>2
                <5>3. h[j] = IF j = 0 THEN order
                             ELSE IF use[j].in = "cache" THEN Touched(h[j - 1], use[j].z)
                                  ELSE h[j - 1]
                    BY <3>2, <5>1 DEF Orders
                <5> HIDE DEF g
                <5> QED
                    BY <5>1, <5>2, <5>3
            <4> QED
                BY <4>1, <4>2
        <3>4. g = [j \in 0 .. m |-> g[j]]
            OBVIOUS
        <3>5. Orders(g, order, use, m)
            <4> HIDE DEF g
            <4> QED
                BY <3>3, <3>4 DEF Orders
        <3> HIDE DEF g
        <3> QED
            BY <2>3, <3>5
    <2> QED
        BY <2>4, <2>5
<1>2. n \notin Lacking
    BY <1>1
<1> QED
    BY <1>2

\* Stamped is the last of them.
LEMMA StampedIsLast ==
    ASSUME NEW order, NEW use \in Seq(Uses)
    PROVE  \E g : Orders(g, order, use, Len(use)) /\ Stamped(order, use) = g[Len(use)]
<1> DEFINE after == CHOOSE g : Orders(g, order, use, Len(use))
<1>1. Orders(after, order, use, Len(use))
    <2>1. Len(use) \in Nat
        OBVIOUS
    <2>2. \E g : Orders(g, order, use, Len(use))
        BY <2>1, OrdersExist
    <2> QED
        BY <2>2
<1>2. Stamped(order, use) = after[Len(use)]
    BY DEF Stamped, Orders
<1> QED
    BY <1>1, <1>2

\* One more look-up that hit makes one hit more, one that did not leaves them.
LEMMA HitsGrow ==
    ASSUME NEW use, NEW j \in Nat \ {0}
    PROVE  /\ Cardinality(Hits(use, j - 1)) \in Nat
           /\ use[j].in = "cache" => /\ Hits(use, j) = Hits(use, j - 1) \cup {j}
                                     /\ Cardinality(Hits(use, j)) = Cardinality(Hits(use, j - 1)) + 1
           /\ use[j].in # "cache" => Hits(use, j) = Hits(use, j - 1)
<1>1. IsFiniteSet(Hits(use, j - 1)) /\ Cardinality(Hits(use, j - 1)) \in Nat
    <2>1. Hits(use, j - 1) \subseteq 1 .. j - 1
        BY DEF Hits
    <2>2. IsFiniteSet(1 .. j - 1)
        BY PlacesFinite, j - 1 \in Nat
    <2> QED
        BY <2>1, <2>2, FS_Subset, FS_CardinalityType
<1>2. \A i : i \in 1 .. j <=> i \in 1 .. j - 1 \/ i = j
    OBVIOUS
<1>3. j \notin Hits(use, j - 1)
    BY DEF Hits
<1>4. CASE use[j].in = "cache"
    <2>1. Hits(use, j) = Hits(use, j - 1) \cup {j}
        BY <1>2, <1>4 DEF Hits
    <2>2. Cardinality(Hits(use, j - 1) \cup {j}) = Cardinality(Hits(use, j - 1)) + 1
        BY <1>1, <1>3, FS_AddElement
    <2> QED
        BY <1>1, <1>4, <2>1, <2>2
<1>5. CASE use[j].in # "cache"
    <2>1. Hits(use, j) = Hits(use, j - 1)
        BY <1>2, <1>5 DEF Hits
    <2> QED
        BY <1>1, <1>5, <2>1
<1> QED
    BY <1>4, <1>5

\* After the look-ups the order still has every slot once, those that were hit last.
LEMMA StampedFacts ==
    ASSUME NEW n \in Nat, NEW order, Permutes(order, n), NEW use \in Seq(Uses),
           \A j \in 1 .. Len(use) : use[j].in = "cache" => use[j].z \in 1 .. n
    PROVE  /\ Permutes(Stamped(order, use), n)
           /\ Recent(Stamped(order, use), use, Len(use))
<1> DEFINE N == Len(use)
<1>1. N \in Nat
    OBVIOUS
<1>2. PICK g : Orders(g, order, use, N) /\ Stamped(order, use) = g[N]
    BY StampedIsLast
<1>3. \A j \in 0 .. N : g[j] = IF j = 0 THEN order
                               ELSE IF use[j].in = "cache" THEN Touched(g[j - 1], use[j].z)
                                    ELSE g[j - 1]
    BY <1>2 DEF Orders
<1> DEFINE Good(j) == Permutes(g[j], n) /\ Recent(g[j], use, j)
           Bad == {j \in 0 .. N : ~ Good(j)}
<1>4. Good(0)
    <2>1. g[0] = order
        BY <1>1, <1>3
    <2>2. Hits(use, 0) = {}
        BY DEF Hits
    <2> QED
        BY <2>1, <2>2 DEF Recent
<1>5. ASSUME NEW j \in 1 .. N, Good(j - 1)
      PROVE  Good(j)
    <2>1. j \in 0 .. N /\ j # 0 /\ j \in Nat \ {0} /\ j - 1 \in Nat
        BY <1>1
    <2> DEFINE s == g[j - 1]
               t == g[j]
               c == Cardinality(Hits(use, j - 1))
    <2>2. t = IF use[j].in = "cache" THEN Touched(s, use[j].z) ELSE s
        BY <1>3, <2>1
    <2>3. Permutes(s, n) /\ Recent(s, use, j - 1) /\ Len(s) = n
        BY <1>5, PermutesFacts
    <2>4. /\ c \in Nat
          /\ use[j].in = "cache" => /\ Hits(use, j) = Hits(use, j - 1) \cup {j}
                                    /\ Cardinality(Hits(use, j)) = c + 1
          /\ use[j].in # "cache" => Hits(use, j) = Hits(use, j - 1)
        BY <2>1, HitsGrow
    <2> HIDE DEF s, t, c, Good
    <2>5. CASE use[j].in # "cache"
        <3>1. t = s /\ Hits(use, j) = Hits(use, j - 1)
            BY <2>2, <2>4, <2>5
        <3> QED
            BY <2>3, <3>1 DEF Recent, Good, t
    <2>6. CASE use[j].in = "cache"
        <3> DEFINE z == use[j].z
        <3>1. z \in 1 .. n /\ t = Touched(s, z)
            BY <2>2, <2>6
        <3> HIDE DEF z
        <3>2. Permutes(t, n)
            BY <2>3, <3>1, TouchedPermutes
        <3>3. Len(t) = n
            BY <3>2, PermutesFacts
        <3>4. t[n] = z /\ Falls(s, t, n)
            BY <2>3, <3>1, TouchedKeeps
        <3>5. ASSUME NEW h \in Hits(use, j)
              PROVE  \E i \in 1 .. n : t[i] = use[h].z /\ i > n - (c + 1)
            <4>1. CASE h = j
                <5>1. n \in 1 .. n /\ t[n] = use[h].z /\ n > n - (c + 1)
                    BY <2>4, <3>1, <3>4, <4>1 DEF z
                <5> QED
                    BY <5>1
            <4>2. CASE h \in Hits(use, j - 1)
                <5>1. PICK i \in 1 .. n : s[i] = use[h].z /\ i > n - c
                    BY <2>3, <4>2 DEF Recent, c
                <5>2. PICK k \in 1 .. n : t[k] = s[i] /\ k >= i - 1
                    BY <3>4 DEF Falls
                <5>3. k > n - (c + 1)
                    BY <2>4, <5>1, <5>2
                <5> QED
                    BY <5>1, <5>2, <5>3
            <4> QED
                BY <2>4, <2>6, <4>1, <4>2
        <3>6. Recent(t, use, j)
            BY <2>4, <2>6, <3>3, <3>5 DEF Recent
        <3> QED
            BY <3>2, <3>6 DEF Good, t
    <2> QED
        BY <2>5, <2>6
<1> HIDE DEF Good
<1>6. ASSUME Bad # {} PROVE FALSE
    <2>1. \E m \in Bad : \A y \in Bad : m <= y
        <3>1. Bad \in SUBSET Nat
            BY <1>1
        <3> HIDE DEF Bad
        <3> QED
            BY <1>6, <3>1, Least
    <2>2. PICK m \in Bad : \A y \in Bad : m <= y
        BY <2>1
    <2>3. m \in 0 .. N /\ ~ Good(m) /\ m # 0
        BY <1>4
    <2>4. m \in 1 .. N /\ m - 1 \in 0 .. N /\ ~ (m <= m - 1)
        BY <1>1, <2>3
    <2>5. Good(m - 1)
        BY <2>2, <2>4
    <2> QED
        BY <1>5, <2>3, <2>4, <2>5
<1>7. Good(N)
    BY <1>1, <1>6
<1> QED
    BY <1>2, <1>7 DEF Good

\* A promotion takes the d slots at the front of the order, and k - d that were not in
\* use, and has them all at the end.
LEMMA Turned ==
    ASSUME NEW n \in Nat, NEW k \in Nat, NEW d \in Nat, d <= n, d <= k,
           NEW s, Permutes(s, n), NEW t \in Seq(Nat), Len(t) = n + k - d,
           \A i \in 1 .. n - d : t[i] = s[d + i],
           \A a \in 1 .. k : t[n - d + a] = IF a <= k - d THEN n + a ELSE s[a - (k - d)]
    PROVE  Permutes(t, n + k - d)
<1> DEFINE m == n + k - d
           Old(q) == IF q <= n THEN s[q] ELSE q
           From(i) == IF i <= m - d THEN i + d ELSE i - (m - d)
<1>1. m \in Nat /\ m >= n /\ d <= m /\ Len(t) = m /\ DOMAIN t = 1 .. m
    OBVIOUS
<1>2. \A q \in 1 .. n : s[q] \in 1 .. n
    BY DEF Permutes
<1>3. \A q, r \in 1 .. n : s[q] = s[r] => q = r
    BY DEF Permutes
<1>4. ASSUME NEW i \in 1 .. m PROVE t[i] = Old(From(i)) /\ From(i) \in 1 .. m
    <2>1. From(i) \in 1 .. m
        BY <1>1
    <2>2. CASE i <= n - d
        <3>1. t[i] = s[d + i] /\ From(i) = d + i /\ d + i <= n
            BY <1>1, <2>2
        <3> QED
            BY <2>1, <3>1
    <2>3. CASE ~ (i <= n - d)
        <3> DEFINE a == i - (n - d)
        <3>1. a \in 1 .. k /\ n - d + a = i
            BY <1>1, <2>3
        <3>2. t[i] = IF a <= k - d THEN n + a ELSE s[a - (k - d)]
            BY <3>1
        <3>3. CASE a <= k - d
            <4>1. i <= m - d /\ From(i) = i + d /\ n + a = i + d /\ ~ (i + d <= n)
                BY <1>1, <2>3, <3>3
            <4> QED
                BY <2>1, <3>2, <3>3, <4>1
        <3>4. CASE ~ (a <= k - d)
            <4>1. /\ ~ (i <= m - d) /\ From(i) = i - (m - d) /\ a - (k - d) = i - (m - d)
                  /\ i - (m - d) <= n
                BY <1>1, <2>3, <3>1, <3>4
            <4> QED
                BY <2>1, <3>2, <3>4, <4>1
        <3> QED
            BY <3>3, <3>4
    <2> QED
        BY <2>1, <2>2, <2>3
<1>5. \A i, j \in 1 .. m : From(i) = From(j) => i = j
    BY <1>1
<1>6. \A q \in 1 .. m : Old(q) \in 1 .. m /\ \A r \in 1 .. m : Old(q) = Old(r) => q = r
    BY <1>1, <1>2, <1>3
<1>7. ASSUME NEW q \in 1 .. m PROVE \E i \in 1 .. m : From(i) = q
    <2>1. CASE q > d
        <3>1. q - d \in 1 .. m /\ From(q - d) = q
            BY <1>1, <2>1
        <3> QED
            BY <3>1
    <2>2. CASE q <= d
        <3>1. q + (m - d) \in 1 .. m /\ From(q + (m - d)) = q
            BY <1>1, <2>2
        <3> QED
            BY <3>1
    <2> QED
        BY <1>1, <2>1, <2>2
<1>8. ASSUME NEW z \in 1 .. m PROVE \E q \in 1 .. m : Old(q) = z
    <2>1. CASE z \in 1 .. n
        <3>1. PICK q \in 1 .. n : s[q] = z
            BY <2>1 DEF Permutes
        <3> QED
            BY <1>1, <3>1
    <2>2. CASE z \notin 1 .. n
        <3>1. Old(z) = z
            BY <2>2
        <3> QED
            BY <3>1
    <2> QED
        BY <2>1, <2>2
<1> HIDE DEF m, Old, From
<1>9. t \in [1 .. m -> 1 .. m]
    <2>1. t = [i \in 1 .. m |-> t[i]]
        BY <1>1
    <2> QED
        BY <1>4, <1>6, <2>1
<1>10. ASSUME NEW i \in 1 .. m, NEW j \in 1 .. m, t[i] = t[j]
       PROVE  i = j
    <2>1. Old(From(i)) = Old(From(j)) /\ From(i) \in 1 .. m /\ From(j) \in 1 .. m
        BY <1>4, <1>10
    <2>2. From(i) = From(j)
        BY <1>6, <2>1
    <2> QED
        BY <1>5, <2>2
<1>11. ASSUME NEW z \in 1 .. m PROVE \E i \in 1 .. m : t[i] = z
    <2>1. PICK q \in 1 .. m : Old(q) = z
        BY <1>8
    <2>2. PICK i \in 1 .. m : From(i) = q
        BY <1>7
    <2> QED
        BY <1>4, <2>1, <2>2
<1>12. Permutes(t, m)
    BY <1>9, <1>10, <1>11 DEF Permutes
<1> QED
    BY <1>12 DEF m

-----------------------------------------------------------------------------

\* The order has each slot in use once.
Ordered ==
    /\ lru = [l \in Sparse |-> lru[l]]
    /\ \A l \in Sparse : Permutes(lru[l], ecn[l])

\* From the look-ups to the promotion, those that hit are the newest.
JustUsed ==
    main.at \in {"load", "matmul", "promote"} =>
        Recent(lru[main.layer], main.use, Len(main.use))

\* What the order and the bounds say of the rest.
Small ==
    /\ cur \in -1 .. NLayers
    /\ Len(pilotQ) <= Ring
    /\ Len(main.need) <= MaxNeed
    /\ pilot.at # "none" => pilot.z \in 1 .. Cap
    /\ \A j \in 1 .. Len(main.use) : main.use[j].in = "ws" => main.use[j].z = 0

OInv == Ordered /\ JustUsed /\ Small

\* At first no slot is in use.
LEMMA OrderInitially == Init => OInv
<1> SUFFICES ASSUME Init PROVE OInv
    OBVIOUS
<1> USE ExpertCacheAssumption DEF Init
<1>1. Permutes(<<>>, 0)
    BY DEF Permutes
<1>2. Ordered
    BY <1>1 DEF Ordered
<1>3. JustUsed
    BY DEF JustUsed, Away
<1>4. Small
    BY DEF Small, Away, Resting
<1> QED
    BY <1>2, <1>3, <1>4 DEF OInv

\* The steps that leave the order alone.
Quiet == lru' = lru /\ ecn' = ecn

LEMMA QuietOrder ==
    ASSUME OInv, Quiet,
           \/ main'.at \notin {"load", "matmul", "promote"}
           \/ /\ main.at \in {"load", "matmul", "promote"}
              /\ main'.layer = main.layer /\ main'.use = main.use
    PROVE  Ordered' /\ JustUsed'
    BY DEF OInv, Quiet, Ordered, JustUsed

\* A list of so many experts.
LEMMA RouteBound ==
    ASSUME NEW s \in Routes
    PROVE  Len(s) <= MaxNeed
<1>1. PICK n \in 0 .. MaxNeed : s \in {r \in [1 .. n -> Experts] : \A i, j \in 1 .. n : r[i] = r[j] => i = j}
    BY DEF Routes
<1>2. n \in Nat /\ s \in [1 .. n -> Experts]
    BY <1>1, ExpertCacheAssumption
<1> QED
    BY <1>1, <1>2, ExpertCacheAssumption

\* Where a re-pin takes the main thread.
LEMMA RepinAt ==
    ASSUME RepinStarts \/ RepinEnds
    PROVE  /\ main'.at \in {"repin", "idle"} /\ main'.use = <<>> /\ Len(main'.need) <= 1
<1>1. CASE RepinStarts
    <2>1. PICK l \in Sparse, e \in Experts : main' = [Away EXCEPT !.at = "repin", !.layer = l, !.need = <<e>>]
        BY <1>1 DEF RepinStarts
    <2>2. main' = [at |-> "repin", layer |-> l, need |-> <<e>>, use |-> <<>>]
        BY <2>1 DEF Away
    <2>3. main'.at = "repin" /\ main'.use = <<>> /\ main'.need = <<e>>
        BY <2>2
    <2>4. Len(<<e>>) = 1
        OBVIOUS
    <2> QED
        BY <2>3, <2>4
<1>2. CASE RepinEnds
    BY <1>2 DEF RepinEnds, Away
<1> QED
    BY <1>1, <1>2

\* The main thread, outside the cache.
LEMMA OutsideOrder ==
    ASSUME IInv, OInv, Forward \/ Mtp \/ DenseLayer \/ (\E e \in Experts : Predict(e))
           \/ RepinStarts \/ RepinEnds
    PROVE  OInv'
<1> USE ExpertCacheAssumption
<1>1. Quiet /\ pilot' = pilot
    BY DEF Forward, Mtp, DenseLayer, Predict, RepinStarts, RepinEnds, Quiet, cache
<1>2. main'.at \notin {"load", "matmul", "promote"} /\ main'.use = <<>>
    <2>1. CASE Forward
        BY <2>1 DEF Forward, Away
    <2>2. CASE DenseLayer
        BY <2>2, OnwardFacts DEF DenseLayer, IInv
    <2>3. CASE Mtp \/ (\E e \in Experts : Predict(e))
        BY <2>3 DEF Mtp, Predict, IInv, InHand
    <2>4. CASE RepinStarts \/ RepinEnds
        BY <2>4, RepinAt
    <2> QED
        BY <2>1, <2>2, <2>3, <2>4
<1>3. Len(main'.need) <= MaxNeed
    <2>1. CASE Forward
        BY <2>1 DEF Forward, Away
    <2>2. CASE DenseLayer
        BY <2>2, OnwardFacts DEF DenseLayer, IInv
    <2>3. CASE Mtp \/ (\E e \in Experts : Predict(e))
        BY <2>3 DEF Mtp, Predict, OInv, Small
    <2>4. CASE RepinStarts \/ RepinEnds
        <3>1. Len(main'.need) <= 1
            BY <2>4, RepinAt
        <3> QED
            BY <3>1
    <2> QED
        BY <2>1, <2>2, <2>3, <2>4
<1>4. cur' \in -1 .. NLayers
    <2>1. CASE Forward
        <3>1. cur' = -1
            BY <2>1 DEF Forward
        <3> QED
            BY <3>1
    <2>2. CASE Mtp
        <3>1. cur' = NLayers
            BY <2>2 DEF Mtp
        <3> QED
            BY <3>1
    <2>3. CASE DenseLayer \/ (\E e \in Experts : Predict(e)) \/ RepinStarts \/ RepinEnds
        <3>1. cur' = cur
            BY <2>3 DEF DenseLayer, Predict, RepinStarts, RepinEnds
        <3> QED
            BY <3>1 DEF OInv, Small
    <2> QED
        BY <2>1, <2>2, <2>3
<1>5. Len(pilotQ') <= Ring
    <2>1. CASE \E e \in Experts : Predict(e)
        <3>1. pilotQ \in Seq([l : Sparse, e : Experts])
            BY DEF IInv, Types
        <3>2. Len(pilotQ') = Len(pilotQ) + 1 /\ Len(pilotQ) < Ring /\ Len(pilotQ) \in Nat
            BY <2>1, <3>1 DEF Predict
        <3> QED
            BY <3>2
    <2>2. CASE pilotQ' = pilotQ
        BY <2>2 DEF OInv, Small
    <2> QED
        BY <2>1, <2>2 DEF Forward, Mtp, DenseLayer, RepinStarts, RepinEnds
<1>6. Small'
    BY <1>1, <1>2, <1>3, <1>4, <1>5 DEF OInv, Small
<1> QED
    BY <1>1, <1>2, <1>6, QuietOrder DEF OInv

LEMMA EnterOrder ==
    ASSUME IInv, OInv, EnterMoe
    PROVE  OInv'
<1> USE ExpertCacheAssumption
<1>1. /\ Quiet /\ pilot' = pilot /\ pilotQ' = pilotQ /\ cur' = main.layer
      /\ main.layer \in Sparse /\ main.at \in {"attn", "wait"} /\ main \in Mains
    BY SharedTypes DEF EnterMoe, Quiet, cache, IInv
<1>2. main.use = <<>>
    BY <1>1 DEF IInv, InHand
<1>3. main'.at \in {"wait", "resolve"} /\ main'.use = <<>> /\ Len(main'.need) <= MaxNeed
    <2>1. CASE main' = [main EXCEPT !.at = "wait"]
        BY <1>1, <1>2, <2>1 DEF Mains, OInv, Small
    <2>2. CASE \E s \in Routes \ {<<>>} : main' = [main EXCEPT !.at = "resolve", !.need = s]
        <3>1. PICK s \in Routes : main' = [main EXCEPT !.at = "resolve", !.need = s]
            BY <2>2
        <3> QED
            BY <1>1, <1>2, <3>1, RouteBound DEF Mains
    <2> QED
        BY <2>1, <2>2 DEF EnterMoe
<1>4. cur' \in -1 .. NLayers
    <2>1. main.layer \in 0 .. NLayers - 1
        BY <1>1
    <2> QED
        BY <1>1, <2>1
<1>5. Small'
    BY <1>1, <1>3, <1>4 DEF OInv, Small
<1> QED
    BY <1>1, <1>3, <1>5, QuietOrder DEF OInv

LEMMA ComputeOrder ==
    ASSUME IInv, OInv, LoadMisses \/ Matmul
    PROVE  OInv'
<1>1. main \in Mains
    BY SharedTypes DEF IInv
<1>2. /\ main.at \in {"load", "matmul"} /\ main'.at \in {"matmul", "promote"}
      /\ main'.layer = main.layer /\ main'.use = main.use /\ main'.need = main.need
      /\ Quiet /\ UNCHANGED <<cur, pilotQ, pilot>>
    BY <1>1 DEF LoadMisses, Matmul, Mains, Quiet, cache
<1>3. Small'
    BY <1>2 DEF OInv, Small
<1> QED
    BY <1>2, <1>3, QuietOrder DEF OInv

\* The look-ups use the slots in which they found their experts.
LEMMA ResolveOrder ==
    ASSUME IInv, Rewriting, OInv, Resolve
    PROVE  OInv'
<1> DEFINE l == main.layer
           nb == IF Len(main.need) < Block THEN Len(main.need) ELSE Block
           use == [j \in 1 .. nb |-> Place(l, main.need[j])]
<1>1. /\ main.at = "resolve" /\ main' = [main EXCEPT !.at = "load", !.use = use]
      /\ lru' = [lru EXCEPT ![l] = Stamped(@, use)]
      /\ ecn' = ecn /\ UNCHANGED <<cur, pilotQ, pilot>>
    BY DEF Resolve
<1>2. main \in Mains /\ l \in Sparse /\ main.need \in Seq(Experts)
    BY <1>1, SharedTypes DEF IInv, Ahead, InMoe, Mains
<1>3. nb \in Nat /\ nb <= Len(main.need)
    BY <1>2, ExpertCacheAssumption
<1>4. \A j \in 1 .. nb : main.need[j] \in Experts
    BY <1>2, <1>3
<1>5. ASSUME NEW j \in 1 .. nb
      PROVE  /\ use[j] \in Uses
             /\ use[j].in = "cache" => use[j].z \in 1 .. ecn[l]
             /\ use[j].in = "ws" => use[j].z = 0
    <2>1. main.need[j] \in Experts /\ use[j] = Place(l, main.need[j])
        BY <1>4
    <2>2. Place(l, main.need[j]).in = "ws" => Place(l, main.need[j]).z = 0
        BY DEF Place
    <2>3. main.at # "repin" /\ l \in Sparse
        BY <1>1, <1>2
    <2> HIDE DEF use, l
    <2> QED
        BY <2>1, <2>2, <2>3, PlaceFacts DEF IInv
<1>6. use \in Seq(Uses) /\ Len(use) = nb
    <2>1. \A j \in 1 .. nb : Place(l, main.need[j]) \in Uses
        BY <1>5
    <2> HIDE DEF l, nb
    <2> QED
        BY <1>3, <2>1
<1> HIDE DEF use, nb
<1>7. /\ main'.at = "load" /\ main'.layer = l /\ main'.need = main.need /\ main'.use = use
    BY <1>1, <1>2 DEF Mains
<1>8. /\ lru = [k \in Sparse |-> lru[k]] /\ \A k \in Sparse : Permutes(lru[k], ecn[k])
    BY DEF OInv, Ordered
<1>9. /\ lru' = [k \in Sparse |-> lru'[k]] /\ lru'[l] = Stamped(lru[l], use)
      /\ \A k \in Sparse : k # l => lru'[k] = lru[k]
    BY <1>1, <1>2, <1>8
<1>10. ecn[l] \in Nat
    <2>1. ecn[l] \in 0 .. Cap
        BY <1>2 DEF IInv, Types
    <2> QED
        BY <2>1, ExpertCacheAssumption
<1>11. Permutes(Stamped(lru[l], use), ecn[l]) /\ Recent(Stamped(lru[l], use), use, Len(use))
    <2>1. \A j \in 1 .. Len(use) : use[j].in = "cache" => use[j].z \in 1 .. ecn[l]
        BY <1>5, <1>6
    <2> QED
        BY <1>2, <1>6, <1>8, <1>10, <2>1, StampedFacts
<1>12. Ordered'
    BY <1>1, <1>8, <1>9, <1>11 DEF Ordered
<1>13. JustUsed'
    BY <1>7, <1>9, <1>11 DEF JustUsed
<1>14. Small'
    BY <1>1, <1>5, <1>6, <1>7 DEF OInv, Small
<1> QED
    BY <1>12, <1>13, <1>14 DEF OInv

\* A promotion's place in the order: what it takes from the front it puts at the end.
LEMMA PromoteTurns ==
    ASSUME IInv, OInv, Promote
    PROVE  LET l == main.layer
               n == ecn[l]
               d == IF n + Promoted > Cap THEN n + Promoted - Cap ELSE 0
           IN /\ l \in Sparse /\ n \in 0 .. Cap /\ Promoted \in 0 .. Cap
              /\ d \in 0 .. n /\ d <= Promoted /\ ecn'[l] = n + Promoted - d
              /\ \A a \in 1 .. Promoted :
                    Target(l, a) = IF a <= Promoted - d THEN n + a ELSE lru[l][a - (Promoted - d)]
              /\ Permutes(lru'[l], ecn'[l])
              /\ \A k \in Sparse : k # l => lru'[k] = lru[k] /\ ecn'[k] = ecn[k]
              /\ lru' = [k \in Sparse |-> lru'[k]]
<1> DEFINE l == main.layer
           n == ecn[l]
           k == Promoted
           full == n + k > Cap
           d == IF full THEN n + k - Cap ELSE 0
           s == lru[l]
           left == IF full THEN SubSeq(s, n + k - Cap + 1, n) ELSE s
           right == [a \in 1 .. k |-> Target(l, a)]
<1>1. /\ main.at = "promote"
      /\ lru' = [lru EXCEPT ![l] = left \o right]
      /\ ecn' = [ecn EXCEPT ![l] = IF full THEN Cap ELSE @ + k]
    BY DEF Promote
<1>2. l \in Sparse /\ ecn \in [Sparse -> 0 .. Cap] /\ Cap \in Nat
    BY <1>1, ExpertCacheAssumption DEF IInv, Ahead, InMoe, Types
<1>3. k \in 0 .. Cap
    BY NMissFacts DEF IInv
<1>4. n \in 0 .. Cap
    BY <1>2
<1>5. lru = [j \in Sparse |-> lru[j]] /\ Permutes(s, n)
    BY <1>2 DEF OInv, Ordered
<1>6. s \in Seq(Nat) /\ Len(s) = n /\ \A i \in 1 .. n : s[i] \in 1 .. n
    BY <1>2, <1>4, <1>5, PermutesFacts
<1>7. ASSUME NEW a \in 1 .. k
      PROVE  Target(l, a) = IF n + a <= Cap THEN n + a ELSE s[n + a - Cap]
    BY DEF Target
<1> HIDE DEF l, k, s
<1>8. /\ d \in 0 .. n /\ d <= k /\ ecn'[l] = n + k - d
    <2>1. d \in 0 .. n /\ d <= k
        BY <1>2, <1>3, <1>4
    <2>2. ecn'[l] = IF full THEN Cap ELSE n + k
        BY <1>1, <1>2
    <2> QED
        BY <1>2, <1>3, <1>4, <2>1, <2>2
<1>9. ASSUME NEW a \in 1 .. k
      PROVE  Target(l, a) = IF a <= k - d THEN n + a ELSE s[a - (k - d)]
    <2>1. CASE full
        <3>1. k - d = Cap - n /\ (n + a <= Cap <=> a <= k - d) /\ n + a - Cap = a - (k - d)
            BY <1>2, <1>3, <1>4, <2>1
        <3> QED
            BY <1>7, <3>1
    <2>2. CASE ~full
        <3>1. n + a <= Cap /\ a <= k - d
            BY <1>2, <1>3, <1>4, <2>2
        <3> QED
            BY <1>7, <3>1
    <2> QED
        BY <2>1, <2>2
<1>10. left \in Seq(Nat) /\ Len(left) = n - d /\ \A i \in 1 .. n - d : left[i] = s[d + i]
    <2>1. CASE full
        <3>1. d = n + k - Cap /\ d \in Nat /\ n \in Nat /\ d <= n
            BY <1>3, <1>4, <1>8, <2>1, <1>2
        <3>2. left = SubSeq(s, d + 1, n)
            BY <2>1, <3>1
        <3> HIDE DEF left, full, d, n
        <3>3. \A i \in d + 1 .. n : s[i] \in Nat
            BY <1>6, <3>1, ElementOfSeq
        <3>4. /\ SubSeq(s, d + 1, n) \in Seq(Nat)
              /\ Len(SubSeq(s, d + 1, n)) = (IF d + 1 <= n THEN n - (d + 1) + 1 ELSE 0)
              /\ \A i \in 1 .. n - (d + 1) + 1 : SubSeq(s, d + 1, n)[i] = s[d + 1 + i - 1]
            BY <3>1, <3>3, SubSeqProperties, d + 1 \in Int, n \in Int
        <3>5. n - (d + 1) + 1 = n - d /\ \A i \in Int : d + 1 + i - 1 = d + i
            BY <3>1
        <3>6. (IF d + 1 <= n THEN n - (d + 1) + 1 ELSE 0) = n - d
            BY <3>1
        <3>7. ASSUME NEW i \in 1 .. n - d PROVE left[i] = s[d + i]
            <4>1. i \in Int /\ i \in 1 .. n - (d + 1) + 1
                BY <3>5
            <4>2. left[i] = s[d + 1 + i - 1] /\ d + 1 + i - 1 = d + i
                BY <3>2, <3>4, <3>5, <4>1
            <4> QED
                BY <4>2
        <3>8. left \in Seq(Nat) /\ Len(left) = n - d
            BY <3>2, <3>4, <3>6
        <3> QED
            BY <3>7, <3>8
    <2>2. CASE ~full
        <3>1. d = 0 /\ left = s /\ n - d = n
            BY <1>4, <2>2, <1>2
        <3> HIDE DEF left, full, d, n
        <3>2. \A i \in 1 .. n : d + i = i
            BY <3>1
        <3> QED
            BY <1>6, <3>1, <3>2
    <2> QED
        BY <2>1, <2>2
<1>11. right \in Seq(Nat) /\ Len(right) = k /\ \A a \in 1 .. k : right[a] = Target(l, a)
    <2>1. ASSUME NEW a \in 1 .. k PROVE Target(l, a) \in Nat
        <3>1. CASE a <= k - d
            BY <1>3, <1>4, <1>9, <3>1, <1>2
        <3>2. CASE ~(a <= k - d)
            <4>1. a - (k - d) \in 1 .. n
                BY <1>2, <1>3, <1>4, <1>8, <3>2
            <4>2. s[a - (k - d)] \in 1 .. n
                BY <1>6, <4>1
            <4> QED
                BY <1>4, <1>9, <3>2, <4>2
        <3> QED
            BY <3>1, <3>2
    <2>2. k \in Nat
        BY <1>2, <1>3
    <2> QED
        BY <2>1, <2>2
<1> DEFINE t == left \o right
<1> HIDE DEF left, right, full, d, n
<1>12. n \in Nat /\ d \in Nat /\ k \in Nat /\ d <= n
    BY <1>2, <1>3, <1>4, <1>8
<1>13. /\ t \in Seq(Nat) /\ Len(t) = n - d + k
       /\ \A i \in 1 .. n - d + k : t[i] = IF i <= n - d THEN left[i] ELSE right[i - (n - d)]
    <2>1. /\ t \in Seq(Nat) /\ Len(t) = Len(left) + Len(right)
          /\ \A i \in 1 .. Len(left) + Len(right) :
                t[i] = IF i <= Len(left) THEN left[i] ELSE right[i - Len(left)]
        BY <1>10, <1>11, ConcatProperties
    <2> HIDE DEF t
    <2> QED
        BY <1>10, <1>11, <2>1
<1> HIDE DEF t
<1>14. \A i \in 1 .. n - d : t[i] = s[d + i]
    <2>1. \A i \in 1 .. n - d : i \in 1 .. n - d + k /\ i <= n - d
        BY <1>12
    <2> QED
        BY <1>10, <1>13, <2>1
<1>15. \A a \in 1 .. k : t[n - d + a] = IF a <= k - d THEN n + a ELSE s[a - (k - d)]
    <2>1. ASSUME NEW a \in 1 .. k PROVE t[n - d + a] = right[a]
        <3> DEFINE i == n - d + a
        <3>1. i \in 1 .. n - d + k /\ ~(i <= n - d) /\ i - (n - d) = a
            BY <1>12
        <3> HIDE DEF i
        <3>2. t[i] = right[i - (n - d)]
            BY <1>13, <3>1
        <3> QED
            BY <3>1, <3>2 DEF i
    <2> QED
        BY <1>9, <1>11, <2>1
<1>16. Permutes(t, n + k - d)
    <2>1. Len(t) = n + k - d
        BY <1>12, <1>13
    <2> QED
        BY <1>5, <1>8, <1>12, <1>13, <1>14, <1>15, <2>1, Turned
<1>17. /\ lru'[l] = t /\ lru' = [j \in Sparse |-> lru'[j]]
       /\ \A j \in Sparse : j # l => lru'[j] = lru[j] /\ ecn'[j] = ecn[j]
    BY <1>1, <1>2, <1>5 DEF t
<1>18. /\ l \in Sparse /\ n \in 0 .. Cap /\ k \in 0 .. Cap
       /\ d \in 0 .. n /\ d <= k /\ ecn'[l] = n + k - d
       /\ \A a \in 1 .. k : Target(l, a) = IF a <= k - d THEN n + a ELSE s[a - (k - d)]
       /\ Permutes(lru'[l], ecn'[l])
    BY <1>2, <1>3, <1>4, <1>8, <1>9, <1>16, <1>17
<1> QED
    BY <1>17, <1>18 DEF l, n, k, d, s, full

LEMMA PromoteOrder ==
    ASSUME IInv, OInv, Promote
    PROVE  OInv'
<1> DEFINE l == main.layer
<1>1. /\ l \in Sparse /\ Permutes(lru'[l], ecn'[l])
      /\ \A k \in Sparse : k # l => lru'[k] = lru[k] /\ ecn'[k] = ecn[k]
      /\ lru' = [k \in Sparse |-> lru'[k]]
    BY PromoteTurns
<1>2. Ordered'
    BY <1>1 DEF OInv, Ordered
<1>3. UNCHANGED <<cur, pilotQ, pilot>> /\ main.at = "promote" /\ main \in Mains
    BY SharedTypes DEF Promote, IInv
<1>4. main'.at \in {"resolve", "attn", "idle"} /\ main'.use = <<>> /\ Len(main'.need) <= MaxNeed
    <2>1. CASE Len(main.need) > Len(main.use)
        <3>1. /\ main' = [main EXCEPT !.at = "resolve", !.use = <<>>,
                             !.need = SubSeq(@, Len(main.use) + 1, Len(@))]
              /\ main.need \in Seq(Experts) /\ Len(main.use) \in Nat
            BY <1>3, <2>1 DEF Promote, Mains
        <3>2. Len(SubSeq(main.need, Len(main.use) + 1, Len(main.need))) = Len(main.need) - Len(main.use)
            BY <2>1, <3>1, RestFacts
        <3>3. Len(main.need) - Len(main.use) <= MaxNeed
            <4>1. Len(main.need) \in Nat /\ Len(main.need) <= MaxNeed
                BY <3>1 DEF OInv, Small
            <4>2. Len(main.use) \in Nat /\ MaxNeed \in Nat
                BY <3>1, ExpertCacheAssumption
            <4> QED
                BY <4>1, <4>2
        <3> QED
            BY <1>3, <3>1, <3>2, <3>3 DEF Mains
    <2>2. CASE ~(Len(main.need) > Len(main.use))
        <3>1. main' = Onward
            BY <2>2 DEF Promote
        <3> QED
            BY <3>1, OnwardFacts, ExpertCacheAssumption DEF IInv
    <2> QED
        BY <2>1, <2>2
<1>5. JustUsed'
    BY <1>4 DEF JustUsed
<1>6. Small'
    BY <1>3, <1>4 DEF OInv, Small
<1> QED
    BY <1>2, <1>5, <1>6 DEF OInv

\* The pilot takes a free slot or the oldest; what it has loaded is the newest.
LEMMA PilotOrder ==
    ASSUME IInv, OInv, Pilot
    PROVE  OInv'
<1> USE ExpertCacheAssumption
<1>1. UNCHANGED <<main, cur>>
    BY DEF Pilot, PilotDrops, PilotTakes, PilotLoads, PilotPublishes, PilotFails
<1>2. Len(pilotQ') <= Ring
    <2>1. CASE pilotQ' = pilotQ
        BY <2>1 DEF OInv, Small
    <2>2. CASE pilotQ' = Tail(pilotQ) /\ pilotQ # <<>>
        <3>1. pilotQ \in Seq([l : Sparse, e : Experts])
            BY DEF IInv, Types
        <3>2. Len(pilotQ') = Len(pilotQ) - 1 /\ Len(pilotQ) \in Nat
            BY <2>2, <3>1
        <3> QED
            BY <3>2 DEF OInv, Small
    <2>3. pilot.at # "none" => pilotQ # <<>>
        BY JobFacts DEF IInv
    <2> QED
        BY <2>1, <2>2, <2>3 DEF Pilot, PilotDrops, PilotTakes, PilotLoads, PilotPublishes, PilotFails
<1>3. CASE PilotDrops \/ PilotFails \/ PilotLoads
    <2>1. Quiet
        BY <1>3 DEF PilotDrops, PilotFails, PilotLoads, Quiet, cache
    <2>2. pilot'.at # "none" => pilot'.z \in 1 .. Cap
        <3>1. CASE PilotDrops
            BY <3>1 DEF PilotDrops
        <3>2. CASE PilotFails
            BY <3>2 DEF PilotFails, Resting
        <3>3. CASE PilotLoads
            <4>1. pilot \in Jobs(pilot) /\ pilot.at # "none"
                BY <3>3, JobFacts DEF PilotLoads, IInv
            <4>2. pilot'.z = pilot.z
                BY <3>3, <4>1 DEF PilotLoads, Jobs
            <4> QED
                BY <4>1, <4>2 DEF OInv, Small
        <3> QED
            BY <1>3, <3>1, <3>2, <3>3
    <2>3. Small'
        BY <1>1, <1>2, <2>2 DEF OInv, Small
    <2> QED
        BY <1>1, <2>1, <2>3, QuietOrder DEF OInv
<1>4. CASE PilotTakes
    <2>1. Quiet
        BY <1>4 DEF PilotTakes, Quiet
    <2> DEFINE o == Head(pilotQ)
               z == IF Room(o.l) THEN ecn[o.l] + 1 ELSE lru[o.l][1]
    <2>2. pilot' = [at |-> "load", l |-> o.l, e |-> o.e, z |-> z, new |-> Room(o.l)]
        BY <1>4 DEF PilotTakes
    <2>3. o.l \in Sparse
        <3>1. o \in [l : Sparse, e : Experts]
            BY <1>4, SharedTypes, FrontFacts DEF PilotTakes, IInv
        <3> QED
            BY <3>1
    <2> HIDE DEF o
    <2>4. ecn[o.l] \in 0 .. Cap
        BY <2>3 DEF IInv, Types
    <2>5. z \in 1 .. Cap
        <3>1. CASE Room(o.l)
            BY <2>4, <3>1 DEF Room
        <3>2. CASE ~Room(o.l)
            <4>1. ecn[o.l] = Cap /\ 1 \in 1 .. Cap
                BY <2>4, <3>2 DEF Room
            <4>2. Permutes(lru[o.l], Cap)
                BY <2>3, <4>1 DEF OInv, Ordered
            <4>3. lru[o.l][1] \in 1 .. Cap
                <5>1. lru[o.l] \in [1 .. Cap -> 1 .. Cap]
                    BY <4>2 DEF Permutes
                <5> QED
                    BY <4>1, <5>1
            <4> QED
                BY <3>2, <4>3
        <3> QED
            BY <3>1, <3>2
    <2> HIDE DEF z
    <2>6. Small'
        BY <1>1, <1>2, <2>2, <2>5 DEF OInv, Small
    <2> QED
        BY <1>1, <2>1, <2>6, QuietOrder DEF OInv
<1>5. CASE PilotPublishes
    <2> DEFINE l == pilot.l
               z == pilot.z
    <2>1. /\ pilot.at = "publish" /\ pilot' = Resting
          /\ ecn' = [ecn EXCEPT ![l] = IF pilot.new THEN z ELSE @]
          /\ lru' = [lru EXCEPT ![l] = Touched(@, z)]
        BY <1>5 DEF PilotPublishes
    <2>2. l \in Sparse /\ ecn \in [Sparse -> 0 .. Cap] /\ ecn[l] \in 0 .. Cap
        BY <2>1, JobFacts DEF IInv, Types
    <2>3. lru = [k \in Sparse |-> lru[k]] /\ \A k \in Sparse : Permutes(lru[k], ecn[k])
        BY DEF OInv, Ordered
    <2>4. /\ pilot.new => z = ecn[l] + 1
          /\ ~pilot.new => ecn[l] = Cap
          /\ z \in 1 .. Cap /\ pilot.new \in BOOLEAN
        BY <2>1, JobFacts DEF IInv, InFlight, OInv, Small
    <2> HIDE DEF l, z
    <2>5. /\ lru' = [k \in Sparse |-> lru'[k]] /\ lru'[l] = Touched(lru[l], z)
          /\ ecn'[l] = (IF pilot.new THEN z ELSE ecn[l])
          /\ \A k \in Sparse : k # l => lru'[k] = lru[k] /\ ecn'[k] = ecn[k]
        BY <2>1, <2>2, <2>3
    <2>6. Permutes(lru'[l], ecn'[l])
        <3>1. ecn[l] \in Nat /\ Permutes(lru[l], ecn[l])
            BY <2>2, <2>3
        <3>2. CASE pilot.new
            <4>1. z = ecn[l] + 1 /\ ecn'[l] = ecn[l] + 1 /\ lru'[l] = Touched(lru[l], ecn[l] + 1)
                BY <2>4, <2>5, <3>2
            <4> QED
                BY <3>1, <4>1, TouchedGrows
        <3>3. CASE ~pilot.new
            <4>1. z \in 1 .. ecn[l] /\ ecn'[l] = ecn[l] /\ lru'[l] = Touched(lru[l], z)
                BY <2>4, <2>5, <3>3
            <4> QED
                BY <3>1, <4>1, TouchedPermutes
        <3> QED
            BY <3>2, <3>3
    <2>7. Ordered'
        BY <2>3, <2>5, <2>6 DEF Ordered
    <2>8. JustUsed'
        <3>1. main.at \in {"load", "matmul", "promote"} => main.layer # l /\ main.layer \in Sparse
            BY <2>1 DEF IInv, Ahead, InMoe, l
        <3>2. main.at \in {"load", "matmul", "promote"} => lru'[main.layer] = lru[main.layer]
            BY <2>5, <3>1
        <3> QED
            BY <1>1, <3>2 DEF OInv, JustUsed
    <2>9. Small'
        BY <1>1, <1>2, <2>1 DEF OInv, Small, Resting
    <2> QED
        BY <2>7, <2>8, <2>9 DEF OInv
<1> QED
    BY <1>3, <1>4, <1>5 DEF Pilot

\* Every step keeps the order.
LEMMA OrderInductive ==
    ASSUME IInv, Rewriting, OInv, [Next]_vars
    PROVE  OInv'
<1>1. CASE Main
    BY <1>1, OutsideOrder, EnterOrder, ResolveOrder, ComputeOrder, PromoteOrder DEF Main, Compute
<1>2. CASE Pilot
    BY <1>2, PilotOrder
<1>3. CASE UNCHANGED vars
    BY <1>3 DEF vars, cache, OInv, Ordered, JustUsed, Small
<1> QED
    BY <1>1, <1>2, <1>3 DEF Next

LEMMA SpecOInv == Spec => []OInv
    BY OrderInitially, OrderInductive, SpecIInv, PTL DEF Spec

\* A list of distinct experts, of a bounded length, is one a layer may route to.
LEMMA ShortRoute ==
    ASSUME NEW s \in Seq(Experts), Len(s) <= MaxNeed,
           \A i, j \in 1 .. Len(s) : s[i] = s[j] => i = j
    PROVE  s \in Routes
<1>1. Len(s) \in 0 .. MaxNeed /\ s \in [1 .. Len(s) -> Experts]
    BY ExpertCacheAssumption
<1>2. s \in {r \in [1 .. Len(s) -> Experts] : \A i, j \in 1 .. Len(s) : r[i] = r[j] => i = j}
    BY <1>1
<1> QED
    BY <1>1, <1>2 DEF Routes

\* Types: the two threads count no more slots than there are, the order has each of them
\* once, every place in use is a slot, and the queue of the pilot does not overflow.
THEOREM SpecTypeOK == Spec => []TypeOK
<1>1. IInv /\ OInv => TypeOK
    <2> SUFFICES ASSUME IInv, OInv PROVE TypeOK
        OBVIOUS
    <2>1. \A l \in Sparse : Len(lru[l]) = ecn[l] /\ {lru[l][i] : i \in 1 .. ecn[l]} = 1 .. ecn[l]
        <3>1. ASSUME NEW l \in Sparse
              PROVE  Len(lru[l]) = ecn[l] /\ {lru[l][i] : i \in 1 .. ecn[l]} = 1 .. ecn[l]
            <4>1. ecn[l] \in Nat /\ Permutes(lru[l], ecn[l])
                BY ExpertCacheAssumption DEF IInv, Types, OInv, Ordered
            <4>2. Len(lru[l]) = ecn[l]
                BY <4>1, PermutesFacts
            <4>3. {lru[l][i] : i \in 1 .. ecn[l]} = 1 .. ecn[l]
                <5> DEFINE n == ecn[l]
                           s == lru[l]
                <5> HIDE DEF n, s
                <5>1. \A i \in 1 .. n : s[i] \in 1 .. n
                    BY <4>1 DEF Permutes, n, s
                <5>2. \A z \in 1 .. n : \E i \in 1 .. n : s[i] = z
                    BY <4>1 DEF Permutes, n, s
                <5>3. {s[i] : i \in 1 .. n} = 1 .. n
                    BY <5>1, <5>2
                <5> QED
                    BY <5>3 DEF n, s
            <4> QED
                BY <4>2, <4>3
        <3> QED
            BY <3>1
    <2>2. main.use \in Seq(Places)
        <3>1. main.use \in Seq(Uses) /\ main.need \in Seq(Experts)
            BY SharedTypes DEF IInv, Mains
        <3>2. ASSUME NEW j \in 1 .. Len(main.use) PROVE main.use[j] \in Places
            <4>1. main.use[j] \in Uses
                BY <3>1
            <4>2. main.at \in {"load", "matmul", "promote"}
                <5>1. main.use # <<>>
                    BY <3>1
                <5> QED
                    BY <5>1 DEF IInv, InHand
            <4>3. main.use[j].in = "cache" => main.use[j].z \in 1 .. ecn[main.layer]
                BY <4>2 DEF IInv, InHand
            <4>4. ecn[main.layer] \in 0 .. Cap
                BY <4>2 DEF IInv, Ahead, InMoe, Types
            <4>5. main.use[j].in = "cache" => main.use[j].z \in 1 .. Cap
                BY <4>3, <4>4, ExpertCacheAssumption
            <4>6. main.use[j].in = "ws" => main.use[j].z = 0
                BY DEF OInv, Small
            <4> QED
                BY <4>1, <4>5, <4>6 DEF Uses, Places
        <3> QED
            BY <3>1, <3>2
    <2>3. main.need \in Routes
        BY SharedTypes, ShortRoute DEF IInv, InHand, Mains, OInv, Small
    <2>4. main \in [at : {"idle", "repin", "attn", "wait"} \cup InMoe, layer : 0 .. NLayers, need : Routes, use : Seq(Places)]
        <3>1. main \in Mains
            BY SharedTypes DEF IInv
        <3> QED
            BY <2>2, <2>3, <3>1 DEF Mains, Ats
    <2>5. pilot \in {Resting} \cup Loading
        <3>1. pilot = Resting \/ (pilot \in Jobs(pilot) /\ pilot.at # "none")
            BY DEF IInv, Types, Jobs
        <3>2. pilot \in Jobs(pilot) /\ pilot.at # "none" => pilot \in Loading
            BY DEF OInv, Small, Jobs, Loading
        <3> QED
            BY <3>1, <3>2
    <2> QED
        BY <2>1, <2>4, <2>5 DEF TypeOK, IInv, Types, InHand, OInv, Small
<1> QED
    BY <1>1, SpecIInv, SpecOInv, PTL

-----------------------------------------------------------------------------
(* The promotion keeps what the block used *)

\* The misses have a turn each, the last of them the first.
LEMMA TurnFacts ==
    ASSUME Types
    PROVE  /\ \A j \in 1 .. Len(main.use) : Miss(j) => Turn(j) \in 1 .. NMiss
           /\ \A i, j \in 1 .. Len(main.use) : Miss(i) /\ Miss(j) /\ Turn(i) = Turn(j) => i = j
<1> DEFINE D == 1 .. Len(main.use)
           From(j) == {i \in D : i >= j /\ Miss(i)}
           All == {i \in D : Miss(i)}
<1>1. DOMAIN main.use = D /\ Len(main.use) \in Nat
    BY DEF Types
<1>2. NMiss = Cardinality(All) /\ \A j : Turn(j) = Cardinality(From(j))
    BY <1>1 DEF NMiss, Turn
<1>3. IsFiniteSet(D)
    <2>1. IsFiniteSet(1 .. Len(main.use))
        BY <1>1, PlacesFinite
    <2> QED
        BY <2>1
<1>4. IsFiniteSet(All)
    <2>1. All \in SUBSET D
        OBVIOUS
    <2> HIDE DEF All, D
    <2> QED
        BY <1>3, <2>1, FS_Subset
<1>5. ASSUME NEW j \in D, Miss(j)
      PROVE  Turn(j) \in 1 .. NMiss
    <2>1. From(j) \in SUBSET All /\ j \in From(j)
        BY <1>5
    <2> HIDE DEF From, All
    <2>2. IsFiniteSet(From(j)) /\ Cardinality(From(j)) <= Cardinality(All)
        BY <1>4, <2>1, FS_Subset
    <2>3. Cardinality(From(j)) \in Nat /\ Cardinality(All) \in Nat
        BY <1>4, <2>2, FS_CardinalityType
    <2>4. Cardinality(From(j)) # 0
        BY <2>1, <2>2, FS_EmptySet
    <2> QED
        BY <1>2, <2>2, <2>3, <2>4
<1>6. ASSUME NEW i \in D, NEW j \in D, Miss(i), Miss(j), i < j
      PROVE  Turn(i) # Turn(j)
    <2>1. From(j) \in SUBSET From(i) /\ i \in From(i) /\ i \notin From(j) /\ From(i) \in SUBSET All
        BY <1>1, <1>6
    <2> HIDE DEF From, All
    <2>2. IsFiniteSet(From(i))
        BY <1>4, <2>1, FS_Subset
    <2>3. Cardinality(From(i)) # Cardinality(From(j))
        BY <2>1, <2>2, FS_Subset
    <2> QED
        BY <1>2, <2>3
<1>7. ASSUME NEW i \in D, NEW j \in D, Miss(i), Miss(j), Turn(i) = Turn(j)
      PROVE  i = j
    <2>1. ~(i < j) /\ ~(j < i)
        BY <1>6, <1>7
    <2> QED
        BY <1>1, <2>1
<1> QED
    BY <1>5, <1>7

\* The block wants as many experts as it has misses and hits.
LEMMA WantedFacts ==
    ASSUME IInv, main.at = "promote"
    PROVE  LET U == {i \in DOMAIN main.use : main.use[i].in # "pin"}
           IN /\ Cardinality({main.need[j] : j \in U}) = NMiss + Cardinality(Hits(main.use, Len(main.use)))
              /\ NMiss \in Nat /\ Cardinality(Hits(main.use, Len(main.use))) \in Nat
              /\ \A j \in U : j \in 1 .. Len(main.use) /\ (Miss(j) \/ j \in Hits(main.use, Len(main.use)))
<1> DEFINE D == 1 .. Len(main.use)
           U == {i \in DOMAIN main.use : main.use[i].in # "pin"}
           M == {i \in DOMAIN main.use : Miss(i)}
           H == Hits(main.use, Len(main.use))
           W == {main.need[j] : j \in U}
           f == [j \in U |-> main.need[j]]
<1>1. main.use \in Seq(Uses) /\ DOMAIN main.use = D /\ Len(main.use) \in Nat
    BY DEF IInv, Types
<1>2. \A j \in D : main.use[j].in \in {"pin", "cache", "ws"}
    <2>1. \A j \in D : main.use[j] \in Uses
        BY <1>1, ElementOfSeq
    <2> HIDE DEF D
    <2> QED
        BY <2>1 DEF Uses
<1>3. U = M \cup H /\ M \cap H = {} /\ \A j \in U : j \in D /\ (Miss(j) \/ j \in H)
    BY <1>1, <1>2 DEF Hits, Miss
<1>4. U \subseteq D /\ M \subseteq D /\ H \subseteq D
    BY <1>1 DEF Hits
<1>5. IsFiniteSet(D)
    <2>1. IsFiniteSet(1 .. Len(main.use))
        BY <1>1, PlacesFinite
    <2> QED
        BY <2>1
<1>6. f \in Bijection(U, W)
    <2>1. \A i, j \in U : main.need[i] = main.need[j] => i = j
        <3>1. \A i \in U : i \in 1 .. Len(main.need)
            <4>1. Len(main.use) <= Len(main.need) /\ Len(main.need) \in Nat
                BY DEF IInv, InHand, Types
            <4> QED
                BY <1>1, <1>4, <4>1
        <3> QED
            BY <3>1 DEF IInv, InHand
    <2> HIDE DEF U
    <2> QED
        BY <2>1 DEF Bijection, Injection, Surjection, IsInjective
<1> HIDE DEF D, U, M, H, W, f
<1>7. IsFiniteSet(U) /\ IsFiniteSet(M) /\ IsFiniteSet(H)
    BY <1>4, <1>5, FS_Subset
<1>8. Cardinality(W) = Cardinality(U)
    BY <1>6, <1>7, FS_Bijection DEF ExistsBijection
<1>9. Cardinality(U) = Cardinality(M) + Cardinality(H)
    <2>1. Cardinality(M \cup H) = Cardinality(M) + Cardinality(H) - Cardinality(M \cap H)
        BY <1>7, FS_Union
    <2>2. Cardinality(M \cap H) = 0
        BY <1>3, FS_EmptySet
    <2>3. Cardinality(M) \in Nat /\ Cardinality(H) \in Nat
        BY <1>7, FS_CardinalityType
    <2> QED
        BY <1>3, <2>1, <2>2, <2>3
<1>10. NMiss = Cardinality(M)
    BY DEF NMiss, M
<1>11. NMiss \in Nat /\ Cardinality(H) \in Nat
    BY <1>7, <1>10, FS_CardinalityType
<1> QED
    BY <1>3, <1>8, <1>9, <1>10, <1>11 DEF D, U, H, W

\* Promotion gives each slot away once.
LEMMA TargetsDiffer ==
    ASSUME IInv, OInv, Promote, NEW a \in 1 .. Promoted, NEW b \in 1 .. Promoted,
           Target(main.layer, a) = Target(main.layer, b)
    PROVE  a = b
<1> DEFINE l == main.layer
           n == ecn[l]
           k == Promoted
           d == IF n + k > Cap THEN n + k - Cap ELSE 0
<1>1. /\ l \in Sparse /\ n \in 0 .. Cap /\ k \in 0 .. Cap /\ d \in 0 .. n /\ d <= k
      /\ \A x \in 1 .. k : Target(l, x) = IF x <= k - d THEN n + x ELSE lru[l][x - (k - d)]
    BY PromoteTurns
<1>2. /\ \A i \in 1 .. n : lru[l][i] \in 1 .. n
      /\ \A i, j \in 1 .. n : lru[l][i] = lru[l][j] => i = j
    BY <1>1 DEF OInv, Ordered, Permutes
<1>3. Cap \in Nat
    BY ExpertCacheAssumption
<1>4. a \in 1 .. k /\ b \in 1 .. k /\ Target(l, a) = Target(l, b)
    OBVIOUS
<1> HIDE DEF l, n, k, d
<1>5. \A x \in 1 .. k : ~(x <= k - d) => x - (k - d) \in 1 .. n
    BY <1>1, <1>3
<1>6. CASE a <= k - d /\ b <= k - d
    BY <1>1, <1>3, <1>4, <1>6
<1>7. CASE ~(a <= k - d) /\ ~(b <= k - d)
    <2>1. a - (k - d) = b - (k - d)
        BY <1>1, <1>2, <1>4, <1>5, <1>7
    <2> QED
        BY <1>1, <1>3, <1>4, <2>1
<1>8. ASSUME NEW x \in 1 .. k, NEW y \in 1 .. k, x <= k - d, ~(y <= k - d)
      PROVE  Target(l, x) # Target(l, y)
    <2>1. Target(l, x) = n + x /\ Target(l, y) \in 1 .. n
        BY <1>1, <1>2, <1>5, <1>8
    <2> QED
        BY <1>1, <1>3, <2>1
<1> QED
    BY <1>4, <1>6, <1>7, <1>8

\* What the promotion does with the slots of the layer.
LEMMA PromotedSlots ==
    ASSUME IInv, OInv, Promote
    PROVE  LET l == main.layer
               Mover(z) == {j \in DOMAIN main.use :
                              Miss(j) /\ Turn(j) <= Promoted /\ Target(l, Turn(j)) = z}
           IN \A z \in 1 .. Cap :
                 /\ Mover(z) = {} => slot'[l][z] = slot[l][z]
                 /\ \A j \in Mover(z) : slot'[l][z] = Full(main.need[j])
<1> DEFINE l == main.layer
           D == DOMAIN main.use
           Mover(z) == {j \in D : Miss(j) /\ Turn(j) <= Promoted /\ Target(l, Turn(j)) = z}
<1>1. /\ main.at = "promote" /\ l \in Sparse /\ D = 1 .. Len(main.use)
      /\ slot \in [Sparse -> [1 .. Cap -> Slots]]
    BY DEF Promote, IInv, Ahead, InMoe, Types
<1>2. slot' = [slot EXCEPT ![l] = [z \in 1 .. Cap |->
                        IF Mover(z) = {} THEN slot[l][z] ELSE ws[CHOOSE j \in Mover(z) : TRUE]]]
    BY DEF Promote
<1>3. ASSUME NEW z \in 1 .. Cap
      PROVE  slot'[l][z] = IF Mover(z) = {} THEN slot[l][z] ELSE ws[CHOOSE j \in Mover(z) : TRUE]
    <2> HIDE DEF Mover
    <2> QED
        BY <1>1, <1>2
<1>4. ASSUME NEW z, NEW i \in Mover(z), NEW j \in Mover(z)
      PROVE  i = j
    <2>1. /\ Turn(i) \in 1 .. NMiss /\ Turn(j) \in 1 .. NMiss
          /\ Turn(i) = Turn(j) => i = j
        BY <1>1, TurnFacts DEF IInv
    <2>2. Turn(i) \in 1 .. Promoted /\ Turn(j) \in 1 .. Promoted
        <3>1. NMiss \in Nat /\ Promoted \in 0 .. Cap
            BY NMissFacts DEF IInv
        <3> QED
            BY <2>1, <3>1, ExpertCacheAssumption
    <2>3. Turn(i) = Turn(j)
        BY <2>2, TargetsDiffer
    <2> QED
        BY <2>1, <2>3
<1>5. ASSUME NEW z, NEW j \in Mover(z)
      PROVE  ws[j] = Full(main.need[j])
    BY <1>1 DEF IInv, InHand, Miss
<1>6. ASSUME NEW z \in 1 .. Cap, NEW j \in Mover(z)
      PROVE  slot'[l][z] = Full(main.need[j])
    <2> DEFINE first == CHOOSE i \in Mover(z) : TRUE
    <2>1. first \in Mover(z) /\ Mover(z) # {}
        BY <1>6
    <2>2. slot'[l][z] = ws[first]
        BY <1>3, <2>1
    <2> HIDE DEF first, Mover
    <2>3. first = j
        BY <1>4, <1>6, <2>1
    <2> QED
        BY <1>5, <1>6, <2>2, <2>3
<1> QED
    BY <1>3, <1>6

\* No promotion takes the slot of an expert that its block used, if those fit.
LEMMA PromoteKeeps ==
    ASSUME IInv, OInv, Promote
    PROVE  LET l == main.layer
               wanted == {main.need[j] : j \in {i \in DOMAIN main.use : main.use[i].in # "pin"}}
           IN Cardinality(wanted) <= Cap => wanted \subseteq {slot'[l][z].eid : z \in 1 .. ecn'[l]}
<1> DEFINE l == main.layer
           U == {i \in DOMAIN main.use : main.use[i].in # "pin"}
           wanted == {main.need[j] : j \in U}
           H == Hits(main.use, Len(main.use))
           h == Cardinality(H)
           n == ecn[l]
           k == Promoted
           d == IF n + k > Cap THEN n + k - Cap ELSE 0
           Mover(z) == {j \in DOMAIN main.use :
                          Miss(j) /\ Turn(j) <= k /\ Target(l, Turn(j)) = z}
<1> SUFFICES ASSUME Cardinality(wanted) <= Cap
             PROVE  wanted \subseteq {slot'[l][z].eid : z \in 1 .. ecn'[l]}
    OBVIOUS
<1>1. /\ main.at = "promote" /\ DOMAIN main.use = 1 .. Len(main.use) /\ Cap \in Nat
      /\ \A e : Full(e).eid = e
    BY ExpertCacheAssumption DEF Promote, IInv, Types, Full
<1>2. /\ Cardinality(wanted) = NMiss + h /\ NMiss \in Nat /\ h \in Nat
      /\ \A j \in U : j \in 1 .. Len(main.use) /\ (Miss(j) \/ j \in H)
    BY <1>1, WantedFacts
<1>3. k = NMiss /\ k + h <= Cap
    BY <1>1, <1>2 DEF Promoted
<1>4. /\ l \in Sparse /\ n \in 0 .. Cap /\ k \in 0 .. Cap /\ d \in 0 .. n /\ d <= k
      /\ ecn'[l] = n + k - d
      /\ \A x \in 1 .. k : Target(l, x) = IF x <= k - d THEN n + x ELSE lru[l][x - (k - d)]
    BY PromoteTurns
<1>5. Permutes(lru[l], n) /\ Len(lru[l]) = n
    <2>1. Permutes(lru[l], n)
        BY <1>4 DEF OInv, Ordered
    <2>2. n \in Nat
        BY <1>1, <1>4
    <2>3. Len(lru[l]) = n
        <3> DEFINE s == lru[l]
        <3>1. Permutes(s, n)
            BY <2>1
        <3> HIDE DEF s, n
        <3>2. Len(s) = n
            BY <2>2, <3>1, PermutesFacts
        <3> QED
            BY <3>2 DEF s
    <2> QED
        BY <2>1, <2>3
<1>6. /\ \A i \in 1 .. n : lru[l][i] \in 1 .. n
      /\ \A i, j \in 1 .. n : lru[l][i] = lru[l][j] => i = j
    BY <1>5 DEF Permutes
<1>7. \A z \in 1 .. Cap : /\ Mover(z) = {} => slot'[l][z] = slot[l][z]
                          /\ \A j \in Mover(z) : slot'[l][z] = Full(main.need[j])
    BY PromotedSlots
<1>8. ecn'[l] \in 0 .. Cap /\ n <= ecn'[l]
    <2>1. n + k - d \in 0 .. Cap /\ n <= n + k - d
        <3>1. n \in 0 .. Cap /\ k \in 0 .. Cap
            BY <1>4
        <3> HIDE DEF n, k
        <3> QED
            BY <1>1, <3>1
    <2>2. ecn'[l] = n + k - d
        BY <1>4
    <2> HIDE DEF d, n, k, l
    <2> QED
        BY <2>1, <2>2
<1>9. d = 0 \/ d <= n - h
    BY <1>1, <1>2, <1>3, <1>4
<1>10. ASSUME NEW j \in U, Miss(j)
       PROVE  \E z \in 1 .. ecn'[l] : slot'[l][z].eid = main.need[j]
    <2> DEFINE x == Turn(j)
               z == Target(l, x)
    <2>1. x \in 1 .. k
        BY <1>2, <1>3, <1>10, TurnFacts DEF IInv
    <2>2. j \in Mover(z)
        BY <1>1, <1>4, <1>10, <2>1
    <2> HIDE DEF x, n, k, d, l
    <2>3. z \in 1 .. ecn'[l]
        <3>1. CASE x <= k - d
            BY <1>1, <1>4, <2>1, <3>1
        <3>2. CASE ~(x <= k - d)
            <4>1. x - (k - d) \in 1 .. n
                BY <1>1, <1>4, <2>1, <3>2
            <4>2. z \in 1 .. n
                BY <1>4, <1>6, <2>1, <3>2, <4>1
            <4> QED
                BY <1>1, <1>4, <1>8, <4>2
        <3> QED
            BY <3>1, <3>2
    <2> HIDE DEF z, Mover
    <2>4. z \in 1 .. Cap
        BY <1>1, <1>8, <2>3
    <2>5. slot'[l][z].eid = main.need[j]
        BY <1>1, <1>7, <2>2, <2>4
    <2> QED
        BY <2>3, <2>5
<1>11. ASSUME NEW j \in H
       PROVE  \E z \in 1 .. ecn'[l] : slot'[l][z].eid = main.need[j]
    <2> DEFINE z == main.use[j].z
    <2>1. j \in 1 .. Len(main.use) /\ main.use[j].in = "cache"
        BY DEF Hits
    <2>2. z \in 1 .. n /\ slot[l][z] = Full(main.need[j])
        BY <1>1, <2>1 DEF IInv, InHand
    <2>3. PICK i \in 1 .. n : lru[l][i] = z /\ i > n - h
        <3>1. Recent(lru[l], main.use, Len(main.use))
            BY <1>1 DEF OInv, JustUsed
        <3>2. \E i \in 1 .. Len(lru[l]) : lru[l][i] = z /\ i > Len(lru[l]) - h
            BY <3>1 DEF Recent
        <3> HIDE DEF h, n, z
        <3> QED
            BY <1>5, <3>2
    <2> HIDE DEF z, h, H
    <2>4. ASSUME NEW x \in 1 .. k PROVE Target(l, x) # z
        <3> HIDE DEF l, n, k, d
        <3>1. CASE x <= k - d
            <4>1. Target(l, x) = n + x /\ n \in 0 .. Cap /\ k \in 0 .. Cap
                BY <1>4, <3>1
            <4>2. n + x > n /\ z <= n /\ z \in Int /\ n + x \in Int
                BY <1>1, <2>2, <4>1
            <4>3. n + x # z
                BY <1>1, <4>1, <4>2
            <4> QED
                BY <4>1, <4>3
        <3>2. CASE ~(x <= k - d)
            <4>1. x - (k - d) \in 1 .. n /\ x - (k - d) <= d
                BY <1>1, <1>4, <3>2
            <4>2. x - (k - d) # i
                BY <1>1, <1>2, <1>4, <1>9, <2>3, <4>1
            <4> QED
                BY <1>4, <1>6, <2>3, <3>2, <4>1, <4>2
        <3> QED
            BY <3>1, <3>2
    <2>5. Mover(z) = {}
        <3>1. \A y \in Mover(z) : Turn(y) \in 1 .. k /\ Target(l, Turn(y)) = z
            BY <1>1, <1>3, TurnFacts DEF IInv
        <3> HIDE DEF Mover, k
        <3> QED
            BY <2>4, <3>1
    <2> HIDE DEF Mover, n
    <2>6. z \in 1 .. Cap /\ z \in 1 .. ecn'[l]
        BY <1>1, <1>4, <1>8, <2>2
    <2>7. slot'[l][z].eid = main.need[j]
        BY <1>1, <1>7, <2>2, <2>5, <2>6
    <2> QED
        BY <2>6, <2>7
<1>12. ASSUME NEW j \in U PROVE main.need[j] \in {slot'[l][z].eid : z \in 1 .. ecn'[l]}
    BY <1>2, <1>10, <1>11
<1> QED
    BY <1>12

\* A block that fits in the cache is in it when its misses have been promoted: neither a
\* hit nor another miss of the block gives up its slot.
THEOREM SpecKeepsWhatItUsed == Spec => KeepsWhatItUsed
<1>1. ASSUME IInv, OInv
      PROVE  [LET l == main.layer
                  wanted == {main.need[j] : j \in {i \in DOMAIN main.use : main.use[i].in # "pin"}}
              IN Promote /\ Cardinality(wanted) <= Cap =>
                   wanted \subseteq {slot'[l][z].eid : z \in 1 .. ecn'[l]}]_vars
    BY <1>1, PromoteKeeps
<1> QED
    BY <1>1, SpecIInv, SpecOInv, PTL DEF Spec, KeepsWhatItUsed
=============================================================================
