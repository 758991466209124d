------------------------ MODULE CachePoliciesProofs ------------------------
(***************************************************************************)
(* Theorems about the cache replays, for any experts, sizes, budgets and   *)
(* streams: GreedyDual-Size with cost = size is byte-LRU, the stack        *)
(* distances give the misses of the slot-LRU of every capacity, equal      *)
(* sizes make the byte policies slot-LRUs and the Belady greedies optimal, *)
(* and the capacities planned from the miss curves are the best there are. *)
(***************************************************************************)
EXTENDS WaterFill, FiniteSetTheorems, FunctionTheorems, SequenceTheorems,
        WellFoundedInduction, TLAPS

-----------------------------------------------------------------------------
(* Types *)

\* A newcomer's stamp and those of the experts that stay.
LEMMA JoinedType ==
    ASSUME NEW stamp \in Stamps, NEW stay, NEW x \in Experts, NEW t \in Nat
    PROVE  Joined(stamp, stay, x, t) \in Stamps
BY DEF Joined, Only, Stamps

Duals == [h: Stamps, seq: Stamps, n: Nat, level: Nat, heap: SUBSET Entries]

\* An entry is pushed after others have been popped.
LEMMA PushType ==
    ASSUME NEW g \in Duals, NEW popped, NEW x \in Experts, NEW m \in Nat
    PROVE  Push(g, popped, x, m) \in Duals
<1> DEFINE stay == Beside(g, popped)
           new == [h |-> m + 1, seq |-> g.n + 1, e |-> x]
<1>1. g.h \in Stamps /\ g.seq \in Stamps /\ g.n \in Nat /\ g.heap \in SUBSET Entries
  BY DEF Duals
<1>2. m + 1 \in Nat /\ g.n + 1 \in Nat
  BY <1>1
<1>3. new \in Entries
  BY <1>2 DEF Entries
<1>4. (g.heap \ popped) \cup {new} \in SUBSET Entries
  BY <1>1, <1>3
<1> HIDE DEF stay
<1>5. Joined(g.h, stay, x, m + 1) \in Stamps /\ Joined(g.seq, stay, x, g.n + 1) \in Stamps
  BY <1>1, <1>2, JoinedType
<1> QED
  BY <1>2, <1>4, <1>5 DEF Push, Duals, stay

\* The request at hand.
LEMMA RequestType ==
    ASSUME TypeOK, NEW l \in Layers, at[l] < Len(case.stream[l])
    PROVE  /\ at[l] + 1 \in Nat
           /\ case.stream[l][at[l] + 1] \in Experts
           /\ case.stream[l] \in Seq(Experts)
           /\ case.size[l] \in [Experts -> Nat \ {0}]
<1>1. case.stream[l] \in Seq(Experts) /\ at[l] \in Nat
  BY DEF TypeOK, Studies
<1>2. at[l] + 1 \in 1 .. Len(case.stream[l])
  BY <1>1
<1> QED
  BY <1>1, <1>2, ElementOfSeq DEF TypeOK, Studies

LEMMA InfType ==
    ASSUME TypeOK, NEW l \in Layers
    PROVE  Inf(l) \in Nat /\ Inf(l) > MaxCap
<1>1. case.stream[l] \in Seq(Experts)
  BY DEF TypeOK, Studies
<1>2. Len(case.stream[l]) \in Nat /\ MaxCap \in Nat
  BY <1>1, CachePoliciesAssumption, LenProperties DEF CachePoliciesAssumption
<1> QED
  BY <1>2 DEF Inf

LEMMA MattsonType ==
    ASSUME TypeOK, NEW l \in Layers, NEW x \in Experts, Mattson(l, x)
    PROVE  stack' \in [Layers -> Seq(Experts)] /\ dist' \in [Layers -> Seq(Nat)]
<1> DEFINE s == stack[l]
<1>1. s \in Seq(Experts) /\ dist[l] \in Seq(Nat) /\ <<x>> \in Seq(Experts)
  BY DEF TypeOK
<1>2. CASE /\ dist' = [dist EXCEPT ![l] = Append(@, Inf(l))]
           /\ stack' = [stack EXCEPT ![l] = <<x>> \o @]
  <2>1. <<x>> \o s \in Seq(Experts) /\ Append(dist[l], Inf(l)) \in Seq(Nat)
    BY <1>1, InfType, ConcatProperties, AppendProperties
  <2> QED
    BY <1>2, <2>1 DEF TypeOK
<1>3. ASSUME NEW i \in DOMAIN s,
             dist' = [dist EXCEPT ![l] = Append(@, i)],
             stack' = [stack EXCEPT ![l] = <<x>> \o RemoveAt(@, i)]
      PROVE  stack' \in [Layers -> Seq(Experts)] /\ dist' \in [Layers -> Seq(Nat)]
  <2>1. i \in 1 .. Len(s) /\ Len(s) \in Nat
    BY <1>1, LenProperties
  <2>2. /\ \A j \in 1 .. i - 1 : s[j] \in Experts
        /\ \A j \in i + 1 .. Len(s) : s[j] \in Experts
    BY <1>1, <2>1, ElementOfSeq
  <2>3. SubSeq(s, 1, i - 1) \in Seq(Experts) /\ SubSeq(s, i + 1, Len(s)) \in Seq(Experts)
    BY <2>1, <2>2, SubSeqProperties
  <2>4. <<x>> \o RemoveAt(s, i) \in Seq(Experts)
    BY <1>1, <2>3, ConcatProperties DEF RemoveAt
  <2>5. Append(dist[l], i) \in Seq(Nat)
    BY <1>1, <2>1, AppendProperties
  <2> QED
    BY <1>3, <2>4, <2>5 DEF TypeOK
<1> QED
  BY <1>2, <1>3 DEF Mattson

LEMMA InitTypes == Init => TypeOK
BY CachePoliciesAssumption
   DEF CachePoliciesAssumption, Init, TypeOK, Studies, Stamps, Nothing

LEMMA NextTypes == TypeOK /\ [Next]_vars => TypeOK'
<1> SUFFICES ASSUME TypeOK, [Next]_vars PROVE TypeOK'
  OBVIOUS
<1>1. CASE UNCHANGED vars
  BY <1>1 DEF TypeOK, vars
<1>2. ASSUME NEW l \in Layers, Request(l) PROVE TypeOK'
  <2> DEFINE t == at[l] + 1
             x == case.stream[l][t]
  <2>1. t \in Nat /\ x \in Experts
    BY <1>2, RequestType DEF Request
  <2>2. /\ at' = [at EXCEPT ![l] = t] /\ case' = case
        /\ ByteLru(l, x, t) /\ Snrd(l, x, t) /\ Gds(l, x)
        /\ BeladyDemand(l, x, t) /\ BeladyBytes(l, x, t)
        /\ Mattson(l, x) /\ SlotLru(l, x, t) /\ Count(l, x, t)
    BY <1>2 DEF Request
  <2> HIDE DEF t, x
  <2>3. case' \in Studies /\ at' \in [Layers -> Nat]
    BY <2>1, <2>2 DEF TypeOK
  <2>4. lru' \in [Layers -> Stamps]
    <3>1. lru[l] \in Stamps /\ lru \in [Layers -> Stamps]
      BY DEF TypeOK
    <3>2. [lru[l] EXCEPT ![x] = t] \in Stamps
      BY <2>1, <3>1 DEF Stamps
    <3>3. \/ lru' = [lru EXCEPT ![l] = [lru[l] EXCEPT ![x] = t]]
          \/ lru' = lru
          \/ \E stay : lru' = [lru EXCEPT ![l] = Joined(lru[l], stay, x, t)]
      BY <2>2 DEF ByteLru, Staying
    <3> QED
      BY <2>1, <3>1, <3>2, <3>3, JoinedType
  <2>5. snrd' \in [Layers -> [last: Stamps, born: Stamps]]
    <3>1. snrd[l].last \in Stamps /\ snrd[l].born \in Stamps
          /\ snrd \in [Layers -> [last: Stamps, born: Stamps]]
      BY DEF TypeOK
    <3>2. [snrd[l].last EXCEPT ![x] = t] \in Stamps
      BY <2>1, <3>1 DEF Stamps
    <3>3. \A R : Joined(snrd[l].last, R, x, t) \in Stamps /\ Joined(snrd[l].born, R, x, t) \in Stamps
      BY <2>1, <3>1, JoinedType
    <3>4. \/ snrd' = [snrd EXCEPT ![l].last[x] = t]
          \/ snrd' = snrd
          \/ \E stay : snrd' = [snrd EXCEPT ![l] = [last |-> Joined(snrd[l].last, stay, x, t),
                                                   born |-> Joined(snrd[l].born, stay, x, t)]]
      BY <2>2 DEF Snrd, Staying
    <3>5. CASE snrd' = [snrd EXCEPT ![l].last[x] = t]
      BY <3>1, <3>2, <3>5
    <3> QED
      BY <3>1, <3>3, <3>4, <3>5
  <2>6. gds' \in [Layers -> Duals]
    <3> DEFINE g == gds[l]
    <3>1. gds \in [Layers -> Duals] /\ g \in Duals
      BY DEF TypeOK, Duals
    <3>2. \A popped : \A m \in Nat : Push(g, popped, x, m) \in Duals
      BY <2>1, <3>1, PushType
    <3>3. \A last \in g.heap : last.h \in Nat
      BY <3>1 DEF Duals, Entries
    <3>4. g.level \in Nat
      BY <3>1 DEF Duals
    <3>5. \/ gds' = gds
          \/ \E popped : gds' = [gds EXCEPT ![l] = Push(g, popped, x, g.level)]
          \/ \E popped : \E last \in g.heap : gds' = [gds EXCEPT ![l] = Push(g, popped, x, last.h)]
      BY <2>2 DEF Gds, Victims, Popped
    <3> QED
      BY <3>1, <3>2, <3>3, <3>4, <3>5
  <2>7. demand' \in [Layers -> Stamps]
    <3>1. demand[l] \in Stamps /\ demand \in [Layers -> Stamps]
      BY DEF TypeOK
    <3>2. \/ demand' = demand
          \/ \E stay : demand' = [demand EXCEPT ![l] = Joined(demand[l], stay, x, t)]
      BY <2>2 DEF BeladyDemand, Staying
    <3> QED
      BY <2>1, <3>1, <3>2, JoinedType
  <2>8. bypass' \in [Layers -> Stamps]
    <3>1. bypass[l] \in Stamps /\ bypass \in [Layers -> Stamps]
      BY DEF TypeOK
    <3>2. \A R : Joined(bypass[l], R, x, t) \in Stamps
      BY <2>1, <3>1, JoinedType
    <3>3. \A a \in Stamps : \A stay : Only(a, stay) \in Stamps
      BY DEF Stamps, Only
    <3>4. \/ bypass' = bypass
          \/ \E stay, R : bypass' = [bypass EXCEPT ![l] = Only(Joined(bypass[l], R, x, t), stay)]
      BY <2>2 DEF BeladyBytes, Staying
    <3> QED
      BY <3>1, <3>2, <3>3, <3>4
  <2>9. stack' \in [Layers -> Seq(Experts)] /\ dist' \in [Layers -> Seq(Nat)]
    BY <2>1, <2>2, MattsonType
  <2>10. slots' \in [Layers -> [0..MaxCap -> Stamps]]
    <3>1. slots \in [Layers -> [0..MaxCap -> Stamps]]
      BY DEF TypeOK
    <3>2. ASSUME NEW c \in 0..MaxCap
          PROVE  /\ [slots[l][c] EXCEPT ![x] = t] \in Stamps
                 /\ slots[l][c] \in Stamps
                 /\ \A stay : Joined(slots[l][c], stay, x, t) \in Stamps
      <4>1. slots[l][c] \in Stamps
        BY <3>1
      <4> QED
        BY <2>1, <4>1, JoinedType DEF Stamps
    <3> DEFINE new(c) == LET s == slots[l][c]
                             R == Cached(s)
                             stay == {e \in R : Cardinality(R) < c \/ \E f \in R : s[f] < s[e]}
                         IN  IF x \in R THEN [s EXCEPT ![x] = t]
                             ELSE IF c = 0 THEN s ELSE Joined(s, stay, x, t)
    <3>3. slots' = [slots EXCEPT ![l] = [c \in 0..MaxCap |-> new(c)]]
      BY <2>2 DEF SlotLru
    <3>4. \A c \in 0..MaxCap : new(c) \in Stamps
      BY <3>2
    <3> HIDE DEF new
    <3> QED
      BY <3>1, <3>3, <3>4
  <2>11. missed' \in [Layers -> [Policies -> SUBSET Nat]]
    BY <2>1, <2>2 DEF Count, TypeOK
  <2>12. slotMissed' \in [Layers -> [0..MaxCap -> SUBSET Nat]]
    BY <2>1, <2>2 DEF Count, TypeOK
  <2> QED
    BY <2>3, <2>4, <2>5, <2>6, <2>7, <2>8, <2>9, <2>10, <2>11, <2>12 DEF TypeOK, Duals
<1> QED
  BY <1>1, <1>2 DEF Next

\* Stamps, stacks, distances and misses keep their types for every trace.
THEOREM SpecTypeOK == Spec => []TypeOK
BY InitTypes, NextTypes, PTL DEF Spec

-----------------------------------------------------------------------------
(* Sums *)

\* A sum of naturals counts cells: f[x] of them for each x.
Column(f, x) == {x} \X (1 .. f[x])
Cells(f, T) == UNION {Column(f, x) : x \in T}
Size(f, T) == Cardinality(Cells(f, T))

LEMMA ColumnFacts ==
    ASSUME NEW f, NEW x, f[x] \in Nat
    PROVE  IsFiniteSet(Column(f, x)) /\ Cardinality(Column(f, x)) = f[x]
<1> DEFINE n == f[x]
<1>1. IsFiniteSet({x}) /\ Cardinality({x}) = 1
  BY FS_Singleton
<1>2. n \in Nat
  OBVIOUS
<1> HIDE DEF n
<1>3. IsFiniteSet(1 .. n) /\ Cardinality(1 .. n) = n
  <2>1. 1 \in Int /\ n \in Int
    BY <1>2
  <2> QED
    BY <1>2, <2>1, FS_Interval
<1>4. IsFiniteSet({x} \X (1 .. n)) /\ Cardinality({x} \X (1 .. n)) = Cardinality({x}) * Cardinality(1 .. n)
  BY <1>1, <1>3, FS_Product
<1>5. 1 * n = n
  BY <1>2
<1> QED
  BY <1>1, <1>3, <1>4, <1>5 DEF Column, n

LEMMA SizeFacts ==
    ASSUME NEW T, IsFiniteSet(T), NEW f, \A x \in T : f[x] \in Nat
    PROVE  /\ IsFiniteSet(Cells(f, T)) /\ Size(f, T) \in Nat
           /\ T = {} => Size(f, T) = 0
<1> DEFINE C == {Column(f, x) : x \in T}
           F == [x \in T |-> Column(f, x)]
<1>1. F \in Surjection(T, C)
  BY Fun_IsSurj
<1>2. IsFiniteSet(C)
  BY <1>1, FS_Surjection
<1>3. \A D \in C : IsFiniteSet(D)
  BY ColumnFacts
<1> HIDE DEF C
<1>4. IsFiniteSet(UNION C)
  BY <1>2, <1>3, FS_UNION
<1>5. IsFiniteSet(Cells(f, T))
  BY <1>4 DEF C, Cells
<1>6. T = {} => Cells(f, T) = {}
  BY DEF Cells
<1> QED
  BY <1>5, <1>6, FS_CardinalityType, FS_EmptySet DEF Size

\* Any element may be taken out first.
LEMMA SizeRemove ==
    ASSUME NEW T, IsFiniteSet(T), NEW f, \A y \in T : f[y] \in Nat, NEW x \in T
    PROVE  Size(f, T) = f[x] + Size(f, T \ {x})
<1> DEFINE A == Column(f, x)
           B == Cells(f, T \ {x})
<1>1. Cells(f, T) = A \cup B
  BY DEF Cells
<1>2. A \cap B = {}
  BY DEF Cells, Column
<1>3. IsFiniteSet(A) /\ Cardinality(A) = f[x]
  BY ColumnFacts
<1>4. IsFiniteSet(B) /\ Cardinality(B) \in Nat
  <2>1. IsFiniteSet(T \ {x})
    BY FS_RemoveElement
  <2>2. \A y \in T \ {x} : f[y] \in Nat
    OBVIOUS
  <2> QED
    BY <2>1, <2>2, SizeFacts DEF Size
<1> HIDE DEF A, B
<1>5. Cardinality(A \cup B) = Cardinality(A) + Cardinality(B) - Cardinality(A \cap B)
  BY <1>3, <1>4, FS_Union
<1>6. Cardinality(A \cap B) = 0
  BY <1>2, FS_EmptySet
<1>7. Size(f, T) = Cardinality(A \cup B) /\ Size(f, T \ {x}) = Cardinality(B) /\ f[x] \in Nat
  BY <1>1 DEF Size, B
<1> QED
  BY <1>3, <1>4, <1>5, <1>6, <1>7

LEMMA SizeGrows ==
    ASSUME NEW T, IsFiniteSet(T), NEW f, NEW g, \A x \in T : f[x] \in Nat /\ g[x] \in Nat /\ f[x] <= g[x]
    PROVE  Size(f, T) <= Size(g, T)
<1>1. \A x \in T : 1 .. f[x] \subseteq 1 .. g[x]
  OBVIOUS
<1>2. Cells(f, T) \in SUBSET Cells(g, T)
  BY <1>1 DEF Cells, Column
<1>3. IsFiniteSet(Cells(g, T))
  BY SizeFacts
<1> QED
  BY <1>2, <1>3, FS_Subset DEF Size

LEMMA SizeSame ==
    ASSUME NEW T, NEW f, NEW g, \A x \in T : f[x] = g[x]
    PROVE  Size(f, T) = Size(g, T)
<1>1. \A x \in T : Column(f, x) = Column(g, x)
  BY DEF Column
<1>2. Cells(f, T) = Cells(g, T)
  BY <1>1 DEF Cells
<1> QED
  BY <1>2 DEF Size

\* The sum is a fold, and the fold a function that is chosen for its recursive equation;
\* that function counts cells.
LEMMA SumIsSize ==
    ASSUME NEW S, IsFiniteSet(S), NEW f, \A e \in S : f[e] \in Nat
    PROVE  SumFunctionOnSet(f, S) = Size(f, S)
<1> DEFINE pick(s) == CHOOSE e \in s : TRUE
           Sums(g) == g = [s \in SUBSET S |->
                             IF s = {} THEN 0 ELSE f[pick(s)] + g[s \ {pick(s)}]]
           count == [s \in SUBSET S |-> Size(f, s)]
<1>1. SumFunctionOnSet(f, S) = (CHOOSE g : Sums(g))[S]
  BY DEF SumFunctionOnSet, FoldFunctionOnSet, MapThenFoldSet
<1>2. ASSUME NEW s \in SUBSET S
      PROVE  /\ IsFiniteSet(s) /\ (s = {} => Size(f, s) = 0)
             /\ s # {} => pick(s) \in s /\ Size(f, s) = f[pick(s)] + Size(f, s \ {pick(s)})
  <2>1. IsFiniteSet(s) /\ \A e \in s : f[e] \in Nat
    BY FS_Subset
  <2>2. s # {} => pick(s) \in s
    OBVIOUS
  <2> HIDE DEF pick
  <2> QED
    BY <2>1, <2>2, SizeFacts, SizeRemove
<1>3. Sums(count)
  <2>1. ASSUME NEW s \in SUBSET S
        PROVE  count[s] = IF s = {} THEN 0 ELSE f[pick(s)] + count[s \ {pick(s)}]
    <3>1. s \ {pick(s)} \in SUBSET S
      OBVIOUS
    <3> HIDE DEF pick
    <3> QED
      BY <1>2, <3>1
  <2> HIDE DEF pick
  <2> QED
    BY <2>1
<1>4. ASSUME NEW g, Sums(g)
      PROVE  g[S] = count[S]
  <2> DEFINE wrong == {s \in SUBSET S : g[s] # count[s]}
  <2>1. \A s \in SUBSET S : g[s] = IF s = {} THEN 0 ELSE f[pick(s)] + g[s \ {pick(s)}]
    <3> HIDE DEF pick
    <3> QED
      BY <1>4
  <2>2. \A s \in SUBSET S : count[s] = IF s = {} THEN 0 ELSE f[pick(s)] + count[s \ {pick(s)}]
    <3> HIDE DEF pick, count
    <3> QED
      BY <1>3
  <2>3. wrong \subseteq FiniteSubsetsOf(S)
    BY FS_FiniteSubsetsOfFinite
  <2>4. ASSUME wrong # {} PROVE FALSE
    <3>1. PICK s \in wrong : \A r \in wrong : <<r, s>> \notin StrictSubsetOrdering(S)
      <4> HIDE DEF wrong
      <4>1. IsWellFoundedOn(StrictSubsetOrdering(S), FiniteSubsetsOf(S))
        BY FS_StrictSubsetOrderingWellFounded
      <4>2. \E s \in wrong : \A r \in wrong : ~ (<<r, s>> \in StrictSubsetOrdering(S))
        BY <2>3, <2>4, <4>1, WFMin
      <4> QED
        BY <4>2
    <3>2. s # {} /\ s \in SUBSET S
      BY <2>1, <2>2
    <3> DEFINE r == s \ {pick(s)}
    <3>3. r \in SUBSET S /\ r # s
      BY <1>2, <3>2
    <3>4. <<r, s>> \in StrictSubsetOrdering(S)
      BY <3>2, <3>3 DEF StrictSubsetOrdering
    <3>5. g[r] = count[r]
      <4>1. r \notin wrong
        BY <3>1, <3>4
      <4> QED
        BY <3>3, <4>1
    <3>6. g[s] = count[s]
      <4> HIDE DEF pick, count
      <4> QED
        BY <2>1, <2>2, <3>2, <3>5
    <3> QED
      BY <3>6
  <2> QED
    BY <2>4
<1>5. Sums(CHOOSE g : Sums(g))
  <2> HIDE DEF Sums, count
  <2> QED
    BY <1>3
<1>6. (CHOOSE g : Sums(g))[S] = count[S]
  <2> HIDE DEF Sums, count
  <2> QED
    BY <1>4, <1>5
<1>7. count[S] = Size(f, S)
  OBVIOUS
<1> QED
  BY <1>1, <1>6, <1>7

\* Experts have sizes and sets of them a weight.
LEMMA WeightFacts ==
    ASSUME case \in Studies, NEW l \in Layers, NEW S \in SUBSET Experts
    PROVE  /\ IsFiniteSet(S) /\ Weight(l, S) \in Nat /\ case.budget \in Nat
           /\ \A T \in SUBSET S : Weight(l, T) <= Weight(l, S)
           /\ Weight(l, {}) = 0
           /\ \A x \in Experts : /\ case.size[l][x] \in Nat \ {0}
                                 /\ x \notin S => Weight(l, S \cup {x}) = Weight(l, S) + case.size[l][x]
<1> DEFINE f == case.size[l]
<1>1. IsFiniteSet(Experts) /\ f \in [Experts -> Nat \ {0}] /\ case.budget \in Nat
  BY CachePoliciesAssumption DEF CachePoliciesAssumption, Studies
<1>2. ASSUME NEW T \in SUBSET Experts
      PROVE  IsFiniteSet(T) /\ Weight(l, T) = Size(f, T) /\ (\A e \in T : f[e] \in Nat) /\ Size(f, T) \in Nat
  <2>1. IsFiniteSet(T)
    BY <1>1, FS_Subset
  <2>2. \A e \in T : f[e] \in Nat
    BY <1>1
  <2> HIDE DEF f
  <2> QED
    BY <2>1, <2>2, SumIsSize, SizeFacts DEF Weight, f
<1>3. Weight(l, {}) = 0
  <2>1. {} \in SUBSET Experts
    OBVIOUS
  <2> HIDE DEF f
  <2> QED
    BY <1>2, <2>1, SizeFacts
<1>4. ASSUME NEW T \in SUBSET S PROVE Weight(l, T) <= Weight(l, S)
  <2>1. Cells(f, T) \in SUBSET Cells(f, S)
    BY DEF Cells
  <2>2. IsFiniteSet(Cells(f, S))
    BY <1>2, SizeFacts
  <2>3. T \in SUBSET Experts
    OBVIOUS
  <2> HIDE DEF f
  <2> QED
    BY <1>2, <2>1, <2>2, <2>3, FS_Subset DEF Size
<1>5. ASSUME NEW x \in Experts, x \notin S PROVE Weight(l, S \cup {x}) = Weight(l, S) + f[x]
  <2> DEFINE T == S \cup {x}
  <2>1. T \in SUBSET Experts /\ x \in T /\ T \ {x} = S
    BY <1>5
  <2> HIDE DEF T, f
  <2>2. Size(f, T) = f[x] + Size(f, T \ {x})
    BY <1>2, <2>1, SizeRemove
  <2>3. f[x] \in Nat /\ Size(f, S) \in Nat
    BY <1>2, <2>1
  <2>4. Weight(l, T) = Weight(l, S) + f[x]
    BY <1>2, <2>1, <2>2, <2>3
  <2> QED
    BY <2>4 DEF T
<1> QED
  BY <1>1, <1>2, <1>3, <1>4, <1>5

-----------------------------------------------------------------------------
(* GreedyDual-Size with cost = size *)

\* The heap entries and the stamps of byte-LRU order the same experts in the same
\* way; no live entry lies below the level, nor more than one credit above it, so
\* that an entry pushed now is the last; and H never contradicts seq.
Agree(l) ==
    /\ \A e \in Experts : lru[l][e] <= at[l] /\ gds[l].seq[e] <= gds[l].n
    /\ \A e \in Experts : lru[l][e] > 0 <=> gds[l].seq[e] > 0
    /\ \A e, f \in Cached(lru[l]) : e # f => lru[l][e] # lru[l][f]
    /\ \A e, f \in Cached(lru[l]) : gds[l].seq[e] < gds[l].seq[f] <=> lru[l][e] < lru[l][f]
    /\ \A e \in Cached(lru[l]) : gds[l].level <= gds[l].h[e] /\ gds[l].h[e] <= gds[l].level + 1
    /\ \A e, f \in Cached(lru[l]) : gds[l].seq[e] < gds[l].seq[f] => gds[l].h[e] <= gds[l].h[f]

\* The heap has the entry of every cached expert, among stale ones; the counter is the
\* name of an entry, so that no stale one passes for another's.
Entry(g, e) == [h |-> g.h[e], seq |-> g.seq[e], e |-> e]
Lighter(g, f, e) == PopsBefore(Entry(g, f), Entry(g, e))
HeapAgrees(l) ==
    /\ \A e \in Cached(gds[l].seq) : Entry(gds[l], e) \in gds[l].heap
    /\ \A k \in gds[l].heap : k.seq > 0 /\ k.seq <= gds[l].n
    /\ \A j, k \in gds[l].heap : j.seq = k.seq => j = k

SameMisses(l) == missed[l]["gds_cost_size"] = missed[l]["byte_lru"]

\* The heap gives the experts up in the order of byte-LRU.
LEMMA SameOrder ==
    ASSUME TypeOK, NEW l \in Layers, Agree(l)
    PROVE  /\ Cached(gds[l].seq) = Cached(lru[l])
           /\ \A e, f \in Cached(lru[l]) : Lighter(gds[l], f, e) <=> lru[l][f] < lru[l][e]
<1> DEFINE g == gds[l]
<1>1. /\ g.h \in [Experts -> Nat] /\ g.seq \in [Experts -> Nat]
      /\ lru[l] \in [Experts -> Nat]
  BY DEF TypeOK, Stamps
<1>2. Cached(g.seq) = Cached(lru[l])
  BY <1>1 DEF Agree, Cached
<1>3. ASSUME NEW e \in Cached(lru[l]), NEW f \in Cached(lru[l])
      PROVE  Lighter(g, f, e) <=> lru[l][f] < lru[l][e]
  <2>1. /\ e \in Experts /\ f \in Experts
        /\ g.h[e] \in Nat /\ g.h[f] \in Nat /\ g.seq[e] \in Nat /\ g.seq[f] \in Nat
        /\ lru[l][e] \in Nat /\ lru[l][f] \in Nat
    BY <1>1 DEF Cached
  <2>2. CASE lru[l][f] < lru[l][e]
    <3>1. g.seq[f] < g.seq[e] /\ g.h[f] <= g.h[e]
      BY <2>2 DEF Agree
    <3>2. g.h[f] < g.h[e] \/ g.h[f] = g.h[e]
      BY <2>1, <3>1
    <3> QED
      BY <2>2, <3>1, <3>2 DEF Lighter, PopsBefore, Entry
  <2>3. CASE e = f
    <3>1. ~(g.h[f] < g.h[e]) /\ ~(g.seq[f] < g.seq[e]) /\ ~(lru[l][f] < lru[l][e])
      BY <2>1, <2>3
    <3> QED
      BY <3>1 DEF Lighter, PopsBefore, Entry
  <2>4. CASE e # f /\ ~(lru[l][f] < lru[l][e])
    <3>1. lru[l][e] < lru[l][f]
      <4>1. lru[l][e] # lru[l][f]
        BY <2>4 DEF Agree
      <4> QED
        BY <2>1, <2>4, <4>1
    <3>2. g.seq[e] < g.seq[f] /\ g.h[e] <= g.h[f]
      BY <3>1 DEF Agree
    <3>3. ~(g.h[f] < g.h[e]) /\ ~(g.seq[f] < g.seq[e])
      BY <2>1, <3>2
    <3> QED
      BY <2>4, <3>3 DEF Lighter, PopsBefore, Entry
  <2> QED
    BY <2>2, <2>3, <2>4
<1> QED
  BY <1>2, <1>3

\* An entry is live if it is that of its expert, and stale otherwise.
LEMMA LiveIsEntry ==
    ASSUME TypeOK, NEW l \in Layers, HeapAgrees(l), NEW k \in gds[l].heap
    PROVE  Live(gds[l], k) <=> k.e \in Cached(gds[l].seq) /\ k = Entry(gds[l], k.e)
<1> DEFINE g == gds[l]
<1>1. g.seq \in [Experts -> Nat] /\ k \in Entries
  BY DEF TypeOK, Stamps
<1>2. k.e \in Experts /\ k.seq > 0
  BY <1>1 DEF Entries, HeapAgrees
<1>3. ASSUME Live(g, k) PROVE k.e \in Cached(g.seq) /\ k = Entry(g, k.e)
  <2>1. g.seq[k.e] = k.seq
    BY <1>3 DEF Live
  <2>2. k.e \in Cached(g.seq)
    BY <1>2, <2>1 DEF Cached
  <2>3. Entry(g, k.e) \in g.heap /\ Entry(g, k.e).seq = k.seq
    BY <2>1, <2>2 DEF HeapAgrees, Entry
  <2> QED
    BY <2>2, <2>3 DEF HeapAgrees
<1>4. ASSUME k = Entry(g, k.e) PROVE Live(g, k)
  <2>1. k.seq = g.seq[k.e]
    BY <1>4 DEF Entry
  <2> QED
    BY <2>1 DEF Live
<1> QED
  BY <1>3, <1>4

\* What popped entries leave in the cache.
LEMMA BesideIs ==
    ASSUME TypeOK, NEW l \in Layers, HeapAgrees(l), NEW K \in SUBSET gds[l].heap
    PROVE  Beside(gds[l], K) = {e \in Cached(gds[l].seq) : Entry(gds[l], e) \notin K}
<1> DEFINE g == gds[l]
           R == Cached(g.seq)
<1>1. ASSUME NEW k \in K, Live(g, k) PROVE k = Entry(g, k.e)
  BY <1>1, LiveIsEntry
<1>2. ASSUME NEW e \in R, Entry(g, e) \in K
      PROVE  \E k \in K : Live(g, k) /\ k.e = e
  <2>1. Live(g, Entry(g, e)) /\ Entry(g, e).e = e
    BY DEF Live, Entry
  <2> QED
    BY <1>2, <2>1
<1> HIDE DEF g, R
<1>3. \A e \in R : Entry(g, e) \in K <=> \E k \in K : Live(g, k) /\ k.e = e
  BY <1>1, <1>2
<1>4. Beside(g, K) = R \ {k.e : k \in {j \in K : Live(g, j)}}
  BY DEF Beside, Victims, R
<1>5. Beside(g, K) = {e \in R : Entry(g, e) \notin K}
  BY <1>3, <1>4
<1> QED
  BY <1>5 DEF g, R

\* Entries popped until the rest fits leave what byte-LRU keeps.
LEMMA SameStay ==
    ASSUME TypeOK, NEW l \in Layers, Agree(l), HeapAgrees(l), NEW room \in Int
    PROVE  Beside(gds[l], Popped(l, gds[l], room))
         = Staying(l, Cached(lru[l]), room, LAMBDA f, e : lru[l][f] < lru[l][e])
<1> DEFINE g == gds[l]
           a == lru[l]
           R == Cached(a)
           young(k) == {f \in R : ~ (a[f] < a[k])}
           ahead(k) == {j \in g.heap : PopsBefore(j, Entry(g, k))}
           popped == Popped(l, g, room)
<1>1. /\ Cached(g.seq) = R
      /\ \A e, k \in R : PopsBefore(Entry(g, e), Entry(g, k)) <=> a[e] < a[k]
      /\ \A e \in R : Entry(g, e) \in g.heap
  BY SameOrder DEF Lighter, HeapAgrees
<1>2. \A e \in R : a[e] \in Nat
  BY DEF TypeOK, Stamps, Cached
<1>3. ASSUME NEW k \in R PROVE Beside(g, ahead(k)) = young(k)
  <2>1. Beside(g, ahead(k)) = {e \in R : Entry(g, e) \notin ahead(k)}
    <3>1. ahead(k) \in SUBSET g.heap
      OBVIOUS
    <3> HIDE DEF ahead
    <3> QED
      BY <1>1, <3>1, BesideIs
  <2>2. \A e \in R : Entry(g, e) \in ahead(k) <=> a[e] < a[k]
    BY <1>1
  <2> HIDE DEF g, a, R, ahead
  <2> QED
    BY <2>1, <2>2
<1>4. \A e \in R : Entry(g, e) \in popped <=> Weight(l, young(e)) > room
  <2> SUFFICES ASSUME NEW e \in R PROVE Entry(g, e) \in popped <=> Weight(l, young(e)) > room
    OBVIOUS
  <2>1. Entry(g, e) \in popped <=> Weight(l, Beside(g, ahead(e))) > room
    BY <1>1 DEF Popped
  <2> QED
    BY <1>3, <2>1
<1>5. Beside(g, popped) = {e \in R : Entry(g, e) \notin popped}
  <2>1. popped \in SUBSET g.heap
    BY DEF Popped
  <2> HIDE DEF popped
  <2> QED
    BY <1>1, <2>1, BesideIs
<1>6. ASSUME NEW e \in R, NEW k \in R, ~ (a[e] < a[k])
      PROVE  Weight(l, young(e)) \in Nat /\ Weight(l, young(k)) \in Nat
             /\ Weight(l, young(e)) <= Weight(l, young(k))
  <2>1. young(e) \in SUBSET young(k)
    BY <1>2, <1>6
  <2>2. young(e) \in SUBSET Experts /\ young(k) \in SUBSET Experts /\ case \in Studies
    BY DEF Cached, TypeOK
  <2> HIDE DEF young
  <2> QED
    BY <2>1, <2>2, WeightFacts
<1> HIDE DEF g, a, R, popped
<1>7. \A e \in R : ~ (a[e] < a[e])
  BY <1>2
<1>8. ASSUME NEW e \in R
      PROVE  Entry(g, e) \notin popped <=> \E k \in R : ~ (a[e] < a[k]) /\ Weight(l, young(k)) <= room
  <2> HIDE DEF young
  <2>1. ASSUME Entry(g, e) \notin popped PROVE Weight(l, young(e)) <= room
    <3>1. ~ (Weight(l, young(e)) > room) /\ Weight(l, young(e)) \in Nat
      BY <1>4, <1>6, <1>7, <2>1
    <3> QED
      BY <3>1
  <2>2. ASSUME NEW k \in R, ~ (a[e] < a[k]), Weight(l, young(k)) <= room
        PROVE  Entry(g, e) \notin popped
    <3>1. ~ (Weight(l, young(e)) > room)
      BY <1>6, <2>2
    <3> QED
      BY <1>4, <3>1
  <2> QED
    BY <1>7, <2>1, <2>2
<1>9. Beside(g, popped) = {e \in R : \E k \in R : ~ (a[e] < a[k]) /\ Weight(l, young(k)) <= room}
  BY <1>5, <1>8
<1> QED
  BY <1>9 DEF g, a, R, popped, Staying

\* An entry pushed at a level that no survivor lies below.
LEMMA PushAgrees ==
    ASSUME TypeOK, NEW l \in Layers, Agree(l),
           NEW x \in Experts, NEW S \in SUBSET Cached(lru[l]), NEW level \in Nat,
           NEW popped, S = Beside(gds[l], popped),
           gds[l].level <= level,
           \A e \in S : level <= gds[l].h[e],
           at'[l] = at[l] + 1,
           lru'[l] = Joined(lru[l], S, x, at[l] + 1),
           gds'[l] = Push(gds[l], popped, x, level)
    PROVE  Agree(l)'
<1> DEFINE a == lru[l]
           g == gds[l]
           b == lru'[l]
           k == gds'[l]
           t == at[l] + 1
           T == {x} \cup S
<1>1. /\ a \in [Experts -> Nat] /\ g.h \in [Experts -> Nat] /\ g.seq \in [Experts -> Nat]
      /\ g.n \in Nat /\ g.level \in Nat /\ at[l] \in Nat
  BY DEF TypeOK, Stamps
<1>2. /\ k.h = Joined(g.h, S, x, level + 1) /\ k.seq = Joined(g.seq, S, x, g.n + 1)
      /\ k.n = g.n + 1 /\ k.level = level
  BY DEF Push
<1>3. S \subseteq Experts
  BY DEF Cached
<1>4. /\ b[x] = t /\ k.h[x] = level + 1 /\ k.seq[x] = g.n + 1
      /\ \A e \in S \ {x} : b[e] = a[e] /\ k.h[e] = g.h[e] /\ k.seq[e] = g.seq[e]
      /\ \A e \in Experts \ T : b[e] = 0 /\ k.h[e] = 0 /\ k.seq[e] = 0
  BY <1>2, <1>3 DEF Joined, Only
<1>5. \A e \in S : a[e] > 0 /\ g.seq[e] > 0 /\ a[e] <= at[l] /\ g.seq[e] <= g.n
  BY <1>3 DEF Agree, Cached
<1>6. Cached(b) = T
  BY <1>1, <1>3, <1>4, <1>5 DEF Cached
<1>7. \A e \in S : level <= g.h[e] /\ g.h[e] <= level + 1
  BY <1>1, <1>3 DEF Agree
<1> HIDE DEF a, g, b, k, T
<1>8. \A e \in Experts : b[e] <= at'[l] /\ k.seq[e] <= k.n
  <2> SUFFICES ASSUME NEW e \in Experts PROVE b[e] <= t /\ k.seq[e] <= g.n + 1
    BY <1>2
  <2>1. CASE e \in S \ {x}
    BY <1>1, <1>4, <1>5, <2>1
  <2>2. CASE e = x
    BY <1>1, <1>4, <2>2
  <2>3. CASE e \in Experts \ T
    BY <1>1, <1>4, <2>3
  <2> QED
    BY <2>1, <2>2, <2>3 DEF T
<1>9. \A e \in Experts : b[e] > 0 <=> k.seq[e] > 0
  <2> SUFFICES ASSUME NEW e \in Experts PROVE b[e] > 0 <=> k.seq[e] > 0
    OBVIOUS
  <2>1. CASE e \in S \ {x}
    BY <1>4, <1>5, <2>1
  <2>2. CASE e = x
    <3>1. b[e] > 0 /\ k.seq[e] > 0
      BY <1>1, <1>4, <2>2
    <3> QED
      BY <3>1
  <2>3. CASE e \in Experts \ T
    <3>1. ~(b[e] > 0) /\ ~(k.seq[e] > 0)
      BY <1>4, <2>3
    <3> QED
      BY <3>1
  <2> QED
    BY <2>1, <2>2, <2>3 DEF T
<1>10. ASSUME NEW e \in T, NEW f \in T
       PROVE  /\ e # f => b[e] # b[f]
              /\ k.seq[e] < k.seq[f] <=> b[e] < b[f]
              /\ k.seq[e] < k.seq[f] => k.h[e] <= k.h[f]
  <2> SUFFICES ASSUME e # f
               PROVE  /\ b[e] # b[f]
                      /\ k.seq[e] < k.seq[f] <=> b[e] < b[f]
                      /\ k.seq[e] < k.seq[f] => k.h[e] <= k.h[f]
    <3>1. e = f => ~(k.seq[e] < k.seq[f]) /\ ~(b[e] < b[f])
      <4>1. k.seq[e] \in Nat /\ b[e] \in Nat
        BY <1>1, <1>3, <1>4 DEF T
      <4> QED
        BY <4>1
    <3> QED
      BY <3>1
  <2>1. CASE e \in S \ {x} /\ f \in S \ {x}
    <3>1. /\ a[e] # a[f]
          /\ g.seq[e] < g.seq[f] <=> a[e] < a[f]
          /\ g.seq[e] < g.seq[f] => g.h[e] <= g.h[f]
      BY <2>1 DEF Agree, a, g
    <3> QED
      BY <1>4, <2>1, <3>1
  <2>2. CASE e = x /\ f \in S \ {x}
    <3>1. b[f] < b[e] /\ k.seq[f] < k.seq[e]
      BY <1>1, <1>3, <1>4, <1>5, <2>2
    <3>2. b[e] \in Nat /\ b[f] \in Nat /\ k.seq[e] \in Nat /\ k.seq[f] \in Nat
      BY <1>1, <1>3, <1>4, <2>2
    <3>3. b[e] # b[f] /\ ~(b[e] < b[f]) /\ ~(k.seq[e] < k.seq[f])
      BY <3>1, <3>2
    <3> QED
      BY <3>3
  <2>3. CASE e \in S \ {x} /\ f = x
    <3>1. b[e] < b[f] /\ k.seq[e] < k.seq[f]
      BY <1>1, <1>3, <1>4, <1>5, <2>3
    <3>2. b[e] # b[f]
      BY <1>1, <1>3, <1>4, <1>5, <2>3
    <3>3. k.h[e] <= k.h[f]
      BY <1>4, <1>7, <2>3
    <3> QED
      BY <3>1, <3>2, <3>3
  <2> QED
    BY <2>1, <2>2, <2>3 DEF T
<1>11. \A e \in T : k.level <= k.h[e] /\ k.h[e] <= k.level + 1
  <2> SUFFICES ASSUME NEW e \in T PROVE level <= k.h[e] /\ k.h[e] <= level + 1
    BY <1>2
  <2>1. CASE e \in S \ {x}
    BY <1>4, <1>7, <2>1
  <2>2. CASE e = x
    BY <1>4, <2>2
  <2> QED
    BY <2>1, <2>2 DEF T
<1> QED
  BY <1>6, <1>8, <1>9, <1>10, <1>11 DEF Agree, b, k

\* The heap after a push.
LEMMA PushHeap ==
    ASSUME TypeOK, NEW l \in Layers, HeapAgrees(l),
           NEW x \in Experts, NEW popped \in SUBSET gds[l].heap, NEW level \in Nat,
           gds'[l] = Push(gds[l], popped, x, level)
    PROVE  HeapAgrees(l)'
<1> DEFINE g == gds[l]
           k == gds'[l]
           new == [h |-> level + 1, seq |-> g.n + 1, e |-> x]
           stay == Beside(g, popped)
<1>1. /\ g.h \in [Experts -> Nat] /\ g.seq \in [Experts -> Nat] /\ g.n \in Nat
      /\ \A j \in g.heap : j.seq \in Nat
  <2>1. g.heap \in SUBSET Entries
    BY DEF TypeOK
  <2>2. \A j \in Entries : j.seq \in Nat
    BY DEF Entries
  <2> HIDE DEF g
  <2>3. \A j \in g.heap : j.seq \in Nat
    BY <2>1, <2>2
  <2> QED
    BY <2>3 DEF TypeOK, Stamps, g
<1>2. stay = {e \in Cached(g.seq) : Entry(g, e) \notin popped}
  BY BesideIs
<1>3. stay \subseteq Experts
  BY <1>2 DEF Cached
<1>4. /\ k.h = Joined(g.h, stay, x, level + 1) /\ k.seq = Joined(g.seq, stay, x, g.n + 1)
      /\ k.n = g.n + 1 /\ k.heap = (g.heap \ popped) \cup {new}
  BY DEF Push
<1> HIDE DEF stay
<1>5. /\ k.h[x] = level + 1 /\ k.seq[x] = g.n + 1
      /\ \A e \in stay \ {x} : k.h[e] = g.h[e] /\ k.seq[e] = g.seq[e]
      /\ \A e \in Experts \ ({x} \cup stay) : k.seq[e] = 0
  BY <1>3, <1>4 DEF Joined, Only
<1> HIDE DEF k
<1>6. ASSUME NEW e \in Cached(k.seq) PROVE Entry(k, e) \in k.heap
  <2>1. e \in {x} \cup stay
    BY <1>5 DEF Cached
  <2>2. CASE e = x
    BY <1>4, <1>5, <2>2 DEF Entry
  <2>3. CASE e \in stay \ {x}
    <3>1. Entry(k, e) = Entry(g, e)
      BY <1>5, <2>3 DEF Entry
    <3>2. Entry(g, e) \in g.heap /\ Entry(g, e) \notin popped
      BY <1>2, <2>3 DEF HeapAgrees
    <3> QED
      BY <1>4, <3>1, <3>2
  <2> QED
    BY <2>1, <2>2, <2>3
<1>7. \A j \in g.heap : j.seq > 0 /\ j.seq <= g.n
  BY DEF HeapAgrees
<1>8. new.seq = g.n + 1
  OBVIOUS
<1> HIDE DEF new, g
<1>9. \A j \in k.heap : j.seq > 0 /\ j.seq <= k.n
  <2>1. \A j \in g.heap : j.seq <= g.n + 1
    BY <1>1, <1>7
  <2>2. g.n + 1 > 0 /\ g.n + 1 <= g.n + 1
    BY <1>1
  <2> QED
    BY <1>4, <1>7, <1>8, <2>1, <2>2
<1>10. \A i, j \in k.heap : i.seq = j.seq => i = j
  <2>1. \A j \in g.heap : j.seq # g.n + 1
    BY <1>1, <1>7
  <2>2. \A i, j \in g.heap : i.seq = j.seq => i = j
    BY DEF HeapAgrees, g
  <2> QED
    BY <1>4, <1>8, <2>1, <2>2
<1> QED
  BY <1>6, <1>9, <1>10 DEF HeapAgrees, k

\* One request: both policies keep the same experts, and miss or hit together.
LEMMA AgreeStep ==
    ASSUME TypeOK, NEW l \in Layers, Request(l), Agree(l), HeapAgrees(l), SameMisses(l)
    PROVE  Agree(l)' /\ HeapAgrees(l)' /\ SameMisses(l)'
<1> DEFINE t == at[l] + 1
           x == case.stream[l][t]
           a == lru[l]
           g == gds[l]
           R == Cached(a)
<1>1. t \in Nat /\ x \in Experts /\ at[l] \in Nat
  BY RequestType DEF Request, TypeOK
<1>2. /\ at' = [at EXCEPT ![l] = t] /\ ByteLru(l, x, t) /\ Gds(l, x) /\ Count(l, x, t)
  BY DEF Request
<1>room. RoomBeside(l, x) \in Int
  BY RequestType DEF Request, RoomBeside, TypeOK, Studies
<1> HIDE DEF t, x
<1>3. /\ a \in [Experts -> Nat] /\ g.h \in [Experts -> Nat] /\ g.seq \in [Experts -> Nat]
      /\ g.n \in Nat /\ g.level \in Nat /\ at'[l] = t
      /\ lru \in [Layers -> Stamps] /\ gds \in [Layers -> Duals]
  BY <1>2 DEF TypeOK, Stamps, Duals
<1>4. Cached(g.seq) = R
  BY SameOrder
<1>5. SameMisses(l)'
  BY <1>2, <1>4 DEF SameMisses, Count, Policies, TypeOK
<1>6. CASE x \in R
  <2>1. lru'[l] = [a EXCEPT ![x] = t] /\ gds'[l] = Push(g, {}, x, g.level)
    BY <1>2, <1>3, <1>4, <1>6 DEF ByteLru, Gds
  <2>2. lru'[l] = Joined(a, R, x, t)
    <3>1. \A e \in Experts \ R : a[e] = 0
      BY <1>3 DEF Cached
    <3> QED
      BY <1>3, <2>1, <3>1 DEF Joined, Only
  <2>3. g.level <= g.level /\ \A e \in R : g.level <= g.h[e]
    BY <1>3 DEF Agree
  <2>4. R = Beside(g, {}) /\ {} \in SUBSET g.heap
    BY <1>4 DEF Beside, Victims
  <2>5. HeapAgrees(l)'
    BY <1>1, <1>3, <2>1, <2>4, PushHeap
  <2> QED
    BY <1>1, <1>3, <1>5, <2>1, <2>2, <2>3, <2>4, <2>5, PushAgrees DEF t
<1>7. CASE x \notin R /\ TooBig(l, x)
  <2>1. lru' = lru /\ gds' = gds
    BY <1>2, <1>4, <1>7 DEF ByteLru, Gds
  <2>2. \A e \in Experts : a[e] <= t
    BY <1>1, <1>3 DEF Agree, t
  <2> QED
    BY <1>3, <1>5, <2>1, <2>2 DEF Agree, HeapAgrees
<1>8. CASE x \notin R /\ ~ TooBig(l, x)
  <2> DEFINE stay == Staying(l, R, RoomBeside(l, x), LAMBDA f, e : a[f] < a[e])
             popped == Popped(l, g, RoomBeside(l, x))
             gone == Victims(g, popped)
  <2>1. stay = Beside(g, popped)
    BY <1>room, SameStay
  <2>2. lru'[l] = Joined(a, stay, x, t)
    BY <1>2, <1>3, <1>8 DEF ByteLru
  <2>3. stay \subseteq R
    BY DEF Staying
  <2>4. \/ gone = {} /\ gds'[l] = Push(g, popped, x, g.level)
        \/ \E last \in gone : /\ \A v \in gone : v = last \/ PopsBefore(v, last)
                              /\ gds'[l] = Push(g, popped, x, last.h)
    BY <1>2, <1>3, <1>4, <1>8 DEF Gds
  <2>5. \A v \in R \ stay, e \in stay : a[v] < a[e]
    <3> SUFFICES ASSUME NEW v \in R \ stay, NEW e \in stay PROVE a[v] < a[e]
      OBVIOUS
    <3>1. PICK k \in R : /\ ~(a[e] < a[k])
                         /\ Weight(l, {f \in R : ~(a[f] < a[k])}) <= RoomBeside(l, x)
      BY DEF Staying
    <3>2. a[v] < a[k]
      BY <3>1 DEF Staying
    <3>3. v \in R /\ e \in R
      BY <2>3
    <3> HIDE DEF stay
    <3>4. a[v] \in Nat /\ a[e] \in Nat /\ a[k] \in Nat
      BY <1>3, <3>3 DEF Cached
    <3> QED
      BY <3>1, <3>2, <3>4
  <2>pops. popped \in SUBSET g.heap
    BY DEF Popped
  <2> HIDE DEF stay, popped
  <2>6. CASE gone = {} /\ gds'[l] = Push(g, popped, x, g.level)
    <3>1. stay = R
      BY <1>4, <2>1, <2>6 DEF Beside
    <3>2. g.level <= g.level /\ \A e \in stay : g.level <= g.h[e]
      BY <1>3, <2>3 DEF Agree
    <3>3. HeapAgrees(l)'
      BY <1>1, <1>3, <2>6, <2>pops, PushHeap
    <3> QED
      BY <1>1, <1>3, <1>5, <2>1, <2>2, <2>6, <3>1, <3>2, <3>3, PushAgrees DEF t
  <2>7. ASSUME NEW last \in gone, gds'[l] = Push(g, popped, x, last.h)
        PROVE  Agree(l)' /\ HeapAgrees(l)'
    <3> DEFINE v == last.e
    <3>1. v \in R /\ last = Entry(g, v) /\ v \notin stay
      <4>1. last \in popped /\ Live(g, last)
        BY DEF Victims
      <4>2. v \in R /\ last = Entry(g, v)
        BY <1>4, <2>pops, <4>1, LiveIsEntry
      <4>3. v \notin Beside(g, popped)
        BY DEF Beside
      <4> QED
        BY <2>1, <4>2, <4>3
    <3>2. last.h = g.h[v] /\ v \in Experts /\ g.h[v] \in Nat
      BY <1>3, <3>1 DEF Cached, Entry
    <3> HIDE DEF v
    <3>3. g.level <= last.h
      BY <3>1, <3>2 DEF Agree
    <3>4. \A e \in stay : last.h <= g.h[e]
      <4> SUFFICES ASSUME NEW e \in stay PROVE g.h[v] <= g.h[e]
        BY <3>2
      <4>1. a[v] < a[e] /\ e \in R
        BY <2>3, <2>5, <3>1
      <4>2. g.seq[v] < g.seq[e]
        BY <3>1, <4>1 DEF Agree
      <4> QED
        BY <3>1, <4>1, <4>2 DEF Agree
    <3>5. last.h \in Nat
      BY <3>2
    <3>6. HeapAgrees(l)'
      BY <1>1, <1>3, <2>7, <2>pops, <3>5, PushHeap
    <3>7. Agree(l)'
      BY <1>1, <1>3, <2>1, <2>2, <2>3, <2>7, <3>3, <3>4, <3>5, PushAgrees DEF t
    <3> QED
      BY <3>6, <3>7
  <2> QED
    BY <1>5, <2>4, <2>6, <2>7
<1> QED
  BY <1>6, <1>7, <1>8

\* Everything about the heap of GreedyDual-Size that a request preserves.
GdsInv == TypeOK /\ \A l \in Layers : Agree(l) /\ HeapAgrees(l) /\ SameMisses(l)

LEMMA InitGds == Init => GdsInv
<1> SUFFICES ASSUME Init PROVE GdsInv
  OBVIOUS
<1>1. TypeOK
  BY InitTypes
<1>2. ASSUME NEW l \in Layers PROVE Agree(l) /\ HeapAgrees(l) /\ SameMisses(l)
  <2>1. Cached(lru[l]) = {} /\ Cached(gds[l].seq) = {} /\ gds[l].heap = {}
    BY DEF Init, Cached, Nothing
  <2>2. \A e \in Experts : lru[l][e] = 0 /\ gds[l].seq[e] = 0 /\ at[l] = 0 /\ gds[l].n = 0
    BY DEF Init, Nothing
  <2> QED
    BY <2>1, <2>2 DEF Agree, HeapAgrees, SameMisses, Init, Policies
<1> QED
  BY <1>1, <1>2 DEF GdsInv

LEMMA NextGds == GdsInv /\ [Next]_vars => GdsInv'
<1> SUFFICES ASSUME GdsInv, [Next]_vars PROVE GdsInv'
  OBVIOUS
<1>1. TypeOK'
  BY NextTypes DEF GdsInv
<1>2. CASE UNCHANGED vars
  BY <1>1, <1>2 DEF GdsInv, vars, Agree, HeapAgrees, SameMisses
<1>3. ASSUME NEW l \in Layers, Request(l), NEW k \in Layers
      PROVE  Agree(k)' /\ HeapAgrees(k)' /\ SameMisses(k)'
  <2>1. CASE k = l
    BY <1>3, <2>1, AgreeStep DEF GdsInv
  <2>2. CASE k # l
    <3>1. /\ at' = [at EXCEPT ![l] = at[l] + 1]
          /\ ByteLru(l, case.stream[l][at[l] + 1], at[l] + 1)
          /\ Gds(l, case.stream[l][at[l] + 1])
          /\ Count(l, case.stream[l][at[l] + 1], at[l] + 1)
      BY <1>3 DEF Request
    <3>2. at'[k] = at[k] /\ missed'[k] = missed[k]
      BY <2>2, <3>1 DEF Count, GdsInv, TypeOK
    <3>3. lru'[k] = lru[k]
      BY <2>2, <3>1 DEF ByteLru, Staying, GdsInv, TypeOK
    <3>4. gds'[k] = gds[k]
      BY <2>2, <3>1 DEF Gds, GdsInv, TypeOK
    <3> QED
      BY <3>2, <3>3, <3>4 DEF GdsInv, Agree, HeapAgrees, SameMisses
  <2> QED
    BY <2>1, <2>2
<1> QED
  BY <1>1, <1>2, <1>3 DEF Next, GdsInv

LEMMA GdsInvIsEnough == GdsInv => GdsIsLru
BY SameOrder DEF GdsInv, GdsIsLru, SameMisses

\* GreedyDual-Size with cost = size misses the requests that byte-LRU misses and
\* keeps the same experts, whatever the sizes, the budget and the streams.
THEOREM SpecGdsIsLru == Spec => []GdsIsLru
<1>1. Spec => []GdsInv
  BY InitGds, NextGds, PTL DEF Spec
<1> QED
  BY <1>1, GdsInvIsEnough, PTL

-----------------------------------------------------------------------------
(* Stack distances and slot-LRUs *)

\* The experts at the first c places of a stack.
Top(s, c) == {s[i] : i \in {j \in 1 .. Len(s) : j <= c}}

\* The LRU of c slots holds the top c of the stack, stamped in the order of the
\* stack, for every c at once: LRU caches of different sizes include one another.
Ranked(l) ==
    /\ \A i, j \in 1 .. Len(stack[l]) : stack[l][i] = stack[l][j] => i = j
    /\ \A c \in 0 .. MaxCap :
          /\ Cached(slots[l][c]) = Top(stack[l], c)
          /\ \A i, j \in 1 .. Len(stack[l]) :
                i < j /\ j <= c => slots[l][c][stack[l][j]] < slots[l][c][stack[l][i]]
          /\ \A e \in Experts : slots[l][c][e] <= at[l]

\* The distances tell which capacities missed.
Curves(l) ==
    /\ Len(dist[l]) = at[l]
    /\ \A c \in 0 .. MaxCap : slotMissed[l][c] = {i \in 1 .. at[l] : dist[l][i] > c}

LEMMA TopCardinality ==
    ASSUME NEW s \in Seq(Experts), NEW c \in Nat,
           \A i, j \in 1 .. Len(s) : s[i] = s[j] => i = j
    PROVE  Cardinality(Top(s, c)) = IF Len(s) <= c THEN Len(s) ELSE c
<1> DEFINE n == IF Len(s) <= c THEN Len(s) ELSE c
           F == [i \in 1 .. n |-> s[i]]
<1>1. n \in Nat /\ Len(s) \in Nat /\ n <= Len(s) /\ n <= c
  BY LenProperties
<1>2. \A i : i \in 1 .. n <=> i \in 1 .. Len(s) /\ i <= c
  BY <1>1
<1> HIDE DEF n
<1>3. F \in [1 .. n -> Top(s, c)]
  BY <1>2 DEF Top
<1>4. \A i, j \in 1 .. n : F[i] = F[j] => i = j
  BY <1>2
<1>5. \A e \in Top(s, c) : \E i \in 1 .. n : F[i] = e
  BY <1>2 DEF Top
<1>6. F \in Bijection(1 .. n, Top(s, c))
  BY <1>3, <1>4, <1>5, Fun_IsBij
<1>7. ExistsBijection(1 .. n, Top(s, c))
  BY <1>6 DEF ExistsBijection
<1> QED
  BY <1>1, <1>7, FS_CountingElements DEF n

\* What moving x from place d to the top does to the stack; d is one beyond the end
\* for an expert that is new.
Moved(s, r, x, d) ==
    /\ r \in Seq(Experts) /\ d \in 1 .. Len(s) + 1
    /\ d <= Len(s) => s[d] = x /\ Len(r) = Len(s)
    /\ d > Len(s) => Len(r) = d /\ \A i \in 1 .. Len(s) : s[i] # x
    /\ r[1] = x
    /\ \A i \in 1 .. Len(s) : i < d => r[i + 1] = s[i]
    /\ \A i \in 1 .. Len(s) : i > d => r[i] = s[i]

LEMMA MattsonMoves ==
    ASSUME TypeOK, NEW l \in Layers, NEW x \in Experts, Mattson(l, x)
    PROVE  \E d \in Nat :
              /\ Moved(stack[l], stack'[l], x, d)
              /\ dist'[l] = Append(dist[l], IF d <= Len(stack[l]) THEN d ELSE Inf(l))
<1> DEFINE s == stack[l]
           r == stack'[l]
<1>1. s \in Seq(Experts) /\ <<x>> \in Seq(Experts) /\ Len(s) \in Nat
  BY LenProperties DEF TypeOK
<1>2. r \in Seq(Experts)
  BY MattsonType
<1>3. Len(<<x>>) = 1 /\ <<x>>[1] = x
  OBVIOUS
<1>4. CASE /\ \A i \in 1 .. Len(s) : s[i] # x
           /\ dist'[l] = Append(dist[l], Inf(l))
           /\ r = <<x>> \o s
  <2> DEFINE d == Len(s) + 1
  <2>1. /\ Len(<<x>> \o s) = d
        /\ \A i \in 1 .. d : (<<x>> \o s)[i] = IF i <= 1 THEN x ELSE s[i - 1]
    BY <1>1, <1>3, ConcatProperties
  <2>2. r[1] = x
    BY <1>1, <1>4, <2>1
  <2>3. ASSUME NEW i \in 1 .. Len(s) PROVE r[i + 1] = s[i]
    <3>1. i + 1 \in 1 .. d /\ ~(i + 1 <= 1) /\ (i + 1) - 1 = i
      BY <1>1
    <3> QED
      BY <1>4, <2>1, <3>1
  <2>4. Moved(s, r, x, d)
    BY <1>1, <1>2, <1>4, <2>1, <2>2, <2>3 DEF Moved
  <2>5. d \in Nat /\ ~(d <= Len(s))
    BY <1>1
  <2> QED
    BY <1>4, <2>4, <2>5
<1>5. ASSUME NEW d \in 1 .. Len(s), s[d] = x,
             dist'[l] = Append(dist[l], d),
             r = <<x>> \o RemoveAt(s, d)
      PROVE  /\ Moved(s, r, x, d)
             /\ dist'[l] = Append(dist[l], IF d <= Len(s) THEN d ELSE Inf(l))
  <2> DEFINE u == SubSeq(s, 1, d - 1)
             v == SubSeq(s, d + 1, Len(s))
  <2>1. /\ \A j \in 1 .. d - 1 : s[j] \in Experts
        /\ \A j \in d + 1 .. Len(s) : s[j] \in Experts
    BY <1>1, ElementOfSeq
  <2>2. /\ u \in Seq(Experts) /\ Len(u) = d - 1
        /\ \A i \in 1 .. d - 1 : u[i] = s[i]
    <3>1. /\ u \in Seq(Experts) /\ Len(u) = IF 1 <= d - 1 THEN (d - 1) - 1 + 1 ELSE 0
          /\ \A i \in 1 .. (d - 1) - 1 + 1 : u[i] = s[1 + i - 1]
      BY <1>1, <2>1, SubSeqProperties
    <3> HIDE DEF u
    <3>2. (d - 1) - 1 + 1 = d - 1 /\ \A i \in 1 .. d - 1 : 1 + i - 1 = i
      BY <1>1
    <3> QED
      BY <1>1, <3>1, <3>2
  <2>3. /\ v \in Seq(Experts) /\ Len(v) = Len(s) - d
        /\ \A i \in 1 .. Len(s) - d : v[i] = s[d + i]
    <3>1. /\ v \in Seq(Experts) /\ Len(v) = IF d + 1 <= Len(s) THEN Len(s) - (d + 1) + 1 ELSE 0
          /\ \A i \in 1 .. Len(s) - (d + 1) + 1 : v[i] = s[(d + 1) + i - 1]
      BY <1>1, <2>1, SubSeqProperties
    <3> HIDE DEF v
    <3>2. Len(s) - (d + 1) + 1 = Len(s) - d /\ \A i \in 1 .. Len(s) - d : (d + 1) + i - 1 = d + i
      BY <1>1
    <3> QED
      BY <1>1, <3>1, <3>2
  <2> HIDE DEF u, v
  <2>4. /\ u \o v \in Seq(Experts) /\ Len(u \o v) = Len(s) - 1
        /\ \A i \in 1 .. Len(s) - 1 : (u \o v)[i] = IF i <= d - 1 THEN u[i] ELSE v[i - (d - 1)]
    <3>1. /\ u \o v \in Seq(Experts) /\ Len(u \o v) = Len(u) + Len(v)
          /\ \A i \in 1 .. Len(u) + Len(v) : (u \o v)[i] = IF i <= Len(u) THEN u[i] ELSE v[i - Len(u)]
      BY <2>2, <2>3, ConcatProperties
    <3>2. Len(u) + Len(v) = Len(s) - 1
      BY <1>1, <2>2, <2>3
    <3> QED
      BY <2>2, <3>1, <3>2
  <2>5. r = <<x>> \o (u \o v)
    BY <1>5 DEF RemoveAt, u, v
  <2>6. /\ Len(r) = Len(s)
        /\ \A i \in 1 .. Len(s) : r[i] = IF i <= 1 THEN x ELSE (u \o v)[i - 1]
    <3>1. /\ Len(r) = 1 + (Len(s) - 1)
          /\ \A i \in 1 .. 1 + (Len(s) - 1) : r[i] = IF i <= 1 THEN x ELSE (u \o v)[i - 1]
      BY <1>1, <1>3, <2>4, <2>5, ConcatProperties
    <3>2. 1 + (Len(s) - 1) = Len(s)
      BY <1>1
    <3> QED
      BY <3>1, <3>2
  <2>7. r[1] = x
    BY <1>1, <2>6
  <2>8. ASSUME NEW i \in 1 .. Len(s), i < d PROVE r[i + 1] = s[i]
    <3>1. i + 1 \in 1 .. Len(s) /\ ~(i + 1 <= 1) /\ (i + 1) - 1 = i
          /\ i \in 1 .. Len(s) - 1 /\ i <= d - 1 /\ i \in 1 .. d - 1
      BY <1>1, <2>8
    <3> QED
      BY <2>2, <2>4, <2>6, <3>1
  <2>9. ASSUME NEW i \in 1 .. Len(s), i > d PROVE r[i] = s[i]
    <3>1. ~(i <= 1) /\ i - 1 \in 1 .. Len(s) - 1 /\ ~(i - 1 <= d - 1)
          /\ (i - 1) - (d - 1) = i - d /\ i - d \in 1 .. Len(s) - d /\ d + (i - d) = i
      BY <1>1, <2>9
    <3>2. r[i] = v[i - d]
      BY <2>4, <2>6, <3>1
    <3> QED
      BY <2>3, <3>1, <3>2
  <2>10. d \in 1 .. Len(s) + 1 /\ d <= Len(s) /\ ~(d > Len(s))
    BY <1>1
  <2> QED
    BY <1>2, <1>5, <2>6, <2>7, <2>8, <2>9, <2>10 DEF Moved
<1>6. DOMAIN s = 1 .. Len(s)
  BY <1>1, LenProperties
<1>7. \/ /\ \A i \in 1 .. Len(s) : s[i] # x
         /\ dist'[l] = Append(dist[l], Inf(l))
         /\ r = <<x>> \o s
      \/ \E d \in 1 .. Len(s) : /\ s[d] = x
                               /\ dist'[l] = Append(dist[l], d)
                               /\ r = <<x>> \o RemoveAt(s, d)
  <2>1. dist \in [Layers -> Seq(Nat)] /\ stack \in [Layers -> Seq(Experts)]
    BY DEF TypeOK
  <2> QED
    BY <1>6, <2>1 DEF Mattson
<1>8. \A d \in 1 .. Len(s) : d \in Nat
  BY <1>1
<1> QED
  BY <1>4, <1>5, <1>7, <1>8

LEMMA SlotType ==
    ASSUME NEW l \in Layers, NEW c \in 0 .. MaxCap
    PROVE  /\ TypeOK => slots[l][c] \in Stamps
           /\ TypeOK' => slots'[l][c] \in Stamps
<1>1. TypeOK => slots[l] \in [0 .. MaxCap -> Stamps]
  BY DEF TypeOK
<1>2. TypeOK' => slots'[l] \in [0 .. MaxCap -> Stamps]
  BY DEF TypeOK
<1> QED
  BY <1>1, <1>2

\* An expert is cached by c slots exactly if it is within the top c of the stack.
LEMMA HitIffShallow ==
    ASSUME TypeOK, NEW l \in Layers, Ranked(l), NEW x \in Experts,
           NEW d \in Nat, Moved(stack[l], stack'[l], x, d), NEW c \in 0 .. MaxCap
    PROVE  x \in Cached(slots[l][c]) <=> d <= Len(stack[l]) /\ d <= c
<1> DEFINE s == stack[l]
<1>1. s \in Seq(Experts) /\ Len(s) \in Nat /\ c \in Nat
  BY CachePoliciesAssumption, LenProperties DEF TypeOK, CachePoliciesAssumption
<1>2. Cached(slots[l][c]) = Top(s, c)
  BY DEF Ranked
<1>3. CASE d <= Len(s)
  <2>1. d \in 1 .. Len(s) /\ s[d] = x
    BY <1>1, <1>3 DEF Moved
  <2>2. \A i \in 1 .. Len(s) : s[i] = x => i = d
    BY <2>1 DEF Ranked
  <2> QED
    BY <1>2, <1>3, <2>1, <2>2 DEF Top
<1>4. CASE ~(d <= Len(s))
  <2>1. \A i \in 1 .. Len(s) : s[i] # x
    BY <1>1, <1>4 DEF Moved
  <2> QED
    BY <1>2, <1>4, <2>1 DEF Top
<1> QED
  BY <1>3, <1>4

\* What is left of the old entries: those that are still within the top c.
LEMMA SlotEntries ==
    ASSUME TypeOK, NEW l \in Layers, Ranked(l), NEW x \in Experts,
           NEW d \in Nat, Moved(stack[l], stack'[l], x, d), NEW c \in 0 .. MaxCap,
           SlotLru(l, x, at[l] + 1)
    PROVE  /\ c = 0 => slots'[l][c] = slots[l][c]
           /\ c > 0 => slots'[l][c][x] = at[l] + 1
           /\ c > 0 => \A i \in 1 .. Len(stack[l]) : i # d =>
                 slots'[l][c][stack[l][i]] =
                     IF (i < d /\ i + 1 <= c) \/ (i > d /\ i <= c)
                     THEN slots[l][c][stack[l][i]] ELSE 0
           /\ c > 0 => \A e \in Experts : e # x /\ (\A i \in 1 .. Len(stack[l]) : stack[l][i] # e) =>
                 slots'[l][c][e] = 0
<1> DEFINE s == stack[l]
           q == slots[l][c]
           R == Cached(q)
           t == at[l] + 1
           stay == {e \in R : Cardinality(R) < c \/ \E f \in R : q[f] < q[e]}
           p == slots'[l][c]
<1>1. /\ s \in Seq(Experts) /\ Len(s) \in Nat /\ c \in Nat /\ at[l] \in Nat
      /\ q \in [Experts -> Nat] /\ \A i \in 1 .. Len(s) : s[i] \in Experts
  <2>1. s \in Seq(Experts) /\ q \in [Experts -> Nat] /\ at[l] \in Nat
    <3>1. s \in Seq(Experts) /\ at[l] \in Nat
      BY DEF TypeOK
    <3>2. q \in Stamps
      BY SlotType
    <3> QED
      BY <3>1, <3>2 DEF Stamps
  <2>2. Len(s) \in Nat /\ \A i \in 1 .. Len(s) : s[i] \in Experts
    BY <2>1, LenProperties, ElementOfSeq
  <2>3. c \in Nat
    BY CachePoliciesAssumption DEF CachePoliciesAssumption
  <2> QED
    BY <2>1, <2>2, <2>3
<1>2. p = IF x \in R THEN [q EXCEPT ![x] = t] ELSE IF c = 0 THEN q ELSE Joined(q, stay, x, t)
  BY DEF SlotLru, TypeOK
<1>3. /\ R = Top(s, c)
      /\ \A i, j \in 1 .. Len(s) : i < j /\ j <= c => q[s[j]] < q[s[i]]
      /\ \A i, j \in 1 .. Len(s) : s[i] = s[j] => i = j
  BY DEF Ranked
<1>4. x \in R <=> d <= Len(s) /\ d <= c
  BY HitIffShallow
<1>5. d \in 1 .. Len(s) + 1 /\ \A i \in 1 .. Len(s) : i # d => s[i] # x
  <2>1. d \in 1 .. Len(s) + 1
    BY DEF Moved
  <2>2. ASSUME NEW i \in 1 .. Len(s), i # d PROVE s[i] # x
    <3>1. CASE d <= Len(s)
      <4>1. d \in 1 .. Len(s) /\ s[d] = x
        BY <1>1, <2>1, <3>1 DEF Moved
      <4> QED
        BY <1>3, <2>2, <4>1
    <3>2. CASE d > Len(s)
      BY <3>2 DEF Moved
    <3> QED
      BY <1>1, <2>1, <3>1, <3>2
  <2> QED
    BY <2>1, <2>2
<1>6. \A i \in 1 .. Len(s) : s[i] \in R <=> i <= c
  BY <1>3 DEF Top
<1>7. \A e \in Experts : (\A i \in 1 .. Len(s) : s[i] # e) => e \notin R
  BY <1>3 DEF Top
<1>8. \A e \in Experts : e \notin R => q[e] = 0
  BY <1>1 DEF Cached
<1>9. Cardinality(R) = IF Len(s) <= c THEN Len(s) ELSE c
  BY <1>1, <1>3, TopCardinality
<1> HIDE DEF R, q, s, p
<1>10. CASE c = 0
  <2>1. x \notin R
    BY <1>1, <1>4, <1>5, <1>10
  <2> QED
    BY <1>2, <1>10, <2>1 DEF p, q
<1>11. CASE c > 0 /\ x \in R
  <2>1. p = [q EXCEPT ![x] = t]
    BY <1>2, <1>11
  <2>2. p[x] = t /\ \A e \in Experts : e # x => p[e] = q[e]
    BY <1>1, <2>1
  <2>3. ASSUME NEW i \in 1 .. Len(s), i # d
        PROVE  p[s[i]] = IF (i < d /\ i + 1 <= c) \/ (i > d /\ i <= c) THEN q[s[i]] ELSE 0
    <3>1. p[s[i]] = q[s[i]]
      BY <1>1, <1>5, <2>2, <2>3
    <3>2. CASE i <= c
      <4>1. (i < d /\ i + 1 <= c) \/ (i > d /\ i <= c)
        BY <1>1, <1>4, <1>5, <1>11, <2>3, <3>2
      <4> QED
        BY <3>1, <4>1
    <3>3. CASE ~(i <= c)
      <4>1. q[s[i]] = 0
        BY <1>1, <1>6, <1>8, <3>3
      <4> QED
        BY <3>1, <4>1
    <3> QED
      BY <3>2, <3>3
  <2>4. \A e \in Experts : e # x /\ (\A i \in 1 .. Len(s) : s[i] # e) => p[e] = 0
    BY <1>7, <1>8, <2>2
  <2> QED
    BY <1>11, <2>2, <2>3, <2>4 DEF p, q, s
<1>12. CASE c > 0 /\ x \notin R
  <2>1. p = Joined(q, stay, x, t)
    BY <1>1, <1>2, <1>12
  <2>2. p[x] = t /\ \A e \in Experts : e # x => p[e] = IF e \in stay THEN q[e] ELSE 0
    BY <2>1 DEF Joined, Only
  <2>3. c < d \/ (d = Len(s) + 1 /\ Len(s) < c)
    BY <1>1, <1>4, <1>5, <1>12
  <2>4. ASSUME NEW i \in 1 .. Len(s)
        PROVE  s[i] \in stay <=> (i < d /\ i + 1 <= c) \/ (i > d /\ i <= c)
    <3>1. CASE ~(i <= c)
      <4>1. s[i] \notin stay
        BY <1>6, <3>1
      <4>2. ~(i + 1 <= c)
        BY <1>1, <3>1
      <4> QED
        BY <3>1, <4>1, <4>2
    <3>2. CASE i <= c /\ Len(s) < c
      <4>1. Cardinality(R) < c
        BY <1>1, <1>9, <3>2
      <4>2. s[i] \in stay
        BY <1>6, <3>2, <4>1
      <4>3. (i < d /\ i + 1 <= c) \/ (i > d /\ i <= c)
        BY <1>1, <1>5, <2>3, <3>2
      <4> QED
        BY <4>2, <4>3
    <3>3. CASE i < c /\ ~(Len(s) < c)
      <4>1. c \in 1 .. Len(s) /\ s[c] \in R /\ q[s[c]] < q[s[i]]
        BY <1>1, <1>3, <1>6, <1>12, <3>3
      <4>2. s[i] \in stay
        BY <1>1, <1>6, <3>3, <4>1
      <4>3. i < d /\ i + 1 <= c
        BY <1>1, <1>5, <2>3, <3>3
      <4> QED
        BY <4>2, <4>3
    <3>4. CASE i = c /\ ~(Len(s) < c)
      <4>1. ~(Cardinality(R) < c)
        BY <1>1, <1>9, <3>4
      <4>2. ASSUME NEW f \in R PROVE ~(q[f] < q[s[i]])
        <5>1. PICK j \in 1 .. Len(s) : j <= c /\ f = s[j]
          BY <1>3 DEF Top
        <5>2. CASE j < c
          <6>1. q[s[c]] < q[s[j]]
            <7>1. c \in 1 .. Len(s) /\ c <= c
              BY <1>1, <3>4
            <7> QED
              BY <1>3, <5>2, <7>1
          <6>2. q[s[c]] \in Nat /\ q[s[j]] \in Nat
            BY <1>1, <3>4
          <6> QED
            BY <3>4, <5>1, <6>1, <6>2
        <5>3. CASE j = c
          <6>1. q[s[c]] \in Nat
            BY <1>1, <3>4
          <6> QED
            BY <3>4, <5>1, <5>3, <6>1
        <5> QED
          BY <1>1, <5>1, <5>2, <5>3
      <4>3. s[i] \notin stay
        BY <4>1, <4>2
      <4>4. ~(i + 1 <= c) /\ ~(i > d)
        BY <1>1, <2>3, <3>4
      <4> QED
        BY <4>3, <4>4
    <3> QED
      BY <1>1, <3>1, <3>2, <3>3, <3>4
  <2>5. \A e \in Experts : (\A i \in 1 .. Len(s) : s[i] # e) => e \notin stay
    BY <1>7
  <2> HIDE DEF stay
  <2>6. ASSUME NEW i \in 1 .. Len(s), i # d
        PROVE  p[s[i]] = IF (i < d /\ i + 1 <= c) \/ (i > d /\ i <= c) THEN q[s[i]] ELSE 0
    BY <1>1, <1>5, <2>2, <2>4, <2>6
  <2> QED
    BY <1>12, <2>2, <2>5, <2>6 DEF p, q, s
<1> QED
  BY <1>1, <1>10, <1>11, <1>12

\* The top of the stack after a request and what c slots hold then.
LEMMA RankedStep ==
    ASSUME TypeOK, TypeOK', NEW l \in Layers, Ranked(l), NEW x \in Experts,
           NEW d \in Nat, Moved(stack[l], stack'[l], x, d),
           SlotLru(l, x, at[l] + 1), at'[l] = at[l] + 1
    PROVE  Ranked(l)'
<1> DEFINE s == stack[l]
           r == stack'[l]
           t == at[l] + 1
           From(j) == IF j <= d THEN j - 1 ELSE j   \* where the expert at place j was
<1>1. /\ Len(s) \in Nat /\ Len(r) \in Nat /\ at[l] \in Nat /\ t \in Nat
      /\ d \in 1 .. Len(s) + 1 /\ r[1] = x
      /\ \A i \in 1 .. Len(s) : s[i] \in Experts
  <2>1. s \in Seq(Experts) /\ r \in Seq(Experts) /\ at[l] \in Nat
    BY DEF TypeOK, Moved
  <2> QED
    BY <2>1, LenProperties, ElementOfSeq DEF Moved
<1>2. Len(r) = IF d <= Len(s) THEN Len(s) ELSE d
  BY <1>1 DEF Moved
<1>3. \A i, j \in 1 .. Len(s) : s[i] = s[j] => i = j
  BY DEF Ranked
<1>4. \A i \in 1 .. Len(s) : i # d => s[i] # x
  <2> SUFFICES ASSUME NEW i \in 1 .. Len(s), i # d PROVE s[i] # x
    OBVIOUS
  <2>1. CASE d <= Len(s)
    <3>1. d \in 1 .. Len(s) /\ s[d] = x
      BY <1>1, <2>1 DEF Moved
    <3> QED
      BY <1>3, <3>1
  <2>2. CASE d > Len(s)
    BY <2>2 DEF Moved
  <2> QED
    BY <1>1, <2>1, <2>2
<1>5. ASSUME NEW j \in 2 .. Len(r)
      PROVE  /\ From(j) \in 1 .. Len(s) /\ From(j) # d /\ r[j] = s[From(j)] /\ r[j] # x
             /\ (From(j) < d /\ From(j) + 1 = j) \/ (From(j) > d /\ From(j) = j)
  <2>1. CASE j <= d
    <3>1. j - 1 \in 1 .. Len(s) /\ j - 1 < d /\ (j - 1) + 1 = j
      BY <1>1, <2>1
    <3>2. r[(j - 1) + 1] = s[j - 1]
      BY <3>1 DEF Moved
    <3>3. From(j) = j - 1 /\ r[j] = s[j - 1] /\ j - 1 # d
      BY <1>1, <2>1, <3>1, <3>2
    <3>4. s[j - 1] # x
      BY <1>4, <3>1, <3>3
    <3> QED
      BY <3>1, <3>3, <3>4
  <2>2. CASE j > d
    <3>1. j \in 1 .. Len(s)
      BY <1>1, <1>2, <2>2
    <3>2. r[j] = s[j]
      BY <2>2, <3>1 DEF Moved
    <3> QED
      BY <1>1, <1>4, <2>2, <3>1, <3>2
  <2> QED
    BY <1>1, <2>1, <2>2
<1>6. \A i, j \in 2 .. Len(r) : i < j => From(i) < From(j)
  BY <1>1
<1>7. ASSUME NEW i \in 1 .. Len(r), NEW j \in 1 .. Len(r), r[i] = r[j] PROVE i = j
  <2>1. CASE i = 1 \/ j = 1
    BY <1>1, <1>5, <1>7, <2>1
  <2>2. CASE i # 1 /\ j # 1
    <3>1. i \in 2 .. Len(r) /\ j \in 2 .. Len(r)
      BY <1>1, <2>2
    <3>2. From(i) = From(j)
      BY <1>3, <1>5, <1>7, <3>1
    <3>3. ~(i < j) /\ ~(j < i)
      BY <1>1, <1>5, <1>6, <3>1, <3>2
    <3> QED
      BY <1>1, <3>3
  <2> QED
    BY <2>1, <2>2
<1> HIDE DEF From
<1>8. ASSUME NEW c \in 0 .. MaxCap
      PROVE  /\ Cached(slots'[l][c]) = Top(r, c)
             /\ \A i, j \in 1 .. Len(r) : i < j /\ j <= c => slots'[l][c][r[j]] < slots'[l][c][r[i]]
             /\ \A e \in Experts : slots'[l][c][e] <= t
  <2> DEFINE q == slots[l][c]
             p == slots'[l][c]
  <2>1. /\ c \in Nat /\ q \in [Experts -> Nat] /\ p \in [Experts -> Nat]
    <3>1. c \in Nat
      BY CachePoliciesAssumption DEF CachePoliciesAssumption
    <3>2. q \in Stamps /\ p \in Stamps
      BY SlotType
    <3> QED
      BY <3>1, <3>2 DEF Stamps
  <2>2. /\ Cached(q) = Top(s, c)
        /\ \A i, j \in 1 .. Len(s) : i < j /\ j <= c => q[s[j]] < q[s[i]]
        /\ \A e \in Experts : q[e] <= at[l]
    BY DEF Ranked
  <2> HIDE DEF p, q
  <2>3. CASE c = 0
    <3>1. p = q
      BY <2>3, SlotEntries DEF p, q
    <3>2. Top(s, c) = {} /\ Top(r, c) = {}
      BY <1>1, <2>3 DEF Top
    <3>3. Cached(p) = Top(r, c)
      BY <2>2, <3>1, <3>2
    <3>4. \A i, j \in 1 .. Len(r) : ~(j <= c)
      BY <1>1, <2>3
    <3>5. \A e \in Experts : p[e] <= t
      BY <1>1, <2>1, <2>2, <3>1
    <3> QED
      BY <3>3, <3>4, <3>5 DEF p
  <2>4. CASE c > 0
    <3>1. /\ p[x] = t
          /\ \A i \in 1 .. Len(s) : i # d =>
                p[s[i]] = IF (i < d /\ i + 1 <= c) \/ (i > d /\ i <= c) THEN q[s[i]] ELSE 0
          /\ \A e \in Experts : e # x /\ (\A i \in 1 .. Len(s) : s[i] # e) => p[e] = 0
      BY <2>4, SlotEntries DEF p, q
    <3>2. \A i \in 1 .. Len(s) : i <= c => q[s[i]] > 0
      <4> SUFFICES ASSUME NEW i \in 1 .. Len(s), i <= c PROVE q[s[i]] > 0
        OBVIOUS
      <4>1. s[i] \in Top(s, c)
        BY DEF Top
      <4> QED
        BY <2>2, <4>1 DEF Cached
    <3>3. \A j \in 2 .. Len(r) : p[r[j]] = IF j <= c THEN q[s[From(j)]] ELSE 0
      <4> SUFFICES ASSUME NEW j \in 2 .. Len(r) PROVE p[r[j]] = IF j <= c THEN q[s[From(j)]] ELSE 0
        OBVIOUS
      <4>1. /\ From(j) \in 1 .. Len(s) /\ From(j) # d /\ r[j] = s[From(j)]
            /\ (From(j) < d /\ From(j) + 1 = j) \/ (From(j) > d /\ From(j) = j)
        BY <1>5
      <4>2. p[r[j]] = IF (From(j) < d /\ From(j) + 1 <= c) \/ (From(j) > d /\ From(j) <= c)
                      THEN q[s[From(j)]] ELSE 0
        BY <3>1, <4>1
      <4>3. ((From(j) < d /\ From(j) + 1 <= c) \/ (From(j) > d /\ From(j) <= c)) <=> j <= c
        <5>1. CASE From(j) < d /\ From(j) + 1 = j
          <6>1. ~(From(j) > d)
            BY <1>1, <4>1, <5>1
          <6> QED
            BY <5>1, <6>1
        <5>2. CASE From(j) > d /\ From(j) = j
          <6>1. ~(From(j) < d)
            BY <1>1, <4>1, <5>2
          <6> QED
            BY <5>2, <6>1
        <5> QED
          BY <4>1, <5>1, <5>2
      <4> QED
        BY <4>2, <4>3
    <3>4. ASSUME NEW j \in 2 .. Len(r), j <= c
          PROVE  From(j) \in 1 .. Len(s) /\ From(j) <= c
      <4>1. /\ From(j) \in 1 .. Len(s)
            /\ (From(j) < d /\ From(j) + 1 = j) \/ (From(j) > d /\ From(j) = j)
        BY <1>5
      <4> QED
        BY <1>1, <2>1, <3>4, <4>1
    <3>5. ASSUME NEW e \in Experts PROVE p[e] > 0 <=> e \in Top(r, c)
      <4>1. CASE e = x
        <5>1. p[e] > 0
          BY <1>1, <3>1, <4>1
        <5>2. 1 \in 1 .. Len(r) /\ 1 <= c
          BY <1>1, <1>2, <2>1, <2>4
        <5> QED
          BY <1>1, <4>1, <5>1, <5>2 DEF Top
      <4>2. CASE e # x /\ \A i \in 1 .. Len(s) : s[i] # e
        <5>1. ~(p[e] > 0)
          BY <3>1, <4>2
        <5>2. \A j \in 1 .. Len(r) : r[j] # e
          <6> SUFFICES ASSUME NEW j \in 1 .. Len(r) PROVE r[j] # e
            OBVIOUS
          <6>1. j = 1 \/ j \in 2 .. Len(r)
            BY <1>1
          <6>2. CASE j = 1
            BY <1>1, <4>2, <6>2
          <6>3. CASE j \in 2 .. Len(r)
            <7>1. From(j) \in 1 .. Len(s) /\ r[j] = s[From(j)]
              BY <1>5, <6>3
            <7> QED
              BY <4>2, <7>1
          <6> QED
            BY <6>1, <6>2, <6>3
        <5> QED
          BY <5>1, <5>2 DEF Top
      <4>3. ASSUME NEW i \in 1 .. Len(s), s[i] = e, e # x PROVE p[e] > 0 <=> e \in Top(r, c)
        <5> DEFINE j == IF i < d THEN i + 1 ELSE i
        <5>1. i # d
          BY <1>1, <4>3 DEF Moved
        <5>2. j \in 2 .. Len(r) /\ r[j] = e
          <6>1. CASE i < d
            <7>1. r[i + 1] = s[i]
              BY <6>1 DEF Moved
            <7>2. i + 1 \in 2 .. Len(r)
              BY <1>1, <1>2, <6>1
            <7> QED
              BY <4>3, <6>1, <7>1, <7>2
          <6>2. CASE i > d
            <7>1. r[i] = s[i]
              BY <6>2 DEF Moved
            <7>2. i \in 2 .. Len(r) /\ ~(i < d)
              BY <1>1, <1>2, <6>2
            <7> QED
              BY <4>3, <7>1, <7>2
          <6> QED
            BY <1>1, <5>1, <6>1, <6>2
        <5> HIDE DEF j
        <5>3. e \in Top(r, c) <=> j <= c
          <6>1. j \in 1 .. Len(r)
            BY <1>1, <5>2
          <6>2. \A m \in 1 .. Len(r) : r[m] = e => m = j
            BY <1>7, <5>2, <6>1
          <6> QED
            BY <5>2, <6>1, <6>2 DEF Top
        <5>4. p[e] > 0 <=> j <= c
          <6>1. CASE j <= c
            <7>1. p[e] = q[s[From(j)]] /\ From(j) \in 1 .. Len(s) /\ From(j) <= c
              BY <3>3, <3>4, <5>2, <6>1
            <7>2. p[e] > 0
              BY <3>2, <7>1
            <7> QED
              BY <6>1, <7>2
          <6>2. CASE ~(j <= c)
            <7>1. p[e] = 0
              BY <3>3, <5>2, <6>2
            <7>2. ~(p[e] > 0)
              BY <7>1
            <7> QED
              BY <6>2, <7>2
          <6> QED
            BY <6>1, <6>2
        <5> QED
          BY <5>3, <5>4
      <4> QED
        BY <4>1, <4>2, <4>3
    <3>6. Cached(p) = Top(r, c)
      <4>1. Top(r, c) \subseteq Experts
        <5>1. r \in Seq(Experts)
          BY DEF Moved
        <5> QED
          BY <5>1, ElementOfSeq DEF Top
      <4> QED
        BY <3>5, <4>1 DEF Cached
    <3>7. \A j \in 2 .. Len(r) : p[r[j]] <= at[l]
      <4> SUFFICES ASSUME NEW j \in 2 .. Len(r) PROVE p[r[j]] <= at[l]
        OBVIOUS
      <4>1. s[From(j)] \in Experts
        BY <1>1, <1>5
      <4>2. q[s[From(j)]] <= at[l] /\ at[l] \in Nat
        BY <1>1, <2>2, <4>1
      <4>3. p[r[j]] = q[s[From(j)]] \/ p[r[j]] = 0
        BY <3>3
      <4> HIDE DEF p, q, s, r, From
      <4> QED
        BY <4>2, <4>3
    <3>8. ASSUME NEW i \in 1 .. Len(r), NEW j \in 1 .. Len(r), i < j, j <= c PROVE p[r[j]] < p[r[i]]
      <4>1. j \in 2 .. Len(r)
        BY <1>1, <3>8
      <4>2. CASE i = 1
        <5>1. p[r[i]] = t /\ p[r[j]] <= at[l]
          BY <1>1, <3>1, <3>7, <4>1, <4>2
        <5>2. p[r[j]] \in Nat
          <6>1. r[j] \in Experts
            BY <1>1, <1>5, <4>1
          <6> QED
            BY <2>1, <6>1
        <5> QED
          BY <1>1, <5>1, <5>2
      <4>3. CASE i # 1
        <5>1. i \in 2 .. Len(r) /\ i <= c
          BY <1>1, <2>1, <3>8, <4>3
        <5>2. From(i) < From(j) /\ From(i) \in 1 .. Len(s) /\ From(j) \in 1 .. Len(s) /\ From(j) <= c
          BY <1>6, <3>4, <3>8, <4>1, <5>1
        <5>3. q[s[From(j)]] < q[s[From(i)]]
          BY <2>2, <5>2
        <5> QED
          BY <3>3, <3>8, <4>1, <5>1, <5>3
      <4> QED
        BY <4>2, <4>3
    <3>9. ASSUME NEW e \in Experts PROVE p[e] <= t
      <4>1. CASE e = x
        BY <1>1, <3>1, <4>1
      <4>2. CASE e # x /\ \A i \in 1 .. Len(s) : s[i] # e
        BY <1>1, <3>1, <4>2
      <4>3. ASSUME NEW i \in 1 .. Len(s), s[i] = e, e # x PROVE p[e] <= t
        <5>1. i # d
          BY <1>1, <4>3 DEF Moved
        <5>2. p[e] = q[e] \/ p[e] = 0
          BY <3>1, <4>3, <5>1
        <5> QED
          BY <1>1, <2>1, <2>2, <5>2
      <4> QED
        BY <4>1, <4>2, <4>3
    <3> QED
      BY <3>6, <3>8, <3>9 DEF p
  <2> QED
    BY <2>1, <2>3, <2>4
<1> QED
  BY <1>7, <1>8 DEF Ranked

LEMMA CurvesStep ==
    ASSUME TypeOK, NEW l \in Layers, Ranked(l), Curves(l), NEW x \in Experts,
           NEW d \in Nat, Moved(stack[l], stack'[l], x, d),
           dist'[l] = Append(dist[l], IF d <= Len(stack[l]) THEN d ELSE Inf(l)),
           Count(l, x, at[l] + 1), at'[l] = at[l] + 1
    PROVE  Curves(l)'
<1> DEFINE t == at[l] + 1
           D == IF d <= Len(stack[l]) THEN d ELSE Inf(l)
           before == dist[l]
           after == dist'[l]
<1>1. at[l] \in Nat /\ before \in Seq(Nat) /\ Inf(l) \in Nat /\ Inf(l) > MaxCap
  BY InfType DEF TypeOK
<1>2. Len(before) = at[l]
  BY DEF Curves
<1>3. D \in Nat
  BY <1>1
<1>4. /\ Len(after) = t /\ after[t] = D /\ \A i \in 1 .. at[l] : after[i] = before[i]
  <2>1. after = Append(before, D)
    OBVIOUS
  <2> HIDE DEF D
  <2>2. /\ Len(after) = Len(before) + 1 /\ after[Len(before) + 1] = D
        /\ \A i \in 1 .. Len(before) : after[i] = before[i]
    BY <1>1, <1>3, <2>1, AppendProperties
  <2> QED
    BY <1>2, <2>2
<1> HIDE DEF before, after
<1>5. ASSUME NEW c \in 0 .. MaxCap
      PROVE  slotMissed'[l][c] = {i \in 1 .. at'[l] : dist'[l][i] > c}
  <2>1. c \in Nat /\ MaxCap \in Nat /\ c <= MaxCap
    BY CachePoliciesAssumption DEF CachePoliciesAssumption
  <2>2. D > c <=> x \notin Cached(slots[l][c])
    <3>1. x \in Cached(slots[l][c]) <=> d <= Len(stack[l]) /\ d <= c
      BY HitIffShallow
    <3>2. D > c <=> ~(d <= Len(stack[l]) /\ d <= c)
      BY <1>1, <2>1
    <3> QED
      BY <3>1, <3>2
  <2>3. slotMissed[l][c] = {i \in 1 .. at[l] : before[i] > c}
    BY DEF Curves, before
  <2>4. slotMissed'[l][c] = IF x \in Cached(slots[l][c]) THEN slotMissed[l][c]
                            ELSE slotMissed[l][c] \cup {t}
    BY DEF Count, TypeOK
  <2> HIDE DEF D
  <2>5. \A i : i \in 1 .. t <=> i \in 1 .. at[l] \/ i = t
    BY <1>1
  <2>6. {i \in 1 .. t : after[i] > c}
        = IF D > c THEN {i \in 1 .. at[l] : before[i] > c} \cup {t}
          ELSE {i \in 1 .. at[l] : before[i] > c}
    <3>1. \A i \in 1 .. at[l] : after[i] > c <=> before[i] > c
      BY <1>4
    <3>2. after[t] > c <=> D > c
      BY <1>4
    <3> QED
      BY <2>5, <3>1, <3>2
  <2> QED
    BY <2>2, <2>3, <2>4, <2>6 DEF after
<1>6. Len(dist'[l]) = at'[l]
  BY <1>4 DEF after
<1> QED
  BY <1>5, <1>6 DEF Curves

\* Everything about stacks and slots that a request preserves.
StackInv == TypeOK /\ \A l \in Layers : Ranked(l) /\ Curves(l)

LEMMA InitStack == Init => StackInv
<1> SUFFICES ASSUME Init PROVE StackInv
  OBVIOUS
<1>1. TypeOK
  BY InitTypes
<1>2. ASSUME NEW l \in Layers PROVE Ranked(l) /\ Curves(l)
  <2>1. /\ stack[l] = <<>> /\ dist[l] = <<>> /\ at[l] = 0
        /\ \A c \in 0 .. MaxCap : slots[l][c] = Nothing /\ slotMissed[l][c] = {}
    BY DEF Init
  <2>2. \A i : i \notin 1 .. 0
    OBVIOUS
  <2>3. Len(stack[l]) = 0 /\ Len(dist[l]) = 0
    BY <2>1
  <2>4. \A c \in 0 .. MaxCap : Cached(slots[l][c]) = {} /\ Top(stack[l], c) = {}
    BY <2>1, <2>2, <2>3 DEF Cached, Nothing, Top
  <2>5. \A c \in 0 .. MaxCap, e \in Experts : slots[l][c][e] <= at[l]
    BY <2>1 DEF Nothing
  <2>6. Ranked(l)
    BY <2>2, <2>3, <2>4, <2>5 DEF Ranked
  <2>7. Curves(l)
    BY <2>1, <2>2, <2>3 DEF Curves
  <2> QED
    BY <2>6, <2>7
<1> QED
  BY <1>1, <1>2 DEF StackInv

LEMMA NextStack == StackInv /\ [Next]_vars => StackInv'
<1> SUFFICES ASSUME StackInv, [Next]_vars PROVE StackInv'
  OBVIOUS
<1>1. TypeOK /\ TypeOK'
  BY NextTypes DEF StackInv
<1>2. CASE UNCHANGED vars
  BY <1>1, <1>2 DEF StackInv, vars, Ranked, Curves
<1>3. ASSUME NEW l \in Layers, Request(l), NEW k \in Layers
      PROVE  Ranked(k)' /\ Curves(k)'
  <2> DEFINE t == at[l] + 1
             x == case.stream[l][t]
  <2>1. /\ at' = [at EXCEPT ![l] = t] /\ x \in Experts
        /\ Mattson(l, x) /\ SlotLru(l, x, t) /\ Count(l, x, t)
    BY <1>1, <1>3, RequestType DEF Request
  <2>2. at'[l] = t
    BY <1>1, <2>1 DEF TypeOK
  <2> HIDE DEF x
  <2>3. CASE k = l
    <3>1. PICK d \in Nat :
             /\ Moved(stack[l], stack'[l], x, d)
             /\ dist'[l] = Append(dist[l], IF d <= Len(stack[l]) THEN d ELSE Inf(l))
      BY <1>1, <2>1, MattsonMoves
    <3>2. Ranked(l) /\ Curves(l)
      BY DEF StackInv
    <3>3. Ranked(l)'
      BY <1>1, <2>1, <2>2, <3>1, <3>2, RankedStep
    <3>4. Curves(l)'
      BY <1>1, <2>1, <2>2, <3>1, <3>2, CurvesStep
    <3> QED
      BY <2>3, <3>3, <3>4
  <2>4. CASE k # l
    <3>1. at'[k] = at[k] /\ slotMissed'[k] = slotMissed[k]
      BY <1>1, <2>1, <2>4 DEF Count, TypeOK
    <3>2. slots'[k] = slots[k]
      BY <1>1, <2>1, <2>4 DEF SlotLru, TypeOK
    <3>3. stack'[k] = stack[k] /\ dist'[k] = dist[k]
      BY <1>1, <2>1, <2>4 DEF Mattson, TypeOK
    <3>4. Ranked(k) /\ Curves(k)
      BY DEF StackInv
    <3> QED
      BY <3>1, <3>2, <3>3, <3>4 DEF Ranked, Curves
  <2> QED
    BY <2>3, <2>4
<1> QED
  BY <1>1, <1>2, <1>3 DEF Next, StackInv

\* The distances of one pass over a stream tell, for every capacity, which requests
\* an LRU of that many slots misses (mattson_miss_curve).
THEOREM SpecCurveIsExact == Spec => []CurveIsExact
<1>1. Spec => []StackInv
  BY InitStack, NextStack, PTL DEF Spec
<1>2. StackInv => CurveIsExact
  BY DEF StackInv, Curves, CurveIsExact
<1> QED
  BY <1>1, <1>2, PTL

-----------------------------------------------------------------------------
(* Size-normalised reuse distance among equal sizes *)

LEMMA Scaled ==
    ASSUME NEW m \in Nat, NEW n \in Nat, NEW z \in Nat \ {0}
    PROVE  (m * z > n * z <=> m > n) /\ (m * z = n * z <=> m = n)
<1>1. CASE m > n
  <2>1. m * z = n * z + (m - n) * z
    BY <1>1
  <2>2. (m - n) * z > 0
    <3>1. m - n \in Nat /\ m - n >= 1
      BY <1>1
    <3> QED
      BY <3>1
  <2>3. m * z \in Nat /\ n * z \in Nat /\ (m - n) * z \in Int
    BY <1>1
  <2> QED
    BY <1>1, <2>1, <2>2, <2>3
<1>2. CASE n > m
  <2>1. n * z = m * z + (n - m) * z
    BY <1>2
  <2>2. (n - m) * z > 0
    <3>1. n - m \in Nat /\ n - m >= 1
      BY <1>2
    <3> QED
      BY <3>1
  <2>3. m * z \in Nat /\ n * z \in Nat /\ (n - m) * z \in Int
    BY <1>2
  <2> QED
    BY <1>2, <2>1, <2>2, <2>3
<1>3. CASE m = n
  BY <1>3
<1> QED
  BY <1>1, <1>2, <1>3

SnrdSame(l) ==
    Uniform(l) => /\ snrd[l].last = lru[l]
                  /\ missed[l]["snrd"] = missed[l]["byte_lru"]

\* Among equal sizes the greatest product of age and size is the greatest age.
LEMMA StaleIsOld ==
    ASSUME TypeOK, NEW l \in Layers, Agree(l), Uniform(l), snrd[l].last = lru[l],
           NEW e \in Cached(lru[l]), NEW f \in Cached(lru[l]),
           NEW t \in Nat, t = at[l] + 1
    PROVE  (\/ (t - lru[l][f]) * case.size[l][f] > (t - lru[l][e]) * case.size[l][e]
            \/ /\ (t - lru[l][f]) * case.size[l][f] = (t - lru[l][e]) * case.size[l][e]
               /\ snrd[l].born[f] < snrd[l].born[e])
           <=> lru[l][f] < lru[l][e]
<1> DEFINE z == case.size[l][e]
           a == lru[l]
<1>1. e \in Experts /\ f \in Experts
  BY DEF Cached
<1>2. z \in Nat \ {0} /\ case.size[l][f] = z
  BY <1>1 DEF TypeOK, Studies, Uniform
<1>3. a[e] \in Nat /\ a[f] \in Nat /\ snrd[l].born[e] \in Nat /\ at[l] \in Nat
  <2>1. a \in Stamps /\ snrd[l].born \in Stamps
    BY DEF TypeOK
  <2> QED
    BY <1>1, <2>1 DEF Stamps, TypeOK
<1>4. t - a[e] \in Nat /\ t - a[f] \in Nat
  <2>1. a[e] <= at[l] /\ a[f] <= at[l]
    BY <1>1 DEF Agree
  <2> QED
    BY <1>3, <2>1
<1> HIDE DEF z, a
<1>5. /\ (t - a[f]) * z > (t - a[e]) * z <=> t - a[f] > t - a[e]
      /\ (t - a[f]) * z = (t - a[e]) * z <=> t - a[f] = t - a[e]
  BY <1>2, <1>4, Scaled
<1>6. /\ t - a[f] > t - a[e] <=> a[f] < a[e]
      /\ t - a[f] = t - a[e] <=> a[f] = a[e]
  BY <1>3
<1>7. a[f] = a[e] => ~(snrd[l].born[f] < snrd[l].born[e])
  <2>1. a[f] = a[e] => f = e
    BY DEF Agree, a
  <2> QED
    BY <1>3, <2>1
<1>8. /\ (t - a[f]) * case.size[l][f] > (t - a[e]) * case.size[l][e] <=> a[f] < a[e]
      /\ (t - a[f]) * case.size[l][f] = (t - a[e]) * case.size[l][e] <=> a[f] = a[e]
  BY <1>2, <1>5, <1>6 DEF z
<1> QED
  BY <1>7, <1>8 DEF a

LEMMA SnrdStep ==
    ASSUME TypeOK, NEW l \in Layers, Request(l), Agree(l), SnrdSame(l)
    PROVE  SnrdSame(l)'
<1> SUFFICES ASSUME Uniform(l)'
             PROVE  /\ snrd'[l].last = lru'[l]
                    /\ missed'[l]["snrd"] = missed'[l]["byte_lru"]
  BY DEF SnrdSame
<1> DEFINE t == at[l] + 1
           x == case.stream[l][t]
           s == snrd[l]
           a == lru[l]
           R == Cached(a)
<1>1. t \in Nat /\ x \in Experts
  BY RequestType DEF Request
<1>2. /\ case' = case /\ ByteLru(l, x, t) /\ Snrd(l, x, t) /\ Count(l, x, t)
  BY DEF Request
<1>3. Uniform(l) /\ s.last = a /\ missed[l]["snrd"] = missed[l]["byte_lru"]
  BY <1>2 DEF Uniform, SnrdSame
<1>4. /\ lru \in [Layers -> Stamps]
      /\ snrd \in [Layers -> [last: Stamps, born: Stamps]]
  BY DEF TypeOK
<1>5. missed'[l]["snrd"] = missed'[l]["byte_lru"]
  BY <1>2, <1>3 DEF Count, Policies, TypeOK
<1> DEFINE score(e) == (t - s.last[e]) * case.size[l][e]
           staler(f, e) == \/ score(f) > score(e)
                           \/ score(f) = score(e) /\ s.born[f] < s.born[e]
           older(f, e) == a[f] < a[e]
           room == RoomBeside(l, x)
<1>6. \A e, f \in R : staler(f, e) <=> older(f, e)
  BY <1>1, <1>3, StaleIsOld
<1>7. Staying(l, R, room, staler) = Staying(l, R, room, older)
  <2> DEFINE stale(k) == {f \in R : ~ staler(f, k)}
             young(k) == {f \in R : ~ older(f, k)}
  <2>1. \A k \in R : stale(k) = young(k)
    BY <1>6
  <2> HIDE DEF stale, young, staler, older
  <2>2. {e \in R : \E k \in R : ~ staler(e, k) /\ Weight(l, stale(k)) <= room}
      = {e \in R : \E k \in R : ~ older(e, k) /\ Weight(l, young(k)) <= room}
    BY <1>6, <2>1
  <2> QED
    BY <2>2 DEF stale, young, Staying
<1>8. CASE x \in R
  <2>1. lru'[l] = [a EXCEPT ![x] = t]
    BY <1>2, <1>4, <1>8 DEF ByteLru
  <2>2. snrd'[l].last = [s.last EXCEPT ![x] = t]
    BY <1>2, <1>3, <1>4, <1>8 DEF Snrd
  <2> QED
    BY <1>3, <1>5, <2>1, <2>2
<1>9. CASE x \notin R /\ TooBig(l, x)
  <2>1. lru' = lru /\ snrd' = snrd
    BY <1>2, <1>3, <1>9 DEF ByteLru, Snrd
  <2> QED
    BY <1>3, <1>5, <2>1
<1>10. CASE x \notin R /\ ~ TooBig(l, x)
  <2>1. lru'[l] = Joined(a, Staying(l, R, room, older), x, t)
    BY <1>2, <1>4, <1>10 DEF ByteLru
  <2>2. snrd'[l].last = Joined(s.last, Staying(l, R, room, staler), x, t)
    <3> DEFINE stay == Staying(l, Cached(s.last), room, staler)
    <3>1. x \notin Cached(s.last) /\ ~ TooBig(l, x)
      BY <1>3, <1>10
    <3>2. snrd' = [snrd EXCEPT ![l] = [last |-> Joined(s.last, stay, x, t),
                                       born |-> Joined(s.born, stay, x, t)]]
      BY <1>2, <3>1 DEF Snrd, Staying
    <3>3. stay = Staying(l, R, room, staler)
      BY <1>3 DEF Staying
    <3> HIDE DEF stay, staler
    <3>4. snrd'[l].last = Joined(s.last, stay, x, t)
      BY <1>4, <3>2
    <3> QED
      BY <3>3, <3>4
  <2> QED
    BY <1>3, <1>5, <1>7, <2>1, <2>2
<1> QED
  BY <1>8, <1>9, <1>10

\* Among equal sizes size-normalised reuse distance misses what byte-LRU misses.
SnrdIsLru == \A l \in Layers : Uniform(l) => missed[l]["snrd"] = missed[l]["byte_lru"]

SnrdInv == GdsInv /\ \A l \in Layers : SnrdSame(l)

LEMMA InitSnrd == Init => SnrdInv
BY InitGds DEF Init, SnrdInv, SnrdSame, Policies

LEMMA NextSnrd == SnrdInv /\ [Next]_vars => SnrdInv'
<1> SUFFICES ASSUME SnrdInv, [Next]_vars PROVE SnrdInv'
  OBVIOUS
<1>1. GdsInv'
  BY NextGds DEF SnrdInv
<1>2. CASE UNCHANGED vars
  BY <1>1, <1>2 DEF SnrdInv, vars, SnrdSame, Uniform
<1>3. ASSUME NEW l \in Layers, Request(l), NEW k \in Layers
      PROVE  SnrdSame(k)'
  <2>1. CASE k = l
    BY <1>3, <2>1, SnrdStep DEF SnrdInv, GdsInv
  <2>2. CASE k # l
    <3>1. /\ ByteLru(l, case.stream[l][at[l] + 1], at[l] + 1)
          /\ Snrd(l, case.stream[l][at[l] + 1], at[l] + 1)
          /\ Count(l, case.stream[l][at[l] + 1], at[l] + 1)
          /\ case' = case
      BY <1>3 DEF Request
    <3>2. missed'[k] = missed[k]
      BY <2>2, <3>1 DEF Count, SnrdInv, GdsInv, TypeOK
    <3>3. lru'[k] = lru[k]
      BY <2>2, <3>1 DEF ByteLru, Staying, SnrdInv, GdsInv, TypeOK
    <3>4. snrd'[k] = snrd[k]
      <4>1. snrd \in [Layers -> [last: Stamps, born: Stamps]]
        BY DEF SnrdInv, GdsInv, TypeOK
      <4>2. \/ snrd' = snrd
            \/ \E v : snrd' = [snrd EXCEPT ![l] = v]
        BY <3>1, <4>1 DEF Snrd, Staying
      <4> QED
        BY <2>2, <4>1, <4>2
    <3> QED
      BY <3>1, <3>2, <3>3, <3>4 DEF SnrdInv, SnrdSame, Uniform
  <2> QED
    BY <2>1, <2>2
<1> QED
  BY <1>1, <1>2, <1>3 DEF Next, SnrdInv

\* With experts of one size SNRD and byte-LRU miss the same requests of every stream.
THEOREM SpecSnrdIsLru == Spec => []SnrdIsLru
<1>1. Spec => []SnrdInv
  BY InitSnrd, NextSnrd, PTL DEF Spec
<1>2. SnrdInv => SnrdIsLru
  BY DEF SnrdInv, SnrdSame, SnrdIsLru
<1> QED
  BY <1>1, <1>2, PTL

-----------------------------------------------------------------------------
(* Byte-LRU among equal sizes *)

\* Equal sizes add up to their number times the size.  The sum is a fold, and the fold
\* a function that is chosen for its recursive equation: the product satisfies the
\* equation, and two that satisfy it have no smallest set on which they differ.
LEMMA UniformSum ==
    ASSUME NEW S, IsFiniteSet(S), NEW size, NEW z \in Nat, \A e \in S : size[e] = z
    PROVE  SumFunctionOnSet(size, S) = Cardinality(S) * z
<1> DEFINE pick(s) == CHOOSE e \in s : TRUE
           Sums(g) == g = [s \in SUBSET S |->
                             IF s = {} THEN 0 ELSE size[pick(s)] + g[s \ {pick(s)}]]
           product == [s \in SUBSET S |-> Cardinality(s) * z]
<1>1. SumFunctionOnSet(size, S) = (CHOOSE g : Sums(g))[S]
  BY DEF SumFunctionOnSet, FoldFunctionOnSet, MapThenFoldSet
<1>2. ASSUME NEW s \in SUBSET S
      PROVE  /\ IsFiniteSet(s) /\ Cardinality(s) \in Nat /\ (s = {} => Cardinality(s) = 0)
             /\ s # {} => /\ pick(s) \in s /\ Cardinality(s \ {pick(s)}) = Cardinality(s) - 1
                          /\ Cardinality(s) * z = z + (Cardinality(s) - 1) * z
  <2>1. IsFiniteSet(s) /\ Cardinality(s) \in Nat /\ (s = {} => Cardinality(s) = 0)
    BY FS_Subset, FS_CardinalityType, FS_EmptySet
  <2>2. s # {} => pick(s) \in s
    OBVIOUS
  <2>3. s # {} => Cardinality(s \ {pick(s)}) = Cardinality(s) - 1
    BY <2>1, <2>2, FS_RemoveElement
  <2>4. \A n \in Nat : n * z = z + (n - 1) * z
    OBVIOUS
  <2> QED
    BY <2>1, <2>2, <2>3, <2>4
<1>3. Sums(product)
  <2>1. ASSUME NEW s \in SUBSET S
        PROVE  product[s] = IF s = {} THEN 0 ELSE size[pick(s)] + product[s \ {pick(s)}]
    <3>1. CASE s = {}
      <4>1. Cardinality(s) = 0 /\ 0 * z = 0
        BY <1>2, <3>1
      <4> QED
        BY <3>1, <4>1
    <3>2. CASE s # {}
      <4>1. pick(s) \in s /\ s \ {pick(s)} \in SUBSET S /\ size[pick(s)] = z
        BY <1>2, <3>2
      <4>2. product[s \ {pick(s)}] = (Cardinality(s) - 1) * z
        BY <1>2, <3>2, <4>1
      <4> QED
        BY <1>2, <3>2, <4>1, <4>2
    <3> QED
      BY <3>1, <3>2
  <2> HIDE DEF pick
  <2> QED
    BY <2>1
<1>4. ASSUME NEW g, Sums(g)
      PROVE  g[S] = product[S]
  <2> DEFINE wrong == {s \in SUBSET S : g[s] # product[s]}
  <2>1. \A s \in SUBSET S : g[s] = IF s = {} THEN 0 ELSE size[pick(s)] + g[s \ {pick(s)}]
    <3> HIDE DEF pick
    <3> QED
      BY <1>4
  <2>2. \A s \in SUBSET S : product[s] = IF s = {} THEN 0 ELSE size[pick(s)] + product[s \ {pick(s)}]
    <3> HIDE DEF pick, product
    <3> QED
      BY <1>3
  <2>3. wrong \subseteq FiniteSubsetsOf(S)
    BY FS_FiniteSubsetsOfFinite
  <2>4. ASSUME wrong # {} PROVE FALSE
    <3>1. PICK s \in wrong : \A r \in wrong : <<r, s>> \notin StrictSubsetOrdering(S)
      <4> HIDE DEF wrong
      <4>1. IsWellFoundedOn(StrictSubsetOrdering(S), FiniteSubsetsOf(S))
        BY FS_StrictSubsetOrderingWellFounded
      <4>2. \E s \in wrong : \A r \in wrong : ~ (<<r, s>> \in StrictSubsetOrdering(S))
        BY <2>3, <2>4, <4>1, WFMin
      <4> QED
        BY <4>2
    <3>2. s # {} /\ s \in SUBSET S
      BY <2>1, <2>2
    <3> DEFINE r == s \ {pick(s)}
    <3>3. r \in SUBSET S /\ r # s
      BY <1>2, <3>2
    <3>4. <<r, s>> \in StrictSubsetOrdering(S)
      BY <3>2, <3>3 DEF StrictSubsetOrdering
    <3>5. g[r] = product[r]
      <4>1. r \notin wrong
        BY <3>1, <3>4
      <4> QED
        BY <3>3, <4>1
    <3>6. g[s] = product[s]
      <4> HIDE DEF pick, product
      <4> QED
        BY <2>1, <2>2, <3>2, <3>5
    <3> QED
      BY <3>6
  <2> QED
    BY <2>4
<1>5. Sums(CHOOSE g : Sums(g))
  <2> HIDE DEF Sums, product
  <2> QED
    BY <1>3
<1>6. (CHOOSE g : Sums(g))[S] = product[S]
  <2> HIDE DEF Sums, product
  <2> QED
    BY <1>4, <1>5
<1> QED
  BY <1>1, <1>6

\* So many items of z bytes fit into a budget.
LEMMA Fits ==
    ASSUME NEW b \in Nat, NEW z \in Nat \ {0}, NEW n \in Nat
    PROVE  b \div z \in Nat /\ (n * z <= b <=> n <= b \div z)
<1> DEFINE c == b \div z
<1>1. c \in Nat /\ c * z <= b /\ b < (c + 1) * z
  <2>1. c \in Int /\ b % z \in 0 .. z - 1 /\ b = z * c + (b % z)
    OBVIOUS
  <2>2. c >= 0
    OBVIOUS
  <2> HIDE DEF c
  <2>3. (c + 1) * z = z * c + z /\ c * z = z * c /\ z * c \in Int
    BY <2>1
  <2> QED
    BY <2>1, <2>2, <2>3
<1> HIDE DEF c
<1>2. CASE n <= c
  <2>1. ~(n * z > c * z)
    BY <1>1, <1>2, Scaled
  <2>2. n * z \in Nat /\ c * z \in Nat
    BY <1>1
  <2> QED
    BY <1>1, <1>2, <2>1, <2>2
<1>3. CASE n > c
  <2>1. ~(c + 1 > n) /\ c + 1 \in Nat
    BY <1>1, <1>3
  <2>2. ~((c + 1) * z > n * z)
    BY <1>1, <2>1, Scaled
  <2>3. n * z \in Nat /\ (c + 1) * z \in Nat
    BY <1>1
  <2> QED
    BY <1>1, <1>3, <2>2, <2>3
<1> QED
  BY <1>1, <1>2, <1>3 DEF c

\* The slots that a budget buys when all experts have the size of e.
SlotsOf(l, e) == case.budget \div case.size[l][e]

\* Byte-LRU and the LRU of that many slots have the same entries and the same misses.
SlotSame(l) ==
    Uniform(l) => \A e \in Experts :
        SlotsOf(l, e) <= MaxCap => /\ lru[l] = slots[l][SlotsOf(l, e)]
                                   /\ missed[l]["byte_lru"] = slotMissed[l][SlotsOf(l, e)]

\* The entries that are not older than k's.
NewerThan(a, k) == {f \in Cached(a) : ~ (a[f] < a[k])}

\* Those that stay when the oldest go until the rest fits, and when one goes if c are taken.
Fitting(l, a, room) ==
    {e \in Cached(a) : \E k \in Cached(a) : ~ (a[e] < a[k]) /\ Weight(l, NewerThan(a, k)) <= room}
NotOldest(a, c) == {e \in Cached(a) : Cardinality(Cached(a)) < c \/ \E f \in Cached(a) : a[f] < a[e]}

\* With room for less than all that are cached, those stay that are not the oldest.
LEMMA StayingIsNewer ==
    ASSUME NEW l \in Layers, NEW a \in Stamps, IsFiniteSet(Experts),
           case.size[l] \in [Experts -> Nat \ {0}], case.budget \in Nat,
           NEW x \in Experts, Uniform(l),
           NEW c \in Nat, c = SlotsOf(l, x), Cardinality(Cached(a)) <= c
    PROVE  Fitting(l, a, RoomBeside(l, x)) = NotOldest(a, c)
<1> DEFINE R == Cached(a)
           z == case.size[l][x]
           b == case.budget
           Young(k) == NewerThan(a, k)
<1> USE DEF NewerThan
<1>1. /\ z \in Nat \ {0} /\ b \in Nat /\ R \subseteq Experts /\ IsFiniteSet(R)
      /\ Cardinality(R) \in Nat
  <2>1. R \subseteq Experts
    BY DEF Cached
  <2>2. IsFiniteSet(R)
    BY <2>1, FS_Subset
  <2> QED
    BY <2>1, <2>2, FS_CardinalityType
<1>2. \A e \in R : a[e] \in Nat
  BY <1>1 DEF Stamps
<1>3. ASSUME NEW k \in R
      PROVE  /\ IsFiniteSet(Young(k)) /\ Cardinality(Young(k)) \in Nat
             /\ Cardinality(Young(k)) <= Cardinality(R)
             /\ Cardinality(Young(k)) = Cardinality(R) => Young(k) = R
             /\ Weight(l, Young(k)) <= b - z <=> Cardinality(Young(k)) < c
  <2>1. Young(k) \in SUBSET R
    OBVIOUS
  <2> HIDE DEF R, Young, z, b
  <2>2. /\ IsFiniteSet(Young(k)) /\ Cardinality(Young(k)) <= Cardinality(R)
        /\ Cardinality(R) = Cardinality(Young(k)) => R = Young(k)
    BY <1>1, <2>1, FS_Subset
  <2> DEFINE n == Cardinality(Young(k))
  <2>3. n \in Nat
    BY <2>2, FS_CardinalityType
  <2>4. \A e \in Young(k) : case.size[l][e] = z
    BY <1>1, <2>1 DEF Uniform, z
  <2>5. Weight(l, Young(k)) = n * z
    BY <1>1, <2>2, <2>4, UniformSum DEF Weight
  <2>7. b \div z = c
    BY DEF SlotsOf, b, z
  <2> HIDE DEF n
  <2>6. (n + 1) * z <= b <=> n + 1 <= b \div z
    <3>1. n + 1 \in Nat
      BY <2>3
    <3> QED
      BY <1>1, <3>1, Fits
  <2>8. n * z \in Nat /\ (n + 1) * z = n * z + z
    BY <1>1, <2>3
  <2>9. n * z <= b - z <=> (n + 1) * z <= b
    BY <1>1, <2>8
  <2>10. Weight(l, Young(k)) <= b - z <=> n < c
    BY <2>3, <2>5, <2>6, <2>7, <2>9
  <2> QED
    BY <2>2, <2>3, <2>10 DEF n
<1> HIDE DEF z, b
<1>4. ASSUME NEW e \in R
      PROVE  (\E k \in R : ~ (a[e] < a[k]) /\ Weight(l, Young(k)) <= b - z)
             <=> (Cardinality(R) < c \/ \E f \in R : a[f] < a[e])
  <2>1. ASSUME NEW k \in R, ~ (a[e] < a[k]), Weight(l, Young(k)) <= b - z, ~ (Cardinality(R) < c)
        PROVE  \E f \in R : a[f] < a[e]
    <3>1. Cardinality(Young(k)) # Cardinality(R)
      BY <1>1, <1>3, <2>1
    <3>2. PICK f \in R : a[f] < a[k]
      <4>1. Young(k) # R
        BY <3>1
      <4> QED
        BY <4>1
    <3>3. a[f] < a[e]
      BY <1>2, <2>1, <3>2
    <3> QED
      BY <3>3
  <2>2. ASSUME Cardinality(R) < c \/ \E f \in R : a[f] < a[e]
        PROVE  Weight(l, Young(e)) <= b - z
    <3>1. CASE Cardinality(R) < c
      <4>1. e \in R
        OBVIOUS
      <4> HIDE DEF R, Young
      <4>2. Cardinality(Young(e)) < c
        BY <1>1, <1>3, <3>1, <4>1
      <4> QED
        BY <1>3, <4>1, <4>2
    <3>2. ASSUME NEW f \in R, a[f] < a[e] PROVE Cardinality(Young(e)) < c
      <4>1. Young(e) # R
        BY <3>2
      <4>2. Cardinality(Young(e)) # Cardinality(R)
        BY <1>3, <4>1
      <4>3. e \in R /\ Cardinality(R) <= c
        OBVIOUS
      <4> HIDE DEF R, Young
      <4> QED
        BY <1>1, <1>3, <4>2, <4>3
    <3> QED
      BY <1>3, <2>2, <3>1, <3>2
  <2>3. ~ (a[e] < a[e])
    BY <1>2
  <2> QED
    BY <2>1, <2>2, <2>3
<1>5. RoomBeside(l, x) = b - z
  BY DEF RoomBeside, b, z
<1> HIDE DEF NewerThan
<1> QED
  BY <1>4, <1>5 DEF Fitting, NotOldest

\* No more experts are cached than there are slots.
LEMMA SlotsHold ==
    ASSUME TypeOK, NEW l \in Layers, Ranked(l), NEW c \in 0 .. MaxCap
    PROVE  Cardinality(Cached(slots[l][c])) <= c
<1>1. stack[l] \in Seq(Experts) /\ c \in Nat
  BY CachePoliciesAssumption DEF TypeOK, CachePoliciesAssumption
<1>2. Cardinality(Top(stack[l], c)) <= c
  BY <1>1, TopCardinality, LenProperties DEF Ranked
<1> QED
  BY <1>2 DEF Ranked

LEMMA SlotSameStep ==
    ASSUME TypeOK, NEW l \in Layers, Request(l), Ranked(l), SlotSame(l)
    PROVE  SlotSame(l)'
<1> SUFFICES ASSUME Uniform(l)', NEW y \in Experts, SlotsOf(l, y)' <= MaxCap
             PROVE  /\ lru'[l] = slots'[l][SlotsOf(l, y)']
                    /\ missed'[l]["byte_lru"] = slotMissed'[l][SlotsOf(l, y)']
  BY DEF SlotSame
<1> DEFINE t == at[l] + 1
           x == case.stream[l][t]
           c == SlotsOf(l, y)
           a == lru[l]
           R == Cached(a)
<1>1. /\ t \in Nat /\ x \in Experts /\ case.size[l] \in [Experts -> Nat \ {0}]
      /\ case.budget \in Nat /\ IsFiniteSet(Experts) /\ MaxCap \in Nat
  BY RequestType, CachePoliciesAssumption DEF Request, TypeOK, Studies, CachePoliciesAssumption
<1>2. case' = case /\ ByteLru(l, x, t) /\ SlotLru(l, x, t) /\ Count(l, x, t)
  BY DEF Request
<1> HIDE DEF t, x
<1>3. Uniform(l) /\ c' = c /\ c = SlotsOf(l, x) /\ c <= MaxCap
  BY <1>1, <1>2 DEF Uniform, SlotsOf
<1>4. c \in 0 .. MaxCap /\ c \in Nat
  BY <1>1, <1>3, Fits DEF SlotsOf
<1>5. TooBig(l, x) <=> c = 0
  <2> DEFINE z == case.size[l][x]
             b == case.budget
  <2>1. 1 * z <= b <=> 1 <= b \div z
    BY <1>1, Fits
  <2>2. z \in Nat /\ b \in Nat /\ 1 * z = z /\ b \div z = c
    BY <1>1, <1>3 DEF SlotsOf
  <2>3. TooBig(l, x) <=> z > b
    BY DEF TooBig
  <2> HIDE DEF z, b, c
  <2> QED
    BY <1>4, <2>1, <2>2, <2>3
<1>6. /\ a = slots[l][c] /\ a \in Stamps /\ missed[l]["byte_lru"] = slotMissed[l][c]
      /\ lru \in [Layers -> Stamps] /\ slots \in [Layers -> [0 .. MaxCap -> Stamps]]
  BY <1>3 DEF SlotSame, TypeOK
<1>7. Cardinality(R) <= c
  BY <1>4, <1>6, SlotsHold
<1> HIDE DEF c
<1> DEFINE stay == NotOldest(a, c)
<1>8. slots'[l][c] = IF x \in R THEN [a EXCEPT ![x] = t]
                     ELSE IF c = 0 THEN a ELSE Joined(a, stay, x, t)
  BY <1>2, <1>4, <1>6 DEF SlotLru, NotOldest
<1>9. Fitting(l, a, RoomBeside(l, x)) = stay
  BY <1>1, <1>3, <1>4, <1>6, <1>7, StayingIsNewer
<1>10. lru'[l] = slots'[l][c]
  <2>1. CASE x \in R
    <3>1. lru'[l] = [a EXCEPT ![x] = t]
      BY <1>2, <1>6, <2>1 DEF ByteLru
    <3> QED
      BY <1>8, <2>1, <3>1
  <2>2. CASE x \notin R /\ TooBig(l, x)
    <3>1. lru'[l] = a
      BY <1>2, <2>2 DEF ByteLru
    <3> QED
      BY <1>5, <1>8, <2>2, <3>1
  <2>3. CASE x \notin R /\ ~ TooBig(l, x)
    <3> DEFINE older(f, e) == a[f] < a[e]
    <3>0. Staying(l, R, RoomBeside(l, x), older) = Fitting(l, a, RoomBeside(l, x))
      BY DEF Staying, Fitting, NewerThan
    <3>1. lru'[l] = Joined(a, Staying(l, R, RoomBeside(l, x), older), x, t)
      BY <1>2, <1>6, <2>3 DEF ByteLru
    <3> HIDE DEF older, stay
    <3> QED
      BY <1>5, <1>8, <1>9, <2>3, <3>0, <3>1
  <2> QED
    BY <2>1, <2>2, <2>3
<1>11. missed'[l]["byte_lru"] = slotMissed'[l][c]
  <2>1. missed'[l]["byte_lru"] = IF x \in R THEN missed[l]["byte_lru"]
                                 ELSE missed[l]["byte_lru"] \cup {t}
    BY <1>2 DEF Count, TypeOK, Policies
  <2>2. slotMissed'[l][c] = IF x \in Cached(slots[l][c]) THEN slotMissed[l][c]
                            ELSE slotMissed[l][c] \cup {t}
    BY <1>2, <1>4 DEF Count, TypeOK
  <2> QED
    BY <1>6, <2>1, <2>2
<1> QED
  BY <1>3, <1>10, <1>11 DEF c

\* Everything the comparison of the three rests on.
UniformInv == StackInv /\ SnrdInv /\ \A l \in Layers : SlotSame(l)

LEMMA InitUniform == Init => UniformInv
<1> SUFFICES ASSUME Init PROVE UniformInv
  OBVIOUS
<1>1. StackInv /\ SnrdInv
  BY InitStack, InitSnrd
<1>2. ASSUME NEW l \in Layers PROVE SlotSame(l)
  <2>1. case.size[l] \in [Experts -> Nat \ {0}] /\ case.budget \in Nat
    BY <1>1 DEF StackInv, TypeOK, Studies
  <2>2. ASSUME NEW e \in Experts, SlotsOf(l, e) <= MaxCap
        PROVE  SlotsOf(l, e) \in 0 .. MaxCap
    BY <2>1, <2>2, Fits DEF SlotsOf
  <2> QED
    BY <2>2 DEF Init, SlotSame, Policies
<1> QED
  BY <1>1, <1>2 DEF UniformInv

LEMMA NextUniform == UniformInv /\ [Next]_vars => UniformInv'
<1> SUFFICES ASSUME UniformInv, [Next]_vars PROVE UniformInv'
  OBVIOUS
<1>1. StackInv' /\ SnrdInv' /\ TypeOK
  BY NextStack, NextSnrd DEF UniformInv, StackInv
<1>2. CASE UNCHANGED vars
  BY <1>1, <1>2 DEF UniformInv, vars, SlotSame, SlotsOf, Uniform
<1>3. ASSUME NEW l \in Layers, Request(l), NEW k \in Layers
      PROVE  SlotSame(k)'
  <2>1. CASE k = l
    BY <1>1, <1>3, <2>1, SlotSameStep DEF UniformInv, StackInv
  <2>2. CASE k # l
    <3>1. /\ ByteLru(l, case.stream[l][at[l] + 1], at[l] + 1)
          /\ SlotLru(l, case.stream[l][at[l] + 1], at[l] + 1)
          /\ Count(l, case.stream[l][at[l] + 1], at[l] + 1)
          /\ case' = case
      BY <1>3 DEF Request
    <3>2. missed'[k] = missed[k] /\ slotMissed'[k] = slotMissed[k]
      BY <1>1, <2>2, <3>1 DEF Count, TypeOK
    <3>3. lru'[k] = lru[k]
      BY <1>1, <2>2, <3>1 DEF ByteLru, Staying, TypeOK
    <3>4. slots'[k] = slots[k]
      BY <1>1, <2>2, <3>1 DEF SlotLru, TypeOK
    <3>5. SlotSame(k)
      BY DEF UniformInv
    <3>6. Uniform(k)' = Uniform(k) /\ \A e : SlotsOf(k, e)' = SlotsOf(k, e)
      BY <3>1 DEF SlotsOf, Uniform
    <3> QED
      BY <3>2, <3>3, <3>4, <3>5, <3>6 DEF SlotSame
  <2> QED
    BY <2>1, <2>2
<1> QED
  BY <1>1, <1>2, <1>3 DEF Next, UniformInv

\* With experts of one size byte-LRU and SNRD are the LRU of as many slots as the budget
\* has room for: the byte budgets of the tool and the slot counts of the engine compare.
THEOREM SpecUniformIsSlotLru == Spec => []UniformIsSlotLru
<1>1. Spec => []UniformInv
  BY InitUniform, NextUniform, PTL DEF Spec
<1>2. UniformInv => UniformIsSlotLru
  BY DEF UniformInv, SnrdInv, SnrdSame, SlotSame, SlotsOf, UniformIsSlotLru
<1> QED
  BY <1>1, <1>2, PTL

-----------------------------------------------------------------------------
(* Totals *)

LEMMA SumIsTotal ==
    ASSUME NEW f, DOMAIN f = Layers, \A l \in Layers : f[l] \in Nat
    PROVE  SumFunction(f) = Size(f, Layers)
<1>1. IsFiniteSet(Layers)
  <2>1. NLayers \in Int /\ 1 \in Int
    BY CachePoliciesAssumption DEF CachePoliciesAssumption
  <2> QED
    BY <2>1, FS_Interval DEF Layers
<1> QED
  BY <1>1, SumIsSize DEF SumFunction

\* The sum over the first k layers, and over those after them.
UpTo(f, k) == Size(f, 1 .. k)
After(f, k) == Size(f, k+1 .. NLayers)

LEMMA UpToFacts ==
    ASSUME NEW f, \A l \in Layers : f[l] \in Nat, NEW k \in 0 .. NLayers
    PROVE  /\ UpTo(f, k) \in Nat /\ UpTo(f, 0) = 0
           /\ k > 0 => UpTo(f, k) = UpTo(f, k-1) + f[k]
           /\ UpTo(f, k) <= UpTo(f, NLayers)
<1>1. NLayers \in Nat
  BY CachePoliciesAssumption DEF CachePoliciesAssumption
<1>2. \A n \in 0 .. NLayers : IsFiniteSet(1 .. n) /\ (\A l \in 1 .. n : f[l] \in Nat)
  <2> TAKE n \in 0 .. NLayers
  <2>1. n \in Int /\ 1 \in Int
    OBVIOUS
  <2> QED
    BY <2>1, <1>1, FS_Interval DEF Layers
<1>3. UpTo(f, k) \in Nat
  BY <1>2, SizeFacts DEF UpTo
<1>4. UpTo(f, 0) = 0
  <2>1. 0 \in 0 .. NLayers /\ 1 .. 0 = {}
    BY <1>1
  <2> QED
    BY <1>2, <2>1, SizeFacts DEF UpTo
<1>5. ASSUME k > 0 PROVE UpTo(f, k) = UpTo(f, k-1) + f[k]
  <2>1. k \in 1 .. k /\ (1 .. k) \ {k} = 1 .. k-1
    BY <1>5
  <2>2. Size(f, 1 .. k) = f[k] + Size(f, (1 .. k) \ {k})
    BY <1>2, <2>1, SizeRemove
  <2>3. k-1 \in 0 .. NLayers
    BY <1>5, <1>1
  <2>4. Size(f, 1 .. k-1) \in Nat
    BY <1>2, <2>3, SizeFacts
  <2>5. f[k] \in Nat
    BY <1>2, <2>1
  <2>6. Size(f, (1 .. k) \ {k}) = Size(f, 1 .. k-1)
    BY <2>1
  <2> QED
    BY <2>2, <2>4, <2>5, <2>6 DEF UpTo
<1>6. UpTo(f, k) <= UpTo(f, NLayers)
  <2>1. NLayers \in 0 .. NLayers /\ 1 .. k \subseteq 1 .. NLayers
    BY <1>1
  <2>2. Cells(f, 1 .. k) \in SUBSET Cells(f, 1 .. NLayers)
    BY <2>1 DEF Cells
  <2>3. IsFiniteSet(Cells(f, 1 .. NLayers))
    BY <1>2, <2>1, SizeFacts
  <2> QED
    BY <2>2, <2>3, FS_Subset DEF UpTo, Size
<1> QED
  BY <1>3, <1>4, <1>5, <1>6

LEMMA AfterFacts ==
    ASSUME NEW f, \A l \in Layers : f[l] \in Nat, NEW k \in 0 .. NLayers
    PROVE  /\ After(f, k) \in Nat /\ After(f, NLayers) = 0
           /\ k > 0 => After(f, k-1) = f[k] + After(f, k)
           /\ After(f, 0) = UpTo(f, NLayers)
<1>1. NLayers \in Nat
  BY CachePoliciesAssumption DEF CachePoliciesAssumption
<1>2. \A n \in 0 .. NLayers : IsFiniteSet(n+1 .. NLayers) /\ (\A l \in n+1 .. NLayers : f[l] \in Nat)
  <2> TAKE n \in 0 .. NLayers
  <2>1. n+1 \in Int
    OBVIOUS
  <2> QED
    BY <2>1, <1>1, FS_Interval DEF Layers
<1>3. After(f, k) \in Nat
  BY <1>2, SizeFacts DEF After
<1>4. After(f, NLayers) = 0
  <2>1. NLayers \in 0 .. NLayers /\ NLayers+1 .. NLayers = {}
    BY <1>1
  <2> QED
    BY <1>2, <2>1, SizeFacts DEF After
<1>5. ASSUME k > 0 PROVE After(f, k-1) = f[k] + After(f, k)
  <2>1. k-1 \in 0 .. NLayers /\ (k-1)+1 = k
    BY <1>5, <1>1
  <2>2. k \in k .. NLayers /\ (k .. NLayers) \ {k} = k+1 .. NLayers
    BY <1>1
  <2>3. IsFiniteSet(k .. NLayers) /\ \A l \in k .. NLayers : f[l] \in Nat
    BY <1>2, <2>1
  <2>4. Size(f, k .. NLayers) = f[k] + Size(f, (k .. NLayers) \ {k})
    BY <2>2, <2>3, SizeRemove
  <2> QED
    BY <2>1, <2>2, <2>4 DEF After
<1>6. After(f, 0) = UpTo(f, NLayers)
  <2>1. 0+1 = 1
    OBVIOUS
  <2> QED
    BY <2>1 DEF After, UpTo
<1> QED
  BY <1>3, <1>4, <1>5, <1>6

LEMMA LeastOf ==
    ASSUME NEW T \in SUBSET Nat, T # {}
    PROVE  \E x \in T : \A y \in T : x <= y
<1> DEFINE R == {pair \in Nat \X Nat : pair[1] < pair[2]}
<1>1. OpToRel(<, Nat) = R
  BY DEF OpToRel
<1>2. IsWellFoundedOn(R, Nat)
  BY <1>1, NatLessThanWellFounded
<1>3. \A x, y \in Nat : y < x => <<y, x>> \in R
  OBVIOUS
<1> HIDE DEF R
<1>4. PICK x \in T : \A y \in T : <<y, x>> \notin R
  <2>1. \E x \in T : \A y \in T : ~ (<<y, x>> \in R)
    BY <1>2, WFMin
  <2> QED
    BY <2>1
<1>5. ASSUME NEW y \in T PROVE x <= y
  <2>1. x \in Nat /\ y \in Nat
    OBVIOUS
  <2>2. ~ (y < x)
    BY <2>1, <1>3, <1>4
  <2> QED
    BY <2>1, <2>2
<1> QED
  BY <1>5

\* Of finitely many numbers with a value each, one has the least value, and is the least that has it.
LEMMA BestOf ==
    ASSUME NEW T \in SUBSET Nat, T # {}, NEW value, \A k \in T : value[k] \in Nat
    PROVE  \E k \in T : \A j \in T : value[k] < value[j] \/ (value[k] = value[j] /\ k <= j)
<1> DEFINE V == {value[k] : k \in T}
<1>1. PICK v \in V : \A y \in V : v <= y
  <2>1. V \in SUBSET Nat /\ V # {}
    OBVIOUS
  <2> HIDE DEF V
  <2> QED
    BY <2>1, LeastOf
<1> DEFINE W == {k \in T : value[k] = v}
<1>2. PICK k \in W : \A j \in W : k <= j
  <2>1. W \in SUBSET Nat /\ W # {}
    OBVIOUS
  <2> HIDE DEF W
  <2> QED
    BY <2>1, LeastOf
<1>3. ASSUME NEW j \in T PROVE value[k] < value[j] \/ (value[k] = value[j] /\ k <= j)
  <2>1. v <= value[j] /\ value[k] = v /\ v \in Nat /\ value[j] \in Nat
    BY <1>1
  <2>2. value[j] = v => k <= j
    BY <1>2
  <2> QED
    BY <2>1, <2>2
<1> QED
  BY <1>2, <1>3

LEMMA LesserOf ==
    ASSUME NEW a \in Int, NEW b \in Int
    PROVE  Min({a, b}) = IF a <= b THEN a ELSE b
<1> DEFINE m == IF a <= b THEN a ELSE b
           P(x) == x \in {a, b} /\ \A y \in {a, b} : x <= y
<1>1. P(m) /\ \A x : P(x) => x = m
  OBVIOUS
<1>2. Min({a, b}) = CHOOSE x : P(x)
  BY DEF Min
<1> HIDE DEF P, m
<1>3. P(CHOOSE x : P(x))
  BY <1>1
<1>4. Min({a, b}) = m
  BY <1>1, <1>2, <1>3
<1> QED
  BY <1>4 DEF m

-----------------------------------------------------------------------------
(* One layer of the plan *)

Lens == [l \in Layers |-> Len(case.stream[l])]
Costs(units) == [l \in Layers |-> Curve(l)[units[l]]]
Full == [l \in Layers |-> MaxCap]

\* What the first k layers can take.
Cap(k) == UpTo(Full, k)

LEMMA ConstantFacts ==
    /\ NLayers \in Nat /\ NLayers # 0 /\ MaxCap \in Nat /\ IsFiniteSet(Layers)
    /\ Layers = 1 .. NLayers
<1>1. NLayers \in Nat /\ NLayers # 0 /\ MaxCap \in Nat
  BY CachePoliciesAssumption DEF CachePoliciesAssumption
<1>2. 1 \in Int /\ NLayers \in Int
  BY <1>1
<1> QED
  BY <1>1, <1>2, FS_Interval DEF Layers

LEMMA CapFacts ==
    ASSUME NEW k \in 0 .. NLayers
    PROVE  /\ Cap(k) \in Nat /\ Cap(0) = 0
           /\ k > 0 => Cap(k) = Cap(k-1) + MaxCap
<1>1. \A l \in Layers : Full[l] \in Nat /\ Full[l] = MaxCap
  BY ConstantFacts DEF Full
<1>2. k > 0 => Full[k] = MaxCap
  BY <1>1, ConstantFacts
<1> QED
  BY <1>1, <1>2, UpToFacts DEF Cap

LEMMA LensFacts ==
    ASSUME TypeOK
    PROVE  /\ \A l \in Layers : Lens[l] \in Nat
           /\ NoWay = 1 + UpTo(Lens, NLayers) /\ NoWay \in Nat
           /\ \A k \in 0 .. NLayers : UpTo(Lens, k) \in Nat /\ UpTo(Lens, k) < NoWay
<1>1. \A l \in Layers : Lens[l] \in Nat
  <2>1. ASSUME NEW l \in Layers PROVE Len(case.stream[l]) \in Nat
    <3>1. case.stream[l] \in Seq(Experts)
      BY DEF TypeOK, Studies
    <3> QED
      BY <3>1, LenProperties
  <2> QED
    BY <2>1 DEF Lens
<1>2. DOMAIN Lens = Layers
  BY DEF Lens
<1>3. NoWay = 1 + SumFunction(Lens)
  BY DEF NoWay, Lens
<1>4. SumFunction(Lens) = UpTo(Lens, NLayers)
  BY <1>1, <1>2, SumIsTotal, ConstantFacts DEF UpTo
<1>5. \A k \in 0 .. NLayers : UpTo(Lens, k) \in Nat /\ UpTo(Lens, k) <= UpTo(Lens, NLayers)
  BY <1>1, UpToFacts
<1>6. UpTo(Lens, NLayers) \in Nat
  BY <1>5, ConstantFacts
<1> HIDE DEF Lens
<1> QED
  BY <1>1, <1>3, <1>4, <1>5, <1>6

\* A miss curve counts the requests that a slot-LRU missed: no more than there are,
\* and no more of them with more slots.
LEMMA CurveFacts ==
    ASSUME StackInv, Replayed, NEW l \in Layers, NEW c \in 0 .. MaxCap
    PROVE  /\ Curve(l)[c] \in Nat /\ Curve(l)[c] <= Lens[l]
           /\ Curve(l)[c] = Cardinality(slotMissed[l][c])
           /\ \A b \in 0 .. MaxCap : c <= b => Curve(l)[b] <= Curve(l)[c]
<1> DEFINE n == at[l]
           Hits(b) == {i \in 1 .. n : dist[l][i] <= b}
           Lost(b) == {i \in 1 .. n : dist[l][i] > b}
<1>1. n \in Nat /\ n = Lens[l]
  BY DEF StackInv, TypeOK, Replayed, Lens
<1>2. dist[l] \in Seq(Nat) /\ Len(dist[l]) = n
  BY DEF StackInv, TypeOK, Curves
<1>3. DOMAIN dist[l] = 1 .. n /\ \A i \in 1 .. n : dist[l][i] \in Nat
  BY <1>2, LenProperties, ElementOfSeq
<1>4. \A b \in 0 .. MaxCap : slotMissed[l][b] = Lost(b)
  BY DEF StackInv, Curves
<1>5. \A b \in 0 .. MaxCap : Curve(l)[b] = n - Cardinality(Hits(b))
  BY <1>2, <1>3 DEF Curve
<1>6. IsFiniteSet(1 .. n) /\ Cardinality(1 .. n) = n
  <2>1. 1 \in Int /\ n \in Int
    BY <1>1
  <2> HIDE DEF n
  <2>2. n \in Nat
    BY <1>1
  <2> QED
    BY <2>1, <2>2, FS_Interval
<1> HIDE DEF n
<1>7. ASSUME NEW b \in 0 .. MaxCap
      PROVE  /\ IsFiniteSet(Lost(b)) /\ Cardinality(Lost(b)) \in Nat /\ Cardinality(Lost(b)) <= n
             /\ Cardinality(Lost(b)) = n - Cardinality(Hits(b))
  <2>1. Hits(b) \in SUBSET (1 .. n) /\ Lost(b) \in SUBSET (1 .. n)
    OBVIOUS
  <2>2. Hits(b) \cap (1 .. n) = Hits(b)
    OBVIOUS
  <2>3. (1 .. n) \ Hits(b) = Lost(b)
    BY <1>3
  <2> HIDE DEF Hits, Lost
  <2>4. /\ IsFiniteSet(Lost(b)) /\ Cardinality(Lost(b)) <= Cardinality(1 .. n)
        /\ IsFiniteSet(Hits(b))
    BY <1>6, <2>1, FS_Subset
  <2>5. Cardinality(Lost(b)) \in Nat
    BY <2>4, FS_CardinalityType
  <2>6. Cardinality((1 .. n) \ Hits(b)) = Cardinality(1 .. n) - Cardinality((1 .. n) \cap Hits(b))
    BY <1>6, FS_Difference
  <2>7. (1 .. n) \cap Hits(b) = Hits(b)
    BY <2>1
  <2> QED
    BY <1>6, <2>3, <2>4, <2>5, <2>6, <2>7
<1>8. \A b \in 0 .. MaxCap : c <= b => Cardinality(Lost(b)) <= Cardinality(Lost(c))
  <2> TAKE b \in 0 .. MaxCap
  <2> HAVE c <= b
  <2>1. Lost(b) \in SUBSET Lost(c)
    <3>1. MaxCap \in Nat
      BY ConstantFacts
    <3> QED
      BY <1>3, <3>1
  <2> HIDE DEF Lost
  <2> QED
    BY <1>7, <2>1, FS_Subset
<1>9. \A b \in 0 .. MaxCap : Curve(l)[b] = Cardinality(Lost(b))
  <2> HIDE DEF Lost, Hits
  <2> QED
    BY <1>5, <1>7
<1> HIDE DEF Lost, Hits
<1> QED
  BY <1>1, <1>4, <1>7, <1>8, <1>9

\* Row d of the plan after k layers: within their capacity u units cost no more
\* misses than there are requests, beyond it there is no way to spend them.
Planned(d, k) ==
    /\ d \in [0 .. total -> Nat]
    /\ \A u \in 0 .. total : IF u <= Cap(k) THEN d[u] <= UpTo(Lens, k) ELSE d[u] = NoWay

\* No split among the first k layers is better than the row.
Unbeaten(d, k) ==
    \A units \in [Layers -> 0 .. MaxCap] :
        UpTo(units, k) <= total => d[UpTo(units, k)] <= UpTo(Costs(units), k)

\* Row d comes from row prev by giving layer k what row c of choice says.
Follows(d, prev, c, k) ==
    \A u \in 0 .. total :
        IF u <= Cap(k)
        THEN /\ c[u] \in 0 .. MaxCap /\ c[u] <= u /\ u - c[u] <= Cap(k-1)
             /\ d[u] = prev[u - c[u]] + Curve(k)[c[u]]
        ELSE c[u] = 0

NewRow(k) ==
    [u \in 0 .. total |-> IF Splits(u) # {} THEN dp[u - BestSplit(Curve(k), u)] + Curve(k)[BestSplit(Curve(k), u)]
                          ELSE NoWay]
NewChoice(k) == [u \in 0 .. total |-> IF Splits(u) # {} THEN BestSplit(Curve(k), u) ELSE 0]

\* What may be split off, and that the best of it is found.
LEMMA SplitFacts ==
    ASSUME StackInv, Replayed, total \in Nat, NEW k \in Layers, Planned(dp, k-1), NEW u \in 0 .. total
    PROVE  /\ \A j : j \in Splits(u) <=> j \in 0 .. MaxCap /\ j <= u /\ u - j <= Cap(k-1)
           /\ Splits(u) # {} <=> u <= Cap(k)
           /\ \A j \in Splits(u) : dp[u - j] \in Nat /\ dp[u - j] <= UpTo(Lens, k-1)
           /\ Splits(u) # {} =>
                 /\ BestSplit(Curve(k), u) \in Splits(u)
                 /\ \A j \in Splits(u) : dp[u - BestSplit(Curve(k), u)] + Curve(k)[BestSplit(Curve(k), u)]
                                            <= dp[u - j] + Curve(k)[j]
<1>1. k-1 \in 0 .. NLayers /\ k \in 0 .. NLayers /\ k > 0 /\ MaxCap \in Nat /\ u \in Nat /\ u <= total
  BY ConstantFacts
<1>2. Cap(k-1) \in Nat /\ Cap(k) = Cap(k-1) + MaxCap
  BY <1>1, CapFacts
<1>3. UpTo(Lens, k-1) < NoWay /\ NoWay \in Nat /\ UpTo(Lens, k-1) \in Nat
  <2>1. TypeOK
    BY DEF StackInv
  <2> QED
    BY <1>1, <2>1, LensFacts
<1>4. ASSUME NEW v \in 0 .. total
      PROVE  /\ dp[v] \in Nat /\ (dp[v] # NoWay <=> v <= Cap(k-1))
             /\ v <= Cap(k-1) => dp[v] <= UpTo(Lens, k-1)
  <2>1. dp[v] \in Nat /\ (IF v <= Cap(k-1) THEN dp[v] <= UpTo(Lens, k-1) ELSE dp[v] = NoWay)
    BY DEF Planned
  <2> QED
    BY <1>3, <2>1
<1>5. \A j : j \in 0 .. Min({MaxCap, u}) <=> j \in 0 .. MaxCap /\ j <= u
  <2>1. Min({MaxCap, u}) = IF MaxCap <= u THEN MaxCap ELSE u
    BY <1>1, LesserOf
  <2> QED
    BY <1>1, <2>1
<1>6. ASSUME NEW j \in 0 .. MaxCap, j <= u PROVE u - j \in 0 .. total
  BY <1>1, <1>6
<1>7. \A j : j \in Splits(u) <=> j \in 0 .. MaxCap /\ j <= u /\ u - j <= Cap(k-1)
  BY <1>4, <1>5, <1>6 DEF Splits
<1>8. ASSUME u <= Cap(k) PROVE Splits(u) # {}
  <2> DEFINE j == IF MaxCap <= u THEN MaxCap ELSE u
  <2>1. j \in 0 .. MaxCap /\ j <= u /\ u - j <= Cap(k-1)
    BY <1>1, <1>2, <1>8
  <2> QED
    BY <1>7, <2>1
<1>9. ASSUME NEW j \in Splits(u) PROVE u <= Cap(k)
  BY <1>1, <1>2, <1>7
<1>10. ASSUME NEW j \in Splits(u)
       PROVE  dp[u - j] \in Nat /\ dp[u - j] <= UpTo(Lens, k-1) /\ Curve(k)[j] \in Nat
  <2>1. j \in 0 .. MaxCap /\ u - j \in 0 .. total /\ u - j <= Cap(k-1)
    BY <1>6, <1>7
  <2> QED
    BY <1>4, <2>1, CurveFacts
<1>11. ASSUME Splits(u) # {}
       PROVE  /\ BestSplit(Curve(k), u) \in Splits(u)
              /\ \A j \in Splits(u) : dp[u - BestSplit(Curve(k), u)] + Curve(k)[BestSplit(Curve(k), u)]
                                         <= dp[u - j] + Curve(k)[j]
  <2> DEFINE T == Splits(u)
             value == [j \in T |-> dp[u - j] + Curve(k)[j]]
             P(i) == i \in T /\ \A j \in T : value[i] < value[j] \/ (value[i] = value[j] /\ i <= j)
  <2>1. T \in SUBSET Nat
    BY <1>1, <1>7
  <2>2. \A j \in T : value[j] \in Nat
    BY <1>10
  <2>3. BestSplit(Curve(k), u) = CHOOSE i : P(i)
    BY DEF BestSplit
  <2>4. \E i : P(i)
    <3> HIDE DEF value, T
    <3>1. \E i \in T : \A j \in T : value[i] < value[j] \/ (value[i] = value[j] /\ i <= j)
      BY <1>11, <2>1, <2>2, BestOf DEF T
    <3> QED
      BY <3>1
  <2> DEFINE b == CHOOSE i : P(i)
  <2>5. P(b)
    <3> HIDE DEF P
    <3> QED
      BY <2>4
  <2> HIDE DEF b
  <2>6. b \in T /\ \A j \in T : value[b] <= value[j]
    <3> HIDE DEF value, T
    <3> QED
      BY <2>2, <2>5
  <2>7. \A j \in T : dp[u - b] + Curve(k)[b] <= dp[u - j] + Curve(k)[j]
    BY <2>6
  <2> QED
    BY <2>3, <2>6, <2>7 DEF b
<1> QED
  BY <1>7, <1>8, <1>9, <1>10, <1>11

LEMMA PlanStep ==
    ASSUME StackInv, Replayed, total \in Nat, NEW k \in Layers, Planned(dp, k-1), Unbeaten(dp, k-1)
    PROVE  /\ Planned(NewRow(k), k) /\ Unbeaten(NewRow(k), k)
           /\ Follows(NewRow(k), dp, NewChoice(k), k)
<1> DEFINE best(u) == BestSplit(Curve(k), u)
           d == NewRow(k)
<1>1. k-1 \in 0 .. NLayers /\ k \in 0 .. NLayers /\ k > 0 /\ MaxCap \in Nat
  BY ConstantFacts
<1>2. /\ \A l \in Layers : Lens[l] \in Nat
      /\ UpTo(Lens, k-1) \in Nat /\ UpTo(Lens, k) = UpTo(Lens, k-1) + Lens[k] /\ NoWay \in Nat
  <2>1. TypeOK
    BY DEF StackInv
  <2>2. (\A l \in Layers : Lens[l] \in Nat) /\ NoWay \in Nat
    BY <2>1, LensFacts
  <2> QED
    BY <1>1, <2>2, UpToFacts
<1>3. ASSUME NEW u \in 0 .. total, u <= Cap(k)
      PROVE  /\ best(u) \in 0 .. MaxCap /\ best(u) <= u /\ u - best(u) <= Cap(k-1)
             /\ d[u] = dp[u - best(u)] + Curve(k)[best(u)] /\ NewChoice(k)[u] = best(u)
             /\ d[u] \in Nat /\ d[u] <= UpTo(Lens, k)
             /\ \A j \in Splits(u) : d[u] <= dp[u - j] + Curve(k)[j]
  <2>1. Splits(u) # {}
    BY <1>3, SplitFacts
  <2>2. /\ best(u) \in Splits(u)
        /\ \A j \in Splits(u) : dp[u - best(u)] + Curve(k)[best(u)] <= dp[u - j] + Curve(k)[j]
    BY <2>1, SplitFacts
  <2>3. d[u] = dp[u - best(u)] + Curve(k)[best(u)] /\ NewChoice(k)[u] = best(u)
    BY <2>1 DEF NewRow, NewChoice
  <2> HIDE DEF best, d
  <2>4. /\ best(u) \in 0 .. MaxCap /\ best(u) <= u /\ u - best(u) <= Cap(k-1)
        /\ dp[u - best(u)] \in Nat /\ dp[u - best(u)] <= UpTo(Lens, k-1)
    BY <2>2, SplitFacts
  <2>5. Curve(k)[best(u)] \in Nat /\ Curve(k)[best(u)] <= Lens[k]
    BY <2>4, CurveFacts
  <2>6. d[u] \in Nat /\ d[u] <= UpTo(Lens, k)
    <3>1. \A a, b, c, e \in Nat : a <= c /\ b <= e => a + b \in Nat /\ a + b <= c + e
      OBVIOUS
    <3>2. Lens[k] \in Nat
      BY <1>2
    <3> QED
      BY <1>2, <2>3, <2>4, <2>5, <3>1, <3>2
  <2> QED
    BY <2>2, <2>3, <2>4, <2>6
<1>4. ASSUME NEW u \in 0 .. total, ~ (u <= Cap(k))
      PROVE  d[u] = NoWay /\ NewChoice(k)[u] = 0
  <2>1. Splits(u) = {}
    BY <1>4, SplitFacts
  <2> QED
    BY <2>1 DEF NewRow, NewChoice
<1>5. Planned(d, k)
  <2>1. \A u \in 0 .. total : d[u] \in Nat
    BY <1>2, <1>3, <1>4
  <2>2. d \in [0 .. total -> Nat]
    <3>1. d = [u \in 0 .. total |-> d[u]]
      BY DEF NewRow
    <3> HIDE DEF d
    <3> QED
      BY <2>1, <3>1
  <2> HIDE DEF d
  <2> QED
    BY <1>3, <1>4, <2>2 DEF Planned
<1>6. Follows(d, dp, NewChoice(k), k)
  <2> HIDE DEF d, best
  <2> QED
    BY <1>3, <1>4 DEF Follows
<1>7. ASSUME NEW units \in [Layers -> 0 .. MaxCap], UpTo(units, k) <= total
      PROVE  d[UpTo(units, k)] <= UpTo(Costs(units), k)
  <2> DEFINE u == UpTo(units, k)
             v == UpTo(units, k-1)
             j == units[k]
             C == Costs(units)
  <2>1. \A l \in Layers : units[l] \in Nat
    BY <1>1
  <2>2. u \in Nat /\ v \in Nat /\ u = v + j /\ j \in 0 .. MaxCap
    BY <1>1, <2>1, UpToFacts
  <2>3. v <= Cap(k-1)
    <3>1. IsFiniteSet(1 .. k-1)
      <4>1. 1 \in Int /\ k-1 \in Int
        BY <1>1
      <4> QED
        BY <4>1, FS_Interval
    <3>2. \A l \in 1 .. k-1 : units[l] \in Nat /\ Full[l] \in Nat /\ units[l] <= Full[l]
      BY <1>1, ConstantFacts DEF Full
    <3> QED
      BY <3>1, <3>2, SizeGrows DEF UpTo, Cap
  <2>4. \A l \in Layers : C[l] \in Nat /\ C[l] = Curve(l)[units[l]]
    BY CurveFacts DEF Costs
  <2>5. UpTo(C, k-1) \in Nat /\ UpTo(C, k) = UpTo(C, k-1) + C[k]
    BY <1>1, <2>4, UpToFacts
  <2>6. u \in 0 .. total /\ v \in 0 .. total /\ v = u - j /\ j <= u
    BY <1>7, <2>2
  <2>7. dp[v] <= UpTo(C, k-1)
    BY <2>6 DEF Unbeaten
  <2>8. j \in Splits(u)
    <3> HIDE DEF u, v, j
    <3> QED
      BY <2>2, <2>3, <2>6, SplitFacts
  <2>9. u <= Cap(k) /\ dp[v] \in Nat
    <3> HIDE DEF u, v, j
    <3>1. Splits(u) # {}
      BY <2>8
    <3> QED
      BY <2>6, <2>8, <3>1, SplitFacts
  <2>10. d[u] \in Nat /\ d[u] <= dp[v] + Curve(k)[j]
    <3> HIDE DEF u, v, j, d
    <3> QED
      BY <1>3, <2>6, <2>8, <2>9
  <2>11. C[k] \in Nat /\ C[k] = Curve(k)[j]
    BY <2>4
  <2> HIDE DEF u, v, j, C, d
  <2>12. d[u] <= UpTo(C, k)
    BY <2>5, <2>7, <2>9, <2>10, <2>11
  <2> QED
    BY <2>12 DEF u, C
<1>8. Unbeaten(d, k)
  <2> HIDE DEF d
  <2> QED
    BY <1>7 DEF Unbeaten
<1> QED
  BY <1>5, <1>6, <1>8

-----------------------------------------------------------------------------
(* The stages of the plan *)

\* The rows of the plan down to row k: where the units of each came from.
Rows(F, k) ==
    /\ F \in [0 .. k -> [0 .. total -> Nat]]
    /\ F[0][0] = 0
    /\ \A j \in 1 .. k : Follows(F[j], F[j-1], choice[j], j)

ReplayStage == phase = "replay" /\ allocation = [l \in Layers |-> 0]

PlanStage ==
    /\ phase = "plan" /\ Replayed /\ allocation = [l \in Layers |-> 0]
    /\ layer \in Layers
    /\ Planned(dp, layer-1) /\ Unbeaten(dp, layer-1)
    /\ \E F : Rows(F, layer-1) /\ F[layer-1] = dp

\* What is handed out and the row that what is left is looked up in make up the plan.
Spent(F) ==
    /\ left \in 0 .. total
    /\ IF total <= Cap(NLayers)
       THEN /\ left <= Cap(layer)
            /\ F[layer][left] + After(Costs(allocation), layer) = dp[total]
            /\ left + After(allocation, layer) = total
       ELSE left = total

SpendStage ==
    /\ phase \in {"spend", "done", "failed"} /\ Replayed
    /\ layer \in 0 .. NLayers
    /\ allocation \in [Layers -> 0 .. MaxCap]
    /\ Planned(dp, NLayers) /\ Unbeaten(dp, NLayers)
    /\ \E F : Rows(F, NLayers) /\ F[NLayers] = dp /\ Spent(F)
    /\ phase # "spend" => layer = 0
    /\ phase = "done" => left = 0
    /\ phase = "failed" => left # 0

PlanInv ==
    /\ StackInv
    /\ total \in Nat /\ DOMAIN choice = Layers
    /\ ReplayStage \/ PlanStage \/ SpendStage

\* The plan does not touch what the replay has left.
LEMMA ReplayKept ==
    ASSUME StackInv, Replayed, UNCHANGED vars
    PROVE  /\ StackInv' /\ Replayed' /\ Lens' = Lens /\ NoWay' = NoWay
           /\ \A l \in Layers : Curve(l)' = Curve(l)
           /\ \A units : Costs(units)' = Costs(units)
<1>1. StackInv'
  BY NextStack
<1>2. case' = case /\ at' = at /\ dist' = dist
  BY DEF vars
<1>3. Replayed' /\ Lens' = Lens /\ NoWay' = NoWay
  BY <1>2 DEF Replayed, Lens, NoWay
<1>4. \A l \in Layers : Curve(l)' = Curve(l)
  BY <1>2 DEF Curve
<1>5. \A units : Costs(units)' = Costs(units)
  BY <1>4 DEF Costs
<1> QED
  BY <1>1, <1>3, <1>4, <1>5

LEMMA InitPlan == WaterFillInit => PlanInv
<1> SUFFICES ASSUME WaterFillInit PROVE PlanInv
  OBVIOUS
<1>1. StackInv
  BY InitStack DEF WaterFillInit
<1> QED
  BY <1>1 DEF WaterFillInit, PlanInv, ReplayStage

LEMMA ReplayKeepsPlan ==
    ASSUME PlanInv, Replay
    PROVE  PlanInv'
<1>1. StackInv'
  BY NextStack DEF PlanInv, Replay
<1>2. ReplayStage
  BY DEF PlanInv, Replay, PlanStage, SpendStage
<1> QED
  BY <1>1, <1>2 DEF PlanInv, Replay, ReplayStage, planVars

\* Before the first layer: no units, no misses.
LEMMA StartKeepsPlan ==
    ASSUME PlanInv, StartPlan
    PROVE  PlanInv'
<1>1. /\ StackInv /\ Replayed /\ UNCHANGED vars /\ phase' = "plan" /\ layer' = 1
      /\ dp' = [u \in 0 .. total' |-> IF u = 0 THEN 0 ELSE NoWay]
      /\ choice' = choice /\ DOMAIN choice' = Layers
      /\ allocation' = [l \in Layers |-> 0]
  BY DEF PlanInv, StartPlan, ReplayStage, PlanStage, SpendStage
<1>2. total' \in Nat
  BY WaterFillAssumption DEF StartPlan, WaterFillAssumption
<1>3. /\ StackInv' /\ Replayed' /\ Lens' = Lens /\ NoWay' = NoWay
      /\ \A units : Costs(units)' = Costs(units)
  BY <1>1, ReplayKept
<1>4. TypeOK /\ 0 \in 0 .. NLayers /\ MaxCap \in Nat /\ 1 \in Layers
  BY <1>1, ConstantFacts DEF StackInv
<1>5. NoWay \in Nat /\ \A l \in Layers : Lens[l] \in Nat
  BY <1>4, LensFacts
<1>6. Cap(0) = 0 /\ UpTo(Lens, 0) = 0
  BY <1>4, <1>5, CapFacts, UpToFacts
<1>7. dp' \in [0 .. total' -> Nat] /\ dp'[0] = 0 /\ \A u \in 0 .. total' : u > 0 => dp'[u] = NoWay
  BY <1>1, <1>2, <1>5
<1>8. Planned(dp, 0)'
  <2>1. \A u \in 0 .. total' : IF u <= Cap(0) THEN dp'[u] <= UpTo(Lens', 0) ELSE dp'[u] = NoWay'
    BY <1>2, <1>3, <1>6, <1>7
  <2> QED
    BY <1>7, <2>1 DEF Planned
<1>9. Unbeaten(dp, 0)'
  <2>1. ASSUME NEW units \in [Layers -> 0 .. MaxCap] PROVE dp'[UpTo(units, 0)] <= UpTo(Costs(units)', 0)
    <3>1. \A l \in Layers : units[l] \in Nat
      BY <1>4
    <3>2. \A l \in Layers : Costs(units)[l] \in Nat
      BY <1>1, CurveFacts DEF Costs
    <3>3. UpTo(units, 0) = 0 /\ UpTo(Costs(units), 0) = 0
      BY <1>4, <3>1, <3>2, UpToFacts
    <3> QED
      BY <1>3, <1>7, <3>3
  <2> QED
    BY <2>1 DEF Unbeaten
<1>10. \E F : Rows(F, 0)' /\ F[0] = dp'
  <2>1. PICK F : F = [j \in 0 .. 0 |-> dp']
    OBVIOUS
  <2>2. F \in [0 .. 0 -> [0 .. total' -> Nat]] /\ F[0] = dp' /\ F[0][0] = 0
    BY <1>7, <2>1
  <2>3. \A j : j \notin 1 .. 0
    OBVIOUS
  <2>4. Rows(F, 0)'
    BY <2>2, <2>3 DEF Rows
  <2> QED
    BY <2>2, <2>4
<1>11. layer' - 1 = 0 /\ layer' \in Layers
  BY <1>1, <1>4
<1>12. PlanStage'
  BY <1>1, <1>3, <1>8, <1>9, <1>10, <1>11 DEF PlanStage
<1> QED
  BY <1>1, <1>2, <1>3, <1>12 DEF PlanInv

\* A row more; after the last one, nothing is handed out yet.
LEMMA LayerKeepsPlan ==
    ASSUME PlanInv, PlanLayer
    PROVE  PlanInv'
<1> DEFINE k == layer
<1>1. /\ StackInv /\ Replayed /\ UNCHANGED vars /\ total' = total /\ total \in Nat
      /\ DOMAIN choice = Layers /\ k \in Layers
      /\ allocation' = allocation /\ allocation = [l \in Layers |-> 0]
      /\ Planned(dp, k-1) /\ Unbeaten(dp, k-1)
      /\ \E F : Rows(F, k-1) /\ F[k-1] = dp
  BY DEF PlanInv, PlanLayer, ReplayStage, PlanStage, SpendStage
<1>2. k-1 \in 0 .. NLayers /\ k \in 0 .. NLayers /\ k > 0 /\ MaxCap \in Nat /\ NLayers \in Nat
  BY <1>1, ConstantFacts
<1>3. dp' = NewRow(k) /\ choice' = [choice EXCEPT ![k] = NewChoice(k)]
  BY DEF PlanLayer, NewRow, NewChoice
<1>4. IF k < NLayers THEN layer' = k + 1 /\ phase' = "plan"
      ELSE phase' = "spend" /\ left' = total /\ layer' = k
  BY DEF PlanLayer
<1>5. /\ StackInv' /\ Replayed' /\ Lens' = Lens /\ NoWay' = NoWay
      /\ \A l \in Layers : Curve(l)' = Curve(l)
      /\ \A units : Costs(units)' = Costs(units)
  BY <1>1, ReplayKept
<1> HIDE DEF k
<1>6. Planned(dp', k) /\ Unbeaten(dp', k) /\ Follows(dp', dp, choice'[k], k)
  <2>1. choice'[k] = NewChoice(k)
    BY <1>1, <1>3
  <2> QED
    BY <1>1, <1>3, <2>1, PlanStep
<1>7. dp' \in [0 .. total -> Nat]
  BY <1>6 DEF Planned
<1>8. \E F : /\ F \in [0 .. k -> [0 .. total -> Nat]] /\ F[0][0] = 0 /\ F[k] = dp'
             /\ \A j \in 1 .. k : Follows(F[j], F[j-1], choice'[j], j)
  <2>1. PICK F : Rows(F, k-1) /\ F[k-1] = dp
    BY <1>1
  <2>2. PICK G : G = [j \in 0 .. k |-> IF j = k THEN dp' ELSE F[j]]
    OBVIOUS
  <2>3. F \in [0 .. k-1 -> [0 .. total -> Nat]] /\ F[0][0] = 0
    BY <2>1 DEF Rows
  <2>4. ASSUME NEW j \in 0 .. k PROVE G[j] \in [0 .. total -> Nat]
    <3>1. CASE j = k
      BY <1>7, <2>2, <3>1
    <3>2. CASE j # k
      <4>1. j \in 0 .. k-1
        BY <1>2, <3>2
      <4> QED
        BY <2>2, <2>3, <3>2, <4>1
    <3> QED
      BY <3>1, <3>2
  <2>5. G \in [0 .. k -> [0 .. total -> Nat]]
    BY <2>2, <2>4
  <2>6. G[0] = F[0] /\ G[k] = dp' /\ G[k-1] = dp
    BY <1>2, <2>1, <2>2
  <2>7. ASSUME NEW j \in 1 .. k PROVE Follows(G[j], G[j-1], choice'[j], j)
    <3>1. CASE j = k
      BY <1>6, <2>6, <3>1
    <3>2. CASE j # k
      <4>1. j \in 1 .. k-1 /\ j \in 0 .. k /\ j-1 \in 0 .. k /\ j-1 # k /\ j \in Layers
        BY <1>2, <3>2, ConstantFacts
      <4>2. G[j] = F[j] /\ G[j-1] = F[j-1]
        BY <2>2, <3>2, <4>1
      <4>3. choice'[j] = choice[j]
        BY <1>1, <1>3, <3>2, <4>1
      <4>4. Follows(F[j], F[j-1], choice[j], j)
        BY <2>1, <4>1 DEF Rows
      <4> QED
        BY <4>2, <4>3, <4>4
    <3> QED
      BY <3>1, <3>2
  <2> QED
    BY <2>3, <2>5, <2>6, <2>7
<1>9. /\ dp' \in [0 .. total' -> Nat]
      /\ \A u \in 0 .. total' : IF u <= Cap(k) THEN dp'[u] <= UpTo(Lens', k) ELSE dp'[u] = NoWay'
  <2>1. \A u \in 0 .. total : IF u <= Cap(k) THEN dp'[u] <= UpTo(Lens, k) ELSE dp'[u] = NoWay
    BY <1>6 DEF Planned
  <2> QED
    BY <1>1, <1>5, <1>7, <2>1
<1>10. \A units \in [Layers -> 0 .. MaxCap] :
         UpTo(units, k) <= total' => dp'[UpTo(units, k)] <= UpTo(Costs(units)', k)
  BY <1>1, <1>5, <1>6 DEF Unbeaten
<1>11. PICK F : /\ F \in [0 .. k -> [0 .. total -> Nat]] /\ F[0][0] = 0 /\ F[k] = dp'
                /\ \A j \in 1 .. k : Follows(F[j], F[j-1], choice'[j], j)
  BY <1>8
<1>12. \A j \in 1 .. k : j \in Layers
  BY <1>2, ConstantFacts
<1>13. \A j \in 1 .. k, u \in 0 .. total' :
         IF u <= Cap(j)
         THEN /\ choice'[j][u] \in 0 .. MaxCap /\ choice'[j][u] <= u /\ u - choice'[j][u] <= Cap(j-1)
              /\ F[j][u] = F[j-1][u - choice'[j][u]] + Curve(j)'[choice'[j][u]]
         ELSE choice'[j][u] = 0
  BY <1>1, <1>5, <1>11, <1>12 DEF Follows
<1>14. CASE k < NLayers
  <2>1. layer' - 1 = k /\ layer' \in Layers /\ phase' = "plan"
    BY <1>2, <1>4, <1>14, ConstantFacts
  <2>2. Planned(dp, layer-1)' /\ Unbeaten(dp, layer-1)'
    BY <1>9, <1>10, <2>1 DEF Planned, Unbeaten
  <2>3. Rows(F, layer-1)' /\ F[layer'-1] = dp'
    BY <1>1, <1>11, <1>13, <2>1 DEF Rows, Follows
  <2>4. PlanStage'
    BY <1>1, <1>5, <2>1, <2>2, <2>3 DEF PlanStage
  <2> QED
    BY <1>1, <1>3, <1>5, <2>4 DEF PlanInv
<1>15. CASE ~ (k < NLayers)
  <2>1. k = NLayers /\ layer' = NLayers /\ phase' = "spend" /\ left' = total
    BY <1>1, <1>2, <1>4, <1>15, ConstantFacts
  <2>2. Planned(dp, NLayers)' /\ Unbeaten(dp, NLayers)'
    BY <1>9, <1>10, <2>1 DEF Planned, Unbeaten
  <2>3. Rows(F, NLayers)' /\ F[NLayers] = dp'
    BY <1>1, <1>11, <1>13, <2>1 DEF Rows, Follows
  <2>4. allocation' \in [Layers -> 0 .. MaxCap] /\ \A l \in Layers : allocation'[l] \in Nat
    BY <1>1, <1>2
  <2>5. Spent(F)'
    <3>1. After(allocation', NLayers) = 0
      BY <1>2, <2>1, <2>4, AfterFacts
    <3>2. After(Costs(allocation'), NLayers) = 0
      <4>1. \A l \in Layers : Costs(allocation')[l] \in Nat
        BY <1>1, <2>4, CurveFacts DEF Costs
      <4> QED
        BY <1>2, <2>1, <4>1, AfterFacts
    <3>3. Costs(allocation)' = Costs(allocation')
      BY <1>5 DEF Costs
    <3>4. dp'[total] \in Nat
      BY <1>1, <1>7
    <3>5. F[NLayers][total] + 0 = dp'[total] /\ total + 0 = total
      BY <1>1, <1>11, <2>1, <3>4
    <3>6. left' \in 0 .. total'
      BY <1>1, <2>1
    <3> QED
      BY <1>1, <2>1, <3>1, <3>2, <3>3, <3>5, <3>6 DEF Spent
  <2>6. NLayers \in 0 .. NLayers
    BY <1>2
  <2>7. SpendStage'
    BY <1>5, <2>1, <2>2, <2>3, <2>4, <2>5, <2>6 DEF SpendStage
  <2> QED
    BY <1>1, <1>3, <1>5, <2>7 DEF PlanInv
<1> QED
  BY <1>14, <1>15

\* The units of one layer are handed out.
LEMMA SpendKeepsPlan ==
    ASSUME PlanInv, SpendLayer
    PROVE  PlanInv'
<1> DEFINE k == layer
           c == choice[k][left]
<1>1. /\ StackInv /\ Replayed /\ UNCHANGED vars /\ total' = total /\ total \in Nat
      /\ choice' = choice /\ dp' = dp /\ DOMAIN choice = Layers
      /\ phase' = "spend" /\ k \in 0 .. NLayers /\ k > 0
      /\ allocation \in [Layers -> 0 .. MaxCap]
      /\ allocation' = [allocation EXCEPT ![k] = c] /\ left' = left - c /\ layer' = k - 1
      /\ Planned(dp, NLayers) /\ Unbeaten(dp, NLayers)
  BY DEF PlanInv, SpendLayer, ReplayStage, PlanStage, SpendStage
<1>2. PICK F : Rows(F, NLayers) /\ F[NLayers] = dp /\ Spent(F)
  BY DEF PlanInv, SpendLayer, ReplayStage, PlanStage, SpendStage
<1>3. /\ k-1 \in 0 .. NLayers /\ k \in Layers /\ k \in 1 .. NLayers /\ MaxCap \in Nat
      /\ NLayers \in 0 .. NLayers
  BY <1>1, ConstantFacts
<1>4. /\ StackInv' /\ Replayed' /\ Lens' = Lens /\ NoWay' = NoWay
      /\ \A l \in Layers : Curve(l)' = Curve(l)
      /\ \A units : Costs(units)' = Costs(units)
  BY <1>1, ReplayKept
<1>5. left \in 0 .. total /\ left \in Nat
  BY <1>1, <1>2 DEF Spent
<1> HIDE DEF k
<1>6. /\ IF left <= Cap(k)
         THEN /\ c \in 0 .. MaxCap /\ c <= left /\ left - c <= Cap(k-1)
              /\ F[k][left] = F[k-1][left - c] + Curve(k)[c]
         ELSE c = 0
  <2>1. Follows(F[k], F[k-1], choice[k], k)
    BY <1>2, <1>3 DEF Rows
  <2> QED
    BY <1>5, <2>1 DEF Follows
<1> HIDE DEF c
<1>7. c \in 0 .. MaxCap /\ c <= left /\ c \in Nat /\ left - c \in 0 .. total
  BY <1>1, <1>3, <1>5, <1>6
<1>8. allocation' \in [Layers -> 0 .. MaxCap] /\ allocation'[k] = c
      /\ \A l \in Layers : l # k => allocation'[l] = allocation[l]
  BY <1>1, <1>3, <1>7
<1>9. Spent(F)'
  <2>1. CASE total <= Cap(NLayers)
    <3>1. /\ left <= Cap(k)
          /\ F[k][left] + After(Costs(allocation), k) = dp[total]
          /\ left + After(allocation, k) = total
      BY <1>2, <2>1 DEF Spent, k
    <3>2. left - c <= Cap(k-1) /\ F[k][left] = F[k-1][left - c] + Curve(k)[c]
      BY <1>6, <3>1
    <3>3. \A l \in k+1 .. NLayers : l \in Layers /\ l # k
      BY <1>3, ConstantFacts
    <3>4. /\ \A l \in Layers : allocation[l] \in Nat /\ allocation'[l] \in Nat
          /\ \A l \in Layers : /\ Costs(allocation)[l] \in Nat /\ Costs(allocation')[l] \in Nat
                               /\ Costs(allocation')[l] = Curve(l)[allocation'[l]]
                               /\ Costs(allocation)[l] = Curve(l)[allocation[l]]
      BY <1>1, <1>8, CurveFacts DEF Costs
    <3>5. After(allocation', k-1) = c + After(allocation, k) /\ After(allocation, k) \in Nat
      <4>1. After(allocation', k-1) = allocation'[k] + After(allocation', k)
        BY <1>1, <1>3, <3>4, AfterFacts
      <4>2. \A l \in k+1 .. NLayers : allocation'[l] = allocation[l]
        BY <1>8, <3>3
      <4>3. After(allocation', k) = After(allocation, k)
        BY <4>2, SizeSame DEF After
      <4>4. After(allocation, k) \in Nat
        BY <1>3, <3>4, AfterFacts
      <4> QED
        BY <1>8, <4>1, <4>3, <4>4
    <3>6. /\ After(Costs(allocation'), k-1) = Curve(k)[c] + After(Costs(allocation), k)
          /\ After(Costs(allocation), k) \in Nat
      <4>1. After(Costs(allocation'), k-1) = Costs(allocation')[k] + After(Costs(allocation'), k)
        BY <1>1, <1>3, <3>4, AfterFacts
      <4>2. \A l \in k+1 .. NLayers : Costs(allocation')[l] = Costs(allocation)[l]
        BY <1>8, <3>3, <3>4
      <4>3. After(Costs(allocation'), k) = After(Costs(allocation), k)
        BY <4>2, SizeSame DEF After
      <4>4. After(Costs(allocation), k) \in Nat
        BY <1>3, <3>4, AfterFacts
      <4>5. Costs(allocation')[k] = Curve(k)[c]
        BY <1>3, <1>8, <3>4
      <4> QED
        BY <4>1, <4>3, <4>4, <4>5
    <3>7. F[k-1][left - c] \in Nat /\ Curve(k)[c] \in Nat
      <4>1. F[k-1] \in [0 .. total -> Nat]
        BY <1>2, <1>3 DEF Rows
      <4>2. Curve(k)[c] \in Nat
        BY <1>1, <1>3, <1>7, CurveFacts
      <4> QED
        BY <1>7, <4>1, <4>2
    <3>8. F[k-1][left - c] + After(Costs(allocation'), k-1) = dp[total]
      BY <3>1, <3>2, <3>6, <3>7
    <3>9. (left - c) + After(allocation', k-1) = total
      BY <1>1, <1>5, <1>7, <3>1, <3>5
    <3>10. Costs(allocation)' = Costs(allocation')
      BY <1>4 DEF Costs
    <3> QED
      BY <1>1, <1>7, <2>1, <3>2, <3>8, <3>9, <3>10 DEF Spent
  <2>2. CASE ~ (total <= Cap(NLayers))
    <3>1. left = total
      BY <1>2, <2>2 DEF Spent
    <3>2. Cap(k) <= Cap(NLayers) /\ Cap(k) \in Nat /\ Cap(NLayers) \in Nat
      <4>1. \A l \in Layers : Full[l] \in Nat
        BY <1>3 DEF Full
      <4> QED
        BY <1>1, <1>3, <4>1, UpToFacts DEF Cap
    <3>3. c = 0
      BY <1>1, <1>6, <2>2, <3>1, <3>2
    <3>4. left' = total'
      BY <1>1, <3>1, <3>3
    <3> QED
      BY <1>1, <2>2, <3>4 DEF Spent
  <2> QED
    BY <2>1, <2>2
<1>10. Planned(dp, NLayers)' /\ Unbeaten(dp, NLayers)'
  BY <1>1, <1>4 DEF Planned, Unbeaten
<1>11. Rows(F, NLayers)'
  <2>1. \A j \in 1 .. NLayers : Follows(F[j], F[j-1], choice[j], j)'
    <3> TAKE j \in 1 .. NLayers
    <3>1. Curve(j)' = Curve(j)
      BY <1>4, ConstantFacts
    <3> QED
      BY <1>1, <1>2, <3>1 DEF Rows, Follows
  <2> QED
    BY <1>1, <1>2, <2>1 DEF Rows
<1>12. SpendStage'
  BY <1>1, <1>2, <1>3, <1>4, <1>8, <1>9, <1>10, <1>11 DEF SpendStage
<1> QED
  BY <1>1, <1>4, <1>12 DEF PlanInv

LEMMA FinishKeepsPlan ==
    ASSUME PlanInv, FinishPlan
    PROVE  PlanInv'
<1>1. /\ StackInv /\ Replayed /\ UNCHANGED vars /\ total \in Nat /\ DOMAIN choice = Layers
      /\ UNCHANGED <<total, layer, dp, choice, allocation, left>> /\ layer = 0
      /\ phase' = IF left = 0 THEN "done" ELSE "failed"
      /\ layer \in 0 .. NLayers /\ allocation \in [Layers -> 0 .. MaxCap]
      /\ Planned(dp, NLayers) /\ Unbeaten(dp, NLayers)
  BY DEF PlanInv, FinishPlan, ReplayStage, PlanStage, SpendStage
<1>2. PICK F : Rows(F, NLayers) /\ F[NLayers] = dp /\ Spent(F)
  BY DEF PlanInv, FinishPlan, ReplayStage, PlanStage, SpendStage
<1>3. /\ StackInv' /\ Replayed' /\ Lens' = Lens /\ NoWay' = NoWay
      /\ \A l \in Layers : Curve(l)' = Curve(l)
      /\ \A units : Costs(units)' = Costs(units)
  BY <1>1, ReplayKept
<1>4. Planned(dp, NLayers)' /\ Unbeaten(dp, NLayers)'
  BY <1>1, <1>3 DEF Planned, Unbeaten
<1>5. Rows(F, NLayers)'
  <2>1. \A j \in 1 .. NLayers : Follows(F[j], F[j-1], choice[j], j)'
    <3> TAKE j \in 1 .. NLayers
    <3>1. Curve(j)' = Curve(j)
      BY <1>3, ConstantFacts
    <3> QED
      BY <1>1, <1>2, <3>1 DEF Rows, Follows
  <2> QED
    BY <1>1, <1>2, <2>1 DEF Rows
<1>6. Spent(F)'
  <2>1. Costs(allocation)' = Costs(allocation)
    BY <1>1, <1>3 DEF Costs
  <2> QED
    BY <1>1, <1>2, <2>1 DEF Spent
<1>7. phase' \in {"done", "failed"} /\ (phase' = "done" <=> left = 0)
  BY <1>1
<1>8. SpendStage'
  BY <1>1, <1>2, <1>3, <1>4, <1>5, <1>6, <1>7 DEF SpendStage
<1> QED
  BY <1>1, <1>3, <1>8 DEF PlanInv

LEMMA NextPlan == PlanInv /\ [WaterFillNext]_allVars => PlanInv'
<1> SUFFICES ASSUME PlanInv, [WaterFillNext]_allVars PROVE PlanInv'
  OBVIOUS
<1>1. CASE UNCHANGED allVars
  <2>1. /\ StackInv' /\ UNCHANGED vars
        /\ UNCHANGED <<phase, total, layer, dp, choice, allocation, left>>
    BY <1>1, NextStack DEF PlanInv, allVars, planVars
  <2>2. CASE ReplayStage
    BY <2>1, <2>2 DEF PlanInv, ReplayStage
  <2>3. CASE Replayed
    <3>1. /\ Replayed' /\ Lens' = Lens /\ NoWay' = NoWay
          /\ \A l \in Layers : Curve(l)' = Curve(l)
          /\ \A units : Costs(units)' = Costs(units)
      BY <2>1, <2>3, ReplayKept DEF PlanInv
    <3>2. \A k : /\ Planned(dp, k)' = Planned(dp, k)
                 /\ Unbeaten(dp, k)' = Unbeaten(dp, k)
      BY <2>1, <3>1 DEF Planned, Unbeaten
    <3>3. ASSUME NEW F, NEW k \in 0 .. NLayers, Rows(F, k) PROVE Rows(F, k)'
      <4>1. \A j \in 1 .. k : Follows(F[j], F[j-1], choice[j], j)'
        <5> TAKE j \in 1 .. k
        <5>1. j \in Layers
          BY ConstantFacts
        <5>2. Curve(j)' = Curve(j)
          BY <3>1, <5>1
        <5> QED
          BY <2>1, <3>3, <5>2 DEF Rows, Follows
      <4> QED
        BY <2>1, <3>3, <4>1 DEF Rows
    <3>4. ASSUME NEW F, Spent(F) PROVE Spent(F)'
      <4>1. Costs(allocation)' = Costs(allocation)
        BY <2>1, <3>1 DEF Costs
      <4> QED
        BY <2>1, <3>4, <4>1 DEF Spent
    <3>5. PlanStage => PlanStage'
      <4>1. layer \in Layers => layer - 1 \in 0 .. NLayers
        BY ConstantFacts
      <4> QED
        BY <2>1, <3>1, <3>2, <3>3, <4>1 DEF PlanStage
    <3>6. SpendStage => SpendStage'
      <4>1. NLayers \in 0 .. NLayers
        BY ConstantFacts
      <4> QED
        BY <2>1, <3>1, <3>2, <3>3, <3>4, <4>1 DEF SpendStage
    <3>7. ReplayStage => ReplayStage'
      BY <2>1 DEF ReplayStage
    <3> QED
      BY <2>1, <3>5, <3>6, <3>7 DEF PlanInv
  <2> QED
    BY <2>2, <2>3 DEF PlanInv, PlanStage, SpendStage
<1> QED
  BY <1>1, ReplayKeepsPlan, StartKeepsPlan, LayerKeepsPlan, SpendKeepsPlan, FinishKeepsPlan
     DEF WaterFillNext

-----------------------------------------------------------------------------
(* What the plan is worth *)

LEMMA EqualParts ==
    ASSUME NEW S, IsFiniteSet(S), NEW f, NEW z \in Nat, \A x \in S : f[x] = z
    PROVE  Size(f, S) = Cardinality(S) * z
<1>1. SumFunctionOnSet(f, S) = Cardinality(S) * z
  BY UniformSum
<1>2. SumFunctionOnSet(f, S) = Size(f, S)
  BY SumIsSize
<1> QED
  BY <1>1, <1>2

LEMMA TwoParts ==
    ASSUME NEW f, \A l \in Layers : f[l] \in Nat, NEW k \in 0 .. NLayers
    PROVE  UpTo(f, NLayers) = UpTo(f, k) + After(f, k)
<1> DEFINE S == 1 .. k
           T == k+1 .. NLayers
<1>1. NLayers \in Nat /\ Layers = 1 .. NLayers
  BY ConstantFacts
<1>2. 1 .. NLayers = S \cup T /\ S \cap T = {} /\ S \subseteq Layers /\ T \subseteq Layers
  BY <1>1
<1>3. IsFiniteSet(S) /\ IsFiniteSet(T)
  <2>1. 1 \in Int /\ k \in Int /\ k+1 \in Int /\ NLayers \in Int
    BY <1>1
  <2> QED
    BY <2>1, FS_Interval
<1> HIDE DEF S, T
<1>4. Cells(f, 1 .. NLayers) = Cells(f, S) \cup Cells(f, T) /\ Cells(f, S) \cap Cells(f, T) = {}
  BY <1>2 DEF Cells, Column
<1>5. /\ IsFiniteSet(Cells(f, S)) /\ IsFiniteSet(Cells(f, T))
      /\ Cardinality(Cells(f, S)) \in Nat /\ Cardinality(Cells(f, T)) \in Nat
  BY <1>2, <1>3, SizeFacts DEF Size
<1>6. Cardinality(Cells(f, S) \cup Cells(f, T))
        = Cardinality(Cells(f, S)) + Cardinality(Cells(f, T)) - Cardinality(Cells(f, S) \cap Cells(f, T))
  BY <1>5, FS_Union
<1>7. Cardinality(Cells(f, S) \cap Cells(f, T)) = 0
  BY <1>4, FS_EmptySet
<1>8. UpTo(f, NLayers) = Cardinality(Cells(f, S) \cup Cells(f, T))
  BY <1>4 DEF UpTo, Size
<1>9. UpTo(f, k) = Cardinality(Cells(f, S)) /\ After(f, k) = Cardinality(Cells(f, T))
  BY DEF UpTo, After, Size, S, T
<1> QED
  BY <1>5, <1>6, <1>7, <1>8, <1>9

\* All layers together.
LEMMA FullCap == Cap(NLayers) = NLayers * MaxCap
<1>1. \A l \in 1 .. NLayers : Full[l] = MaxCap
  BY ConstantFacts DEF Full
<1>2. Cardinality(1 .. NLayers) = NLayers /\ IsFiniteSet(1 .. NLayers)
  <2>1. 1 \in Int /\ NLayers \in Int /\ NLayers \in Nat
    BY ConstantFacts
  <2> QED
    BY <2>1, FS_Interval
<1>3. MaxCap \in Nat
  BY ConstantFacts
<1>4. Size(Full, 1 .. NLayers) = Cardinality(1 .. NLayers) * MaxCap
  BY <1>1, <1>2, <1>3, EqualParts
<1> QED
  BY <1>2, <1>4 DEF Cap, UpTo

\* A replay of caches with so many slots misses what the curves say.
LEMMA CostIsCosts ==
    ASSUME StackInv, Replayed, NEW units \in [Layers -> 0 .. MaxCap]
    PROVE  Cost(units) = UpTo(Costs(units), NLayers)
<1> DEFINE lost == [l \in Layers |-> Cardinality(slotMissed[l][Min({units[l], MaxCap})])]
<1>1. ASSUME NEW l \in Layers PROVE lost[l] = Costs(units)[l] /\ lost[l] \in Nat
  <2>1. Min({units[l], MaxCap}) = units[l] /\ units[l] \in 0 .. MaxCap
    <3>1. units[l] \in Int /\ units[l] <= MaxCap /\ MaxCap \in Int
      BY ConstantFacts
    <3> QED
      BY <3>1, LesserOf
  <2>2. /\ Curve(l)[units[l]] \in Nat
        /\ Curve(l)[units[l]] = Cardinality(slotMissed[l][units[l]])
    BY <2>1, CurveFacts
  <2> QED
    BY <2>1, <2>2 DEF Costs
<1>2. lost = Costs(units)
  <2>1. lost = [l \in Layers |-> lost[l]] /\ Costs(units) = [l \in Layers |-> Costs(units)[l]]
    BY DEF Costs
  <2> HIDE DEF lost
  <2> QED
    BY <1>1, <2>1
<1>3. Cost(units) = SumFunction(lost)
  BY DEF Cost
<1>4. DOMAIN lost = Layers
  OBVIOUS
<1> HIDE DEF lost
<1>5. SumFunction(lost) = Size(lost, Layers)
  BY <1>1, <1>4, SumIsTotal
<1> QED
  BY <1>2, <1>3, <1>5, ConstantFacts DEF UpTo

\* The equal split rounds down: some split of the whole total gives no layer less.
LEMMA MoreThanEqual ==
    ASSUME NEW n \in Nat, n <= NLayers * MaxCap
    PROVE  /\ n \div NLayers \in 0 .. MaxCap
           /\ \E units \in [Layers -> 0 .. MaxCap] :
                 UpTo(units, NLayers) = n /\ \A l \in Layers : n \div NLayers <= units[l]
<1> DEFINE q == n \div NLayers
           r == n % NLayers
<1>1. NLayers \in Nat \ {0} /\ MaxCap \in Nat
  BY ConstantFacts
<1>2. q \in Nat /\ r \in 0 .. NLayers - 1 /\ n = NLayers * q + r
  BY <1>1
<1> HIDE DEF q, r
<1>3. NLayers * q = q * NLayers /\ NLayers * MaxCap = MaxCap * NLayers /\ q * NLayers \in Nat /\ MaxCap * NLayers \in Nat
  BY <1>1, <1>2
<1>4. q <= MaxCap
  <2>1. ~ (q * NLayers > MaxCap * NLayers)
    BY <1>2, <1>3
  <2> QED
    BY <1>1, <1>2, <2>1, Scaled
<1>5. r > 0 => q + 1 <= MaxCap
  <2>1. ASSUME r > 0 PROVE MaxCap * NLayers > q * NLayers
    BY <1>2, <1>3, <2>1
  <2>2. MaxCap * NLayers > q * NLayers => MaxCap > q
    BY <1>1, <1>2, Scaled
  <2> QED
    BY <1>1, <1>2, <2>1, <2>2
<1> DEFINE units == [l \in Layers |-> IF l <= r THEN q + 1 ELSE q]
<1>6. units \in [Layers -> 0 .. MaxCap] /\ \A l \in Layers : q <= units[l] /\ units[l] \in Nat
  <2>1. ASSUME NEW l \in Layers PROVE units[l] \in 0 .. MaxCap /\ q <= units[l]
    <3>1. l <= r => r > 0
      BY <1>2, ConstantFacts
    <3> QED
      BY <1>1, <1>2, <1>4, <1>5, <3>1
  <2> QED
    BY <1>1, <2>1
<1>7. r \in 0 .. NLayers /\ r \in Nat /\ NLayers - r \in Nat
  BY <1>1, <1>2
<1>8. UpTo(units, r) = r * (q + 1)
  <2>1. IsFiniteSet(1 .. r) /\ Cardinality(1 .. r) = r
    <3>1. 1 \in Int /\ r \in Int
      BY <1>7
    <3> QED
      BY <1>7, <3>1, FS_Interval
  <2>2. \A l \in 1 .. r : units[l] = q + 1
    BY <1>7, ConstantFacts
  <2>3. q + 1 \in Nat
    BY <1>2
  <2> HIDE DEF units
  <2>4. Size(units, 1 .. r) = Cardinality(1 .. r) * (q + 1)
    BY <2>1, <2>2, <2>3, EqualParts
  <2> QED
    BY <2>1, <2>4 DEF UpTo
<1>9. After(units, r) = (NLayers - r) * q
  <2>1. IsFiniteSet(r+1 .. NLayers) /\ Cardinality(r+1 .. NLayers) = NLayers - r
    <3> DEFINE m == r + 1
    <3>1. m \in Int /\ NLayers \in Int
      BY <1>1, <1>7
    <3>2. (m > NLayers => NLayers - r = 0) /\ NLayers - m + 1 = NLayers - r
      BY <1>1, <1>7
    <3> HIDE DEF m
    <3>3. /\ IsFiniteSet(m .. NLayers)
          /\ Cardinality(m .. NLayers) = IF m > NLayers THEN 0 ELSE NLayers - m + 1
      BY <3>1, FS_Interval
    <3> QED
      BY <3>2, <3>3 DEF m
  <2>2. \A l \in r+1 .. NLayers : units[l] = q
    BY <1>7, ConstantFacts
  <2> HIDE DEF units
  <2>3. Size(units, r+1 .. NLayers) = Cardinality(r+1 .. NLayers) * q
    BY <1>2, <2>1, <2>2, EqualParts
  <2> QED
    BY <2>1, <2>3 DEF After
<1> HIDE DEF units
<1>10. UpTo(units, NLayers) = UpTo(units, r) + After(units, r)
  BY <1>6, <1>7, TwoParts
<1>11. r * (q + 1) + (NLayers - r) * q = NLayers * q + r
  BY <1>1, <1>2, <1>7
<1>12. UpTo(units, NLayers) = n
  BY <1>2, <1>8, <1>9, <1>10, <1>11
<1> QED
  BY <1>1, <1>2, <1>4, <1>6, <1>12 DEF q

LEMMA PlanInvIsEnough == PlanInv => WaterFillIsBest
<1> SUFFICES ASSUME PlanInv, phase \in {"done", "failed"} PROVE WaterFillIsBest
  BY DEF WaterFillIsBest
<1>1. /\ StackInv /\ Replayed /\ total \in Nat /\ layer = 0 /\ SpendStage
      /\ allocation \in [Layers -> 0 .. MaxCap]
      /\ Planned(dp, NLayers) /\ Unbeaten(dp, NLayers)
  BY DEF PlanInv, ReplayStage, PlanStage, SpendStage
<1>2. PICK F : Rows(F, NLayers) /\ Spent(F)
  BY <1>1 DEF SpendStage
<1>3. NLayers \in 0 .. NLayers /\ 0 \in 0 .. NLayers /\ MaxCap \in Nat
  BY ConstantFacts
<1>4. Cap(0) = 0 /\ Cap(NLayers) = NLayers * MaxCap /\ Cap(NLayers) \in Nat
  BY <1>3, CapFacts, FullCap
<1>5. left \in Nat /\ left <= total
  BY <1>1, <1>2 DEF Spent
<1>6. ASSUME total <= NLayers * MaxCap
      PROVE  /\ left = 0
             /\ UpTo(allocation, NLayers) = total
             /\ UpTo(Costs(allocation), NLayers) = dp[total]
  <2>1. /\ left <= Cap(0)
        /\ F[0][left] + After(Costs(allocation), 0) = dp[total]
        /\ left + After(allocation, 0) = total
    BY <1>1, <1>2, <1>4, <1>6 DEF Spent
  <2>2. left = 0 /\ F[0][0] = 0
    BY <1>2, <1>4, <1>5, <2>1 DEF Rows
  <2>3. \A l \in Layers : allocation[l] \in Nat /\ Costs(allocation)[l] \in Nat
    BY <1>1, <1>3, CurveFacts DEF Costs
  <2>4. /\ After(allocation, 0) = UpTo(allocation, NLayers) /\ After(allocation, 0) \in Nat
        /\ After(Costs(allocation), 0) = UpTo(Costs(allocation), NLayers)
        /\ After(Costs(allocation), 0) \in Nat
    BY <1>3, <2>3, AfterFacts
  <2> QED
    BY <2>1, <2>2, <2>4
<1>7. ASSUME ~ (total <= NLayers * MaxCap) PROVE left # 0
  <2>1. left = total
    BY <1>2, <1>4, <1>7 DEF Spent
  <2> QED
    BY <1>1, <1>4, <1>7, <2>1
<1>8. phase = "failed" <=> total > NLayers * MaxCap
  <2>1. phase = "failed" <=> left # 0
    BY <1>1 DEF SpendStage
  <2> QED
    BY <1>1, <1>4, <1>6, <1>7, <2>1
<1>9. ASSUME phase = "done"
      PROVE  /\ SumFunction(allocation) = total
             /\ Cost(allocation) = dp[total]
             /\ Cost(allocation) <= Cost([l \in Layers |-> total \div NLayers])
             /\ \A units \in [Layers -> 0 .. MaxCap] :
                    SumFunction(units) = total => Cost(allocation) <= Cost(units)
  <2>1. total <= NLayers * MaxCap
    BY <1>1, <1>4, <1>8, <1>9
  <2>2. \A units \in [Layers -> 0 .. MaxCap] : SumFunction(units) = UpTo(units, NLayers)
    <3> TAKE units \in [Layers -> 0 .. MaxCap]
    <3>1. DOMAIN units = Layers /\ \A l \in Layers : units[l] \in Nat
      BY <1>3
    <3> QED
      BY <3>1, SumIsTotal, ConstantFacts DEF UpTo
  <2>3. Cost(allocation) = dp[total]
    BY <1>1, <1>6, <2>1, CostIsCosts
  <2>4. \A units \in [Layers -> 0 .. MaxCap] :
          UpTo(units, NLayers) = total => dp[total] <= UpTo(Costs(units), NLayers)
    BY <1>1 DEF Unbeaten
  <2>5. \A units \in [Layers -> 0 .. MaxCap] : SumFunction(units) = total => Cost(allocation) <= Cost(units)
    BY <1>1, <2>2, <2>3, <2>4, CostIsCosts
  <2>6. Cost(allocation) <= Cost([l \in Layers |-> total \div NLayers])
    <3> DEFINE q == total \div NLayers
               equal == [l \in Layers |-> q]
    <3>1. q \in 0 .. MaxCap
      BY <1>1, <2>1, MoreThanEqual
    <3>2. PICK units \in [Layers -> 0 .. MaxCap] :
             UpTo(units, NLayers) = total /\ \A l \in Layers : q <= units[l]
      BY <1>1, <2>1, MoreThanEqual
    <3> HIDE DEF q
    <3>3. equal \in [Layers -> 0 .. MaxCap] /\ \A l \in Layers : equal[l] = q
      BY <3>1
    <3> HIDE DEF equal
    <3>4. \A l \in Layers : /\ Costs(units)[l] \in Nat /\ Costs(equal)[l] \in Nat
                            /\ Costs(units)[l] <= Costs(equal)[l]
      <4> TAKE l \in Layers
      <4>1. units[l] \in 0 .. MaxCap /\ q <= units[l] /\ equal[l] = q
        BY <3>2, <3>3
      <4>2. Curve(l)[units[l]] \in Nat /\ Curve(l)[q] \in Nat /\ Curve(l)[units[l]] <= Curve(l)[q]
        BY <1>1, <3>1, <4>1, CurveFacts
      <4> QED
        BY <4>1, <4>2 DEF Costs
    <3>5. UpTo(Costs(units), NLayers) <= UpTo(Costs(equal), NLayers)
      BY <3>4, SizeGrows, ConstantFacts DEF UpTo
    <3>6. Cost(equal) = UpTo(Costs(equal), NLayers)
      BY <1>1, <3>3, CostIsCosts
    <3>7. dp[total] <= UpTo(Costs(units), NLayers)
      BY <2>4, <3>2
    <3>8. dp[total] \in Nat /\ UpTo(Costs(units), NLayers) \in Nat /\ UpTo(Costs(equal), NLayers) \in Nat
      <4>1. dp[total] \in Nat
        BY <1>1 DEF Planned
      <4> QED
        BY <1>3, <3>4, <4>1, UpToFacts
    <3>9. Cost(allocation) <= Cost(equal)
      BY <2>3, <3>5, <3>6, <3>7, <3>8
    <3> QED
      BY <3>9 DEF equal, q
  <2> QED
    BY <1>1, <1>6, <2>1, <2>2, <2>3, <2>5, <2>6
<1> QED
  BY <1>8, <1>9 DEF WaterFillIsBest

\* For any streams, capacities and total: dp_allocate() spends the whole total, its row
\* says what a replay of the layers at that allocation misses, and no split of the
\* total, nor the equal one, misses less; it fails only when the layers cannot take it.
THEOREM SpecWaterFillIsBest == WaterFillSpec => []WaterFillIsBest
<1>1. WaterFillSpec => []PlanInv
  BY InitPlan, NextPlan, PTL DEF WaterFillSpec
<1> QED
  BY <1>1, PlanInvIsEnough, PTL

\* The study replays as the policies do, and nothing it plans touches what they did:
\* what is proved of the replays holds of it.
THEOREM SpecPlanIsReplay == WaterFillSpec => Spec
<1>1. WaterFillInit => Init
  BY DEF WaterFillInit
<1>2. [WaterFillNext]_allVars => [Next]_vars
  BY DEF WaterFillNext, Replay, StartPlan, PlanLayer, SpendLayer, FinishPlan, allVars
<1> QED
  BY <1>1, <1>2, PTL DEF WaterFillSpec, Spec

-----------------------------------------------------------------------------
(* All ways to serve a stream *)

\* The sets that the budget holds, and what one more request makes of the ways so far.
FitSets(l) == {S \in SUBSET Experts : Weight(l, S) <= case.budget}
WaysOn(l, may_bypass, ways, i) == Ways(l, may_bypass, FitSets(l), ways, case.stream[l][i])

\* The function whose value at 1 .. Len(stream) the fold of Fewest is.
Served(g, l, may_bypass, n) ==
    g = [s \in SUBSET (1 .. n) |->
            IF s = {} THEN {<<{}, 0>>} ELSE WaysOn(l, may_bypass, g[s \ {Max(s)}], Max(s))]
WaysAt(l, may_bypass, t) ==
    (CHOOSE g : Served(g, l, may_bypass, Len(case.stream[l])))[1 .. t]

LEMMA MaxIs ==
    ASSUME NEW s \in SUBSET Int, NEW m \in s, \A y \in s : y <= m
    PROVE  Max(s) = m
<1> DEFINE P(x) == x \in s /\ \A y \in s : x >= y
<1>1. P(m)
  OBVIOUS
<1>2. ASSUME NEW x, P(x) PROVE x = m
  <2>1. x \in Int /\ m \in Int /\ x <= m /\ m <= x
    BY <1>2
  <2> QED
    BY <2>1
<1>3. Max(s) = CHOOSE x : P(x)
  BY DEF Max
<1> HIDE DEF P
<1>4. P(CHOOSE x : P(x))
  BY <1>1
<1> QED
  BY <1>2, <1>3, <1>4

\* The fold over a stream is a function that exists.
LEMMA ServedExists ==
    ASSUME NEW l, NEW may_bypass, NEW N \in Nat
    PROVE  \E g : Served(g, l, may_bypass, N)
<1> DEFINE P(n) == \E g : Served(g, l, may_bypass, n)
           bad == {n \in Nat : ~ P(n)}
<1>1. P(0)
  <2>1. PICK g : g = [s \in SUBSET (1 .. 0) |-> {<<{}, 0>>}]
    OBVIOUS
  <2>2. \A s \in SUBSET (1 .. 0) : s = {}
    OBVIOUS
  <2>3. Served(g, l, may_bypass, 0)
    BY <2>1, <2>2 DEF Served
  <2> QED
    BY <2>3
<1>2. ASSUME NEW n \in Nat, P(n) PROVE P(n+1)
  <2>1. PICK g : Served(g, l, may_bypass, n)
    BY <1>2
  <2> DEFINE D == SUBSET (1 .. n)
             E == SUBSET (1 .. n+1)
             Next1(ways, i) == WaysOn(l, may_bypass, ways, i)
  <2>2. \A s \in D : g[s] = IF s = {} THEN {<<{}, 0>>} ELSE Next1(g[s \ {Max(s)}], Max(s))
    BY <2>1 DEF Served
  <2>3. PICK h : h = [s \in E |-> IF n+1 \in s THEN Next1(g[s \ {n+1}], n+1) ELSE g[s]]
    OBVIOUS
  <2>4. ASSUME NEW s \in E
        PROVE  h[s] = IF s = {} THEN {<<{}, 0>>} ELSE Next1(h[s \ {Max(s)}], Max(s))
    <3>1. CASE n+1 \in s
      <4>1. s \in SUBSET Int /\ \A y \in s : y <= n+1
        OBVIOUS
      <4>2. Max(s) = n+1
        BY <3>1, <4>1, MaxIs
      <4>3. s \ {n+1} \in E /\ n+1 \notin s \ {n+1} /\ s # {}
        BY <3>1
      <4> HIDE DEF Next1, E
      <4>4. h[s \ {n+1}] = g[s \ {n+1}]
        BY <2>3, <4>3
      <4>5. h[s] = Next1(g[s \ {n+1}], n+1)
        BY <2>3, <3>1
      <4> QED
        BY <4>2, <4>3, <4>4, <4>5
    <3>2. CASE n+1 \notin s
      <4>1. s \in D
        BY <3>2
      <4>2. s \ {Max(s)} \in E /\ n+1 \notin s \ {Max(s)}
        BY <3>2
      <4> HIDE DEF Next1, D, E
      <4>3. h[s] = g[s] /\ h[s \ {Max(s)}] = g[s \ {Max(s)}]
        BY <2>3, <3>2, <4>2
      <4> QED
        BY <2>2, <4>1, <4>3
    <3> QED
      BY <3>1, <3>2
  <2>5. h = [s \in E |-> IF s = {} THEN {<<{}, 0>>} ELSE Next1(h[s \ {Max(s)}], Max(s))]
    <3> HIDE DEF Next1, E
    <3>1. h = [s \in E |-> h[s]]
      BY <2>3
    <3> QED
      BY <2>4, <3>1
  <2> QED
    BY <2>5 DEF Served
<1>3. bad = {}
  <2> SUFFICES ASSUME bad # {} PROVE FALSE
    OBVIOUS
  <2>1. bad \in SUBSET Nat
    OBVIOUS
  <2>2. PICK n \in bad : \A m \in bad : n <= m
    <3> HIDE DEF bad
    <3> QED
      BY <2>1, LeastOf
  <2>3. n \in Nat /\ ~ P(n)
    OBVIOUS
  <2>4. n # 0
    <3> HIDE DEF P
    <3> QED
      BY <1>1, <2>3
  <2>5. n-1 \in Nat /\ n-1 \notin bad
    BY <2>2, <2>3, <2>4
  <2>6. P(n-1)
    BY <2>5
  <2>7. P((n-1)+1)
    <3> HIDE DEF P
    <3> QED
      BY <1>2, <2>5, <2>6
  <2>8. (n-1)+1 = n
    BY <2>3
  <2> HIDE DEF P
  <2> QED
    BY <2>3, <2>7, <2>8
<1>4. N \notin bad
  BY <1>3
<1> QED
  BY <1>4

\* The ways one request after the other, and the least of their misses.
LEMMA WaysFacts ==
    ASSUME case \in Studies, NEW l \in Layers, NEW may_bypass
    PROVE  /\ WaysAt(l, may_bypass, 0) = {<<{}, 0>>}
           /\ \A t \in 0 .. Len(case.stream[l]) - 1 :
                 WaysAt(l, may_bypass, t+1) = WaysOn(l, may_bypass, WaysAt(l, may_bypass, t), t+1)
           /\ Fewest(l, may_bypass) = Min({w[2] : w \in WaysAt(l, may_bypass, Len(case.stream[l]))})
<1> DEFINE n == Len(case.stream[l])
           P(g) == Served(g, l, may_bypass, n)
           G == CHOOSE g : P(g)
<1>1. n \in Nat /\ DOMAIN case.stream[l] = 1 .. n
  <2>1. case.stream[l] \in Seq(Experts)
    BY DEF Studies
  <2> QED
    BY <2>1, LenProperties
<1>2. P(G)
  <2>1. \E g : P(g)
    <3> HIDE DEF n
    <3> QED
      BY <1>1, ServedExists
  <2> HIDE DEF P
  <2> QED
    BY <2>1
<1>3. \A t : WaysAt(l, may_bypass, t) = G[1 .. t]
  BY DEF WaysAt
<1>4. Fewest(l, may_bypass) = Min({w[2] : w \in G[1 .. n]})
  <2>1. FoldLeft(LAMBDA ways, x : Ways(l, may_bypass, FitSets(l), ways, x), {<<{}, 0>>}, case.stream[l]) = G[1 .. n]
    BY <1>1 DEF FoldLeft, MapThenFoldSet, Served, WaysOn
  <2> HIDE DEF G, n
  <2> QED
    BY <2>1 DEF Fewest, FitSets
<1> HIDE DEF G
<1>5. \A s \in SUBSET (1 .. n) :
        G[s] = IF s = {} THEN {<<{}, 0>>} ELSE WaysOn(l, may_bypass, G[s \ {Max(s)}], Max(s))
  BY <1>2 DEF Served
<1> HIDE DEF P, n
<1>6. G[1 .. 0] = {<<{}, 0>>}
  <2>1. 1 .. 0 = {} /\ 1 .. 0 \in SUBSET (1 .. n)
    OBVIOUS
  <2> QED
    BY <1>5, <2>1
<1>7. ASSUME NEW t \in 0 .. n - 1
      PROVE  G[1 .. t+1] = WaysOn(l, may_bypass, G[1 .. t], t+1)
  <2>1. /\ 1 .. t+1 \in SUBSET (1 .. n) /\ 1 .. t+1 # {} /\ (1 .. t+1) \ {t+1} = 1 .. t
        /\ t+1 \in 1 .. t+1 /\ 1 .. t+1 \in SUBSET Int /\ \A y \in 1 .. t+1 : y <= t+1
    BY <1>1
  <2> DEFINE s == 1 .. t+1
             m == t+1
  <2>2. /\ s \in SUBSET (1 .. n) /\ s # {} /\ s \ {m} = 1 .. t
        /\ m \in s /\ s \in SUBSET Int /\ \A y \in s : y <= m
    BY <2>1
  <2> HIDE DEF s, m
  <2>3. Max(s) = m
    BY <2>2, MaxIs
  <2>4. G[s] = WaysOn(l, may_bypass, G[s \ {Max(s)}], Max(s))
    BY <1>5, <2>2
  <2>5. G[s] = WaysOn(l, may_bypass, G[1 .. t], m)
    BY <2>2, <2>3, <2>4
  <2> QED
    BY <2>5 DEF s, m
<1> QED
  BY <1>3, <1>4, <1>6, <1>7 DEF n

\* A way v goes on as w by a hit, by a set with the newcomer that fits, or past it.
GoesOn(l, may_bypass, v, x, w) ==
    \/ x \in v[1] /\ w = v
    \/ x \notin v[1] /\ \E T : /\ w = <<T, v[2] + 1>>
                               /\ \/ T \in FitSets(l) /\ \E K \in SUBSET v[1] : T = K \cup {x}
                                  \/ (may_bypass \/ TooBig(l, x)) /\ T = v[1]

\* A way goes on to what GoesOn says.
LEMMA WayTaken ==
    ASSUME NEW l, NEW may_bypass, NEW ways, NEW x, NEW w
    PROVE  w \in Ways(l, may_bypass, FitSets(l), ways, x) <=> \E v \in ways : GoesOn(l, may_bypass, v, x, w)
<1> DEFINE Sets(v) == ({K \cup {x} : K \in SUBSET v[1]} \cap FitSets(l))
                          \cup (IF may_bypass \/ TooBig(l, x) THEN {v[1]} ELSE {})
           One(v) == IF x \in v[1] THEN {v} ELSE {<<T, v[2] + 1>> : T \in Sets(v)}
<1>1. Ways(l, may_bypass, FitSets(l), ways, x) = UNION {One(v) : v \in ways}
  BY DEF Ways
<1>2. \A v, T : T \in Sets(v) <=> \/ T \in FitSets(l) /\ \E K \in SUBSET v[1] : T = K \cup {x}
                                  \/ (may_bypass \/ TooBig(l, x)) /\ T = v[1]
  OBVIOUS
<1> HIDE DEF Sets
<1>3. \A v : w \in One(v) <=> \/ x \in v[1] /\ w = v
                              \/ x \notin v[1] /\ \E T \in Sets(v) : w = <<T, v[2] + 1>>
  OBVIOUS
<1> HIDE DEF One
<1>4. w \in UNION {One(v) : v \in ways} <=> \E v \in ways : w \in One(v)
  OBVIOUS
<1>5. w \in Ways(l, may_bypass, FitSets(l), ways, x) <=> \E v \in ways : w \in One(v)
  BY <1>1, <1>4
<1>6. \A v : w \in One(v) <=> GoesOn(l, may_bypass, v, x, w)
  BY <1>2, <1>3 DEF GoesOn
<1> QED
  BY <1>5, <1>6

-----------------------------------------------------------------------------
(* What stays *)

\* Staying with the order as a set of pairs.
Stay(l, R, room, sooner) ==
    {e \in R : \E k \in R : /\ <<e, k>> \notin sooner
                            /\ Weight(l, {f \in R : <<f, k>> \notin sooner}) <= room}

\* Whatever the order, what stays fits.
LEMMA StayFits ==
    ASSUME case \in Studies, NEW l \in Layers, NEW R \in SUBSET Experts, NEW room \in Nat, NEW sooner,
           \A e, f \in R : <<e, f>> \in sooner => <<f, e>> \notin sooner,
           \A e, f, k \in R : <<e, f>> \notin sooner /\ <<f, k>> \notin sooner => <<e, k>> \notin sooner
    PROVE  Stay(l, R, room, sooner) \in SUBSET R /\ Weight(l, Stay(l, R, room, sooner)) <= room
<1> DEFINE After1(k) == {f \in R : <<f, k>> \notin sooner}
           good == {k \in R : Weight(l, After1(k)) <= room}
           stay == Stay(l, R, room, sooner)
           sizes == {Cardinality(R) - Cardinality(After1(k)) : k \in good}
<1>1. stay = {e \in R : \E k \in good : e \in After1(k)}
  BY DEF Stay
<1>2. IsFiniteSet(R) /\ Cardinality(R) \in Nat
  BY WeightFacts, FS_CardinalityType
<1>3. ASSUME NEW k \in R
      PROVE  /\ IsFiniteSet(After1(k)) /\ Cardinality(After1(k)) \in Nat
             /\ Cardinality(After1(k)) <= Cardinality(R)
  <2>1. After1(k) \in SUBSET R
    OBVIOUS
  <2> HIDE DEF After1
  <2> QED
    BY <1>2, <2>1, FS_Subset, FS_CardinalityType
<1>4. ASSUME NEW i \in R, NEW k \in R PROVE After1(i) \subseteq After1(k) \/ After1(k) \subseteq After1(i)
  OBVIOUS
<1>5. CASE good = {}
  <2>1. stay = {}
    BY <1>1, <1>5
  <2>2. Weight(l, {}) = 0
    BY WeightFacts
  <2> QED
    BY <2>1, <2>2
<1>6. CASE good # {}
  <2>1. PICK k \in good : \A i \in good : Cardinality(After1(i)) <= Cardinality(After1(k))
    <3>1. sizes \in SUBSET Nat /\ sizes # {}
      <4>1. \A i \in good : Cardinality(R) - Cardinality(After1(i)) \in Nat
        <5> HIDE DEF After1
        <5> QED
          BY <1>2, <1>3
      <4> HIDE DEF After1, good
      <4> QED
        BY <1>6, <4>1
    <3>2. PICK n \in sizes : \A m \in sizes : n <= m
      <4> HIDE DEF sizes
      <4> QED
        BY <3>1, LeastOf
    <3>3. PICK k \in good : n = Cardinality(R) - Cardinality(After1(k))
      <4> HIDE DEF After1, good
      <4> QED
        OBVIOUS
    <3>4. ASSUME NEW i \in good PROVE Cardinality(After1(i)) <= Cardinality(After1(k))
      <4>1. n <= Cardinality(R) - Cardinality(After1(i))
        <5> HIDE DEF After1, good
        <5> QED
          BY <3>2
      <4>2. i \in R /\ k \in R
        OBVIOUS
      <4> HIDE DEF After1, good
      <4> QED
        BY <1>2, <1>3, <3>3, <4>1, <4>2
    <3> HIDE DEF After1, good
    <3> QED
      BY <3>4
  <2>2. \A i \in good : After1(i) \subseteq After1(k)
    <3> SUFFICES ASSUME NEW i \in good, After1(k) \subseteq After1(i) PROVE After1(i) = After1(k)
      <4>1. \A i \in good : i \in R /\ k \in R
        OBVIOUS
      <4> HIDE DEF After1, good
      <4> QED
        BY <1>4, <4>1
    <3>1. i \in R /\ k \in R
      OBVIOUS
    <3>2. Cardinality(After1(i)) <= Cardinality(After1(k))
      <4> HIDE DEF After1, good
      <4> QED
        BY <2>1
    <3> HIDE DEF After1, good
    <3>3. After1(k) \in SUBSET After1(i)
      OBVIOUS
    <3>4. Cardinality(After1(k)) <= Cardinality(After1(i)) /\ (Cardinality(After1(i)) = Cardinality(After1(k)) => After1(i) = After1(k))
      BY <1>3, <3>1, <3>3, FS_Subset
    <3> QED
      BY <1>3, <3>1, <3>2, <3>4
  <2>3. stay \in SUBSET After1(k) /\ After1(k) \in SUBSET Experts
    <3>1. After1(k) \in SUBSET Experts
      OBVIOUS
    <3> HIDE DEF After1, good
    <3> QED
      BY <1>1, <2>2, <3>1
  <2>4. Weight(l, After1(k)) <= room
    OBVIOUS
  <2> HIDE DEF After1, good, stay
  <2>5. Weight(l, stay) <= Weight(l, After1(k)) /\ Weight(l, After1(k)) \in Nat
    BY <2>3, WeightFacts
  <2>6. stay \in SUBSET Experts
    BY <2>3
  <2>7. Weight(l, stay) \in Nat
    BY <2>6, WeightFacts
  <2> QED
    BY <1>1, <2>4, <2>5, <2>7 DEF stay
<1> QED
  BY <1>1, <1>5, <1>6 DEF Stay

\* A strict order on a finite set has a first element.
LEMMA FirstOf ==
    ASSUME NEW Q, IsFiniteSet(Q), Q # {}, NEW sooner,
           \A e, f \in Q : <<e, f>> \in sooner => <<f, e>> \notin sooner,
           \A e, f, k \in Q : <<e, f>> \in sooner /\ <<f, k>> \in sooner => <<e, k>> \in sooner,
           \A e, f \in Q : e # f => <<e, f>> \in sooner \/ <<f, e>> \in sooner
    PROVE  \E v \in Q : \A f \in Q \ {v} : <<v, f>> \in sooner
<1> DEFINE Before(e) == {f \in Q : <<f, e>> \in sooner}
           sizes == {Cardinality(Before(e)) : e \in Q}
<1>1. ASSUME NEW e \in Q PROVE IsFiniteSet(Before(e)) /\ Cardinality(Before(e)) \in Nat
  <2>1. Before(e) \in SUBSET Q
    OBVIOUS
  <2> HIDE DEF Before
  <2> QED
    BY <2>1, FS_Subset, FS_CardinalityType
<1>2. PICK v \in Q : \A e \in Q : Cardinality(Before(v)) <= Cardinality(Before(e))
  <2>1. sizes \in SUBSET Nat /\ sizes # {}
    <3> HIDE DEF Before
    <3> QED
      BY <1>1
  <2>2. PICK n \in sizes : \A m \in sizes : n <= m
    <3> HIDE DEF sizes
    <3> QED
      BY <2>1, LeastOf
  <2> HIDE DEF Before
  <2> QED
    BY <2>2
<1>3. ASSUME NEW f \in Q \ {v} PROVE <<v, f>> \in sooner
  <2> SUFFICES ASSUME <<f, v>> \in sooner PROVE FALSE
    OBVIOUS
  <2>1. Before(f) \in SUBSET Before(v) /\ f \in Before(v) /\ f \notin Before(f)
    OBVIOUS
  <2>2. Cardinality(Before(v)) <= Cardinality(Before(f))
    BY <1>2
  <2>3. f \in Q
    OBVIOUS
  <2> HIDE DEF Before
  <2>4. /\ Cardinality(Before(f)) <= Cardinality(Before(v))
        /\ Cardinality(Before(v)) = Cardinality(Before(f)) => Before(v) = Before(f)
    BY <1>1, <2>1, FS_Subset
  <2> QED
    BY <1>1, <2>1, <2>2, <2>3, <2>4
<1> QED
  BY <1>3

\* When one too many is there and n of them fit, the first goes.
LEMMA StayDropsOne ==
    ASSUME case \in Studies, NEW l \in Layers, NEW Q \in SUBSET Experts, NEW room, NEW n \in Nat,
           \A A \in SUBSET Q : Weight(l, A) <= room <=> Cardinality(A) <= n,
           Cardinality(Q) <= n + 1, NEW sooner,
           \A e, f \in Q : <<e, f>> \in sooner => <<f, e>> \notin sooner,
           \A e, f, k \in Q : <<e, f>> \in sooner /\ <<f, k>> \in sooner => <<e, k>> \in sooner,
           \A e, f \in Q : e # f => <<e, f>> \in sooner \/ <<f, e>> \in sooner
    PROVE  IF Cardinality(Q) <= n THEN Stay(l, Q, room, sooner) = Q
           ELSE \E v \in Q : /\ Stay(l, Q, room, sooner) = Q \ {v}
                             /\ \A f \in Q \ {v} : <<v, f>> \in sooner
<1> DEFINE Others(k) == {f \in Q : <<f, k>> \notin sooner}
<1>1. Stay(l, Q, room, sooner) = {e \in Q : \E k \in Q : e \in Others(k) /\ Weight(l, Others(k)) <= room}
  <2>1. Stay(l, Q, room, sooner) = {e \in Q : \E k \in Q : <<e, k>> \notin sooner /\ Weight(l, Others(k)) <= room}
    BY DEF Stay
  <2>2. \A e, k \in Q : e \in Others(k) <=> <<e, k>> \notin sooner
    OBVIOUS
  <2> HIDE DEF Others
  <2> QED
    BY <2>1, <2>2
<1>2. IsFiniteSet(Q) /\ Cardinality(Q) \in Nat
  BY WeightFacts, FS_CardinalityType
<1>3. ASSUME NEW k \in Q
      PROVE  /\ k \in Others(k) /\ Others(k) \in SUBSET Q
             /\ Cardinality(Others(k)) \in Nat /\ Cardinality(Others(k)) <= Cardinality(Q)
             /\ Cardinality(Q) = Cardinality(Others(k)) => Q = Others(k)
             /\ Weight(l, Others(k)) <= room <=> Cardinality(Others(k)) <= n
  <2>1. Others(k) \in SUBSET Q /\ k \in Others(k)
    OBVIOUS
  <2> HIDE DEF Others
  <2> QED
    BY <1>2, <2>1, FS_Subset, FS_CardinalityType
<1>4. CASE Cardinality(Q) <= n
  <2>1. \A e \in Q : Cardinality(Others(e)) <= n
    <3> HIDE DEF Others
    <3> QED
      BY <1>2, <1>3, <1>4
  <2> HIDE DEF Others
  <2>2. \A e \in Q : e \in Others(e) /\ Weight(l, Others(e)) <= room
    BY <1>3, <2>1
  <2> QED
    BY <1>1, <1>4, <2>2
<1>5. CASE ~ (Cardinality(Q) <= n)
  <2>1. Cardinality(Q) = n + 1 /\ Q # {}
    <3>1. Q = {} => Cardinality(Q) = 0
      BY FS_EmptySet
    <3> QED
      BY <1>2, <1>5, <3>1
  <2>2. PICK v \in Q : \A f \in Q \ {v} : <<v, f>> \in sooner
    BY <1>2, <2>1, FirstOf
  <2>3. Others(v) = Q
    BY <2>2
  <2>4. \A e \in Q \ {v} : v \notin Others(e)
    BY <2>2
  <2>5. \A k \in Q : v \in Others(k) => k = v
    BY <2>4
  <2> HIDE DEF Others
  <2>6. \A e \in Q \ {v} : e \in Others(e) /\ Weight(l, Others(e)) <= room
    <3> TAKE e \in Q \ {v}
    <3>1. Cardinality(Others(e)) # Cardinality(Q)
      BY <1>3, <2>4
    <3>2. Cardinality(Others(e)) <= n
      BY <1>2, <1>3, <2>1, <3>1
    <3> QED
      BY <1>3, <3>2
  <2>7. ~ (Weight(l, Others(v)) <= room)
    <3>1. Weight(l, Others(v)) <= room <=> Cardinality(Others(v)) <= n
      BY <1>3
    <3> QED
      BY <1>5, <2>3, <3>1
  <2>8. Stay(l, Q, room, sooner) = Q \ {v}
    BY <1>1, <2>5, <2>6, <2>7
  <2> QED
    BY <1>5, <2>2, <2>8
<1> QED
  BY <1>4, <1>5

\* With equal sizes the budget is so many slots.
LEMMA SlotsFit ==
    ASSUME case \in Studies, NEW l \in Layers, Uniform(l), NEW x \in Experts
    PROVE  /\ SlotsOf(l, x) \in Nat
           /\ \A A \in SUBSET Experts : Weight(l, A) <= case.budget <=> Cardinality(A) <= SlotsOf(l, x)
           /\ TooBig(l, x) => SlotsOf(l, x) = 0
           /\ ~ TooBig(l, x) =>
                 /\ SlotsOf(l, x) > 0 /\ RoomBeside(l, x) \in Nat
                 /\ \A A \in SUBSET Experts :
                       Weight(l, A) <= RoomBeside(l, x) <=> Cardinality(A) <= SlotsOf(l, x) - 1
<1> DEFINE z == case.size[l][x]
           b == case.budget
           c == SlotsOf(l, x)
<1>1. z \in Nat \ {0} /\ b \in Nat
  <2>1. {} \in SUBSET Experts
    OBVIOUS
  <2> QED
    BY <2>1, WeightFacts
<1>2. c \in Nat /\ \A n \in Nat : n * z <= b <=> n <= c
  BY <1>1, Fits DEF SlotsOf
<1>3. ASSUME NEW A \in SUBSET Experts
      PROVE  Weight(l, A) = Cardinality(A) * z /\ Cardinality(A) \in Nat
  <2>1. IsFiniteSet(A)
    BY WeightFacts
  <2>2. \A e \in A : case.size[l][e] = z
    BY DEF Uniform
  <2> HIDE DEF z
  <2>3. SumFunctionOnSet(case.size[l], A) = Cardinality(A) * z
    BY <1>1, <2>1, <2>2, UniformSum
  <2> QED
    BY <2>1, <2>3, FS_CardinalityType DEF Weight
<1>4. (TooBig(l, x) <=> z > b) /\ RoomBeside(l, x) = b - z
  BY DEF TooBig, RoomBeside
<1> HIDE DEF z, b, c
<1>5. 1 * z = z /\ \A n \in Nat : (n+1) * z = n * z + z /\ n * z \in Nat
  BY <1>1
<1>6. z <= b <=> 1 <= c
  BY <1>2, <1>5
<1>7. ASSUME NEW A \in SUBSET Experts PROVE Weight(l, A) <= b - z <=> Cardinality(A) + 1 <= c
  <2> DEFINE n == Cardinality(A)
  <2>1. n \in Nat /\ Weight(l, A) = n * z
    BY <1>3
  <2> HIDE DEF n
  <2>2. (n+1) * z <= b <=> n+1 <= c
    <3>1. n+1 \in Nat
      BY <2>1
    <3> QED
      BY <1>2, <3>1
  <2>3. (n+1) * z = n * z + z /\ n * z \in Nat
    BY <1>5, <2>1
  <2>4. Weight(l, A) <= b - z <=> n+1 <= c
    BY <1>1, <2>1, <2>2, <2>3
  <2> QED
    BY <2>4 DEF n
<1>8. \A A \in SUBSET Experts : Weight(l, A) <= b <=> Cardinality(A) <= c
  BY <1>2, <1>3
<1>9. \A A \in SUBSET Experts : Weight(l, A) <= b - z <=> Cardinality(A) <= c - 1
  BY <1>2, <1>3, <1>7
<1>10. (z > b => c = 0) /\ (~ (z > b) => c > 0 /\ b - z \in Nat)
  BY <1>1, <1>2, <1>6
<1> QED
  BY <1>2, <1>4, <1>8, <1>9, <1>10 DEF b, c

-----------------------------------------------------------------------------
(* Why the farthest goes *)

\* How many of A are asked for again, next says when, by position u.
Soon(A, next, u) == {e \in A : next[e] <= u}
SoonUsed(A, next, u) == Cardinality(Soon(A, next, u))

\* Whether x is among them.
IsSoon(next, x, u) == IF next[x] <= u THEN 1 ELSE 0

\* The count of a set is a number no greater than its size, and grows with it.
LEMMA SoonFacts ==
    ASSUME NEW A, IsFiniteSet(A), NEW next, NEW u
    PROVE  /\ SoonUsed(A, next, u) \in Nat /\ Cardinality(A) \in Nat /\ SoonUsed(A, next, u) <= Cardinality(A)
           /\ \A B \in SUBSET A : IsFiniteSet(B) /\ SoonUsed(B, next, u) <= SoonUsed(A, next, u)
           /\ (\A e \in A : next[e] <= u) => SoonUsed(A, next, u) = Cardinality(A)
           /\ (\A e \in A : ~ (next[e] <= u)) => SoonUsed(A, next, u) = 0
<1>1. Soon(A, next, u) \in SUBSET A
  BY DEF Soon
<1>2. /\ IsFiniteSet(Soon(A, next, u)) /\ SoonUsed(A, next, u) \in Nat /\ Cardinality(A) \in Nat
      /\ SoonUsed(A, next, u) <= Cardinality(A)
  BY <1>1, FS_Subset, FS_CardinalityType DEF SoonUsed
<1>3. ASSUME NEW B \in SUBSET A PROVE IsFiniteSet(B) /\ SoonUsed(B, next, u) <= SoonUsed(A, next, u)
  <2>1. Soon(B, next, u) \in SUBSET Soon(A, next, u)
    BY DEF Soon
  <2> QED
    BY <1>2, <2>1, FS_Subset DEF SoonUsed
<1>4. (\A e \in A : next[e] <= u) => Soon(A, next, u) = A
  BY DEF Soon
<1>5. (\A e \in A : ~ (next[e] <= u)) => Soon(A, next, u) = {}
  BY DEF Soon
<1> QED
  BY <1>2, <1>3, <1>4, <1>5, FS_EmptySet DEF SoonUsed

\* One expert more counts if it is asked for soon.
LEMMA SoonOneMore ==
    ASSUME NEW A, IsFiniteSet(A), NEW x, x \notin A, NEW next, NEW u
    PROVE  SoonUsed(A \cup {x}, next, u) = SoonUsed(A, next, u) + IsSoon(next, x, u)
<1>1. CASE next[x] <= u
  <2>1. Soon(A \cup {x}, next, u) = Soon(A, next, u) \cup {x} /\ x \notin Soon(A, next, u)
    BY <1>1 DEF Soon
  <2>2. IsFiniteSet(Soon(A, next, u))
    <3>1. Soon(A, next, u) \in SUBSET A
      BY DEF Soon
    <3> QED
      BY <3>1, FS_Subset
  <2>3. Cardinality(Soon(A, next, u) \cup {x}) = Cardinality(Soon(A, next, u)) + 1
    BY <2>1, <2>2, FS_AddElement
  <2> QED
    BY <1>1, <2>1, <2>3 DEF SoonUsed, IsSoon
<1>2. CASE ~ (next[x] <= u)
  <2>1. Soon(A \cup {x}, next, u) = Soon(A, next, u)
    BY <1>2 DEF Soon
  <2>2. SoonUsed(A, next, u) \in Nat
    BY SoonFacts
  <2>3. SoonUsed(A \cup {x}, next, u) = SoonUsed(A, next, u)
    BY <2>1 DEF SoonUsed
  <2> QED
    BY <1>2, <2>2, <2>3 DEF IsSoon
<1> QED
  BY <1>1, <1>2

\* The greedy has G and g misses, some way S and m.  It is ahead if, up to every position,
\* the misses it has more are made up for by what it holds and the way does not.
Ahead(g, G, m, S, next) == \A u \in Nat : g + SoonUsed(S, next, u) <= m + SoonUsed(G, next, u)

\* The misses of a cache G after a request of x.
Counted(x, G, g) == IF x \in G THEN g ELSE g + 1

\* A request of x at time t: before and next say when each expert is asked for from t on
\* and after t.
Passes(G, S, x, t, before, next) ==
    /\ before[x] = t /\ next[x] \in Nat /\ next[x] > t
    /\ \A e \in (G \cup S) \ {x} : before[e] = next[e] /\ next[e] \in Nat /\ next[e] > t
DropsLast(c, G, x, G2, S2, next) ==
    \/ c = 0
    \/ G2 = G \cup {x}
    \/ \E f \in G \cup {x} : /\ G2 = (G \cup {x}) \ {f} /\ Cardinality(G2) = c
                             /\ \A e \in G2 : next[e] <= next[f] \/ (e = x /\ x \in S2)

\* It stays ahead over a request of x at time t, if it keeps all, or what it drops is asked
\* for last of what it keeps, a newcomer excepted that the way has to keep as well.
LEMMA AheadStep ==
    ASSUME NEW G, IsFiniteSet(G), NEW S, IsFiniteSet(S), NEW x, NEW t \in Nat, NEW c \in Nat,
           NEW g \in Nat, NEW m \in Nat, NEW before, NEW next, Ahead(g, G, m, S, before),
           Passes(G, S, x, t, before, next),
           NEW G2, IsFiniteSet(G2), NEW S2, S2 \subseteq S \cup {x}, Cardinality(S2) <= c,
           DropsLast(c, G, x, G2, S2, next)
    PROVE  Ahead(Counted(x, G, g), G2, Counted(x, S, m), S2, next)
<1> USE DEF Passes, DropsLast
<1> DEFINE g2 == Counted(x, G, g)
           m2 == Counted(x, S, m)
           one(u) == IsSoon(next, x, u)
<1>0. g2 = (IF x \in G THEN g ELSE g + 1) /\ m2 = (IF x \in S THEN m ELSE m + 1)
  BY DEF Counted
<1>1. IsFiniteSet(G \ {x}) /\ IsFiniteSet(S \ {x}) /\ IsFiniteSet(G \cup {x}) /\ IsFiniteSet(S \cup {x}) /\ IsFiniteSet(S2)
  BY FS_Subset, FS_AddElement
<1>2. ASSUME NEW A, IsFiniteSet(A), NEW u \in Nat,
             \A e \in A \ {x} : before[e] = next[e] /\ next[e] \in Nat /\ next[e] > t
      PROVE  /\ SoonUsed(A \ {x}, next, u) \in Nat
             /\ u >= t => SoonUsed(A, before, u) = SoonUsed(A \ {x}, next, u) + (IF x \in A THEN 1 ELSE 0)
             /\ SoonUsed(A \cup {x}, next, u) = SoonUsed(A \ {x}, next, u) + one(u)
             /\ u <= t => SoonUsed(A \cup {x}, next, u) = 0
  <2> DEFINE B == A \ {x}
  <2>1. IsFiniteSet(B) /\ x \notin B /\ A \cup {x} = B \cup {x} /\ (x \in A => A = B \cup {x}) /\ (x \notin A => A = B)
    BY <1>2, FS_Subset
  <2>2. Soon(B, before, u) = Soon(B, next, u)
    BY <1>2 DEF Soon
  <2>3. SoonUsed(B, before, u) = SoonUsed(B, next, u) /\ SoonUsed(B, next, u) \in Nat
    BY <2>1, <2>2, SoonFacts DEF SoonUsed
  <2>4. u <= t => \A e \in B \cup {x} : ~ (next[e] <= u)
    BY <1>2
  <2> HIDE DEF B
  <2>5. /\ SoonUsed(B \cup {x}, before, u) = SoonUsed(B, before, u) + IsSoon(before, x, u)
        /\ SoonUsed(B \cup {x}, next, u) = SoonUsed(B, next, u) + one(u)
        /\ IsFiniteSet(B \cup {x})
    <3>1. IsFiniteSet(B) /\ x \notin B
      BY <2>1
    <3>2. SoonUsed(B \cup {x}, before, u) = SoonUsed(B, before, u) + IsSoon(before, x, u)
      BY ONLY <3>1, SoonOneMore
    <3>3. SoonUsed(B \cup {x}, next, u) = SoonUsed(B, next, u) + IsSoon(next, x, u)
      BY ONLY <3>1, SoonOneMore
    <3>4. IsFiniteSet(B \cup {x})
      BY <3>1, FS_AddElement
    <3> QED
      BY <3>2, <3>3, <3>4
  <2>6. u <= t => SoonUsed(B \cup {x}, next, u) = 0
    BY <2>4, <2>5, SoonFacts
  <2>7. u >= t => SoonUsed(A, before, u) = SoonUsed(B, next, u) + (IF x \in A THEN 1 ELSE 0)
    <3>1. CASE x \in A
      BY <2>1, <2>3, <2>5, <3>1 DEF IsSoon
    <3>2. CASE x \notin A
      BY <2>1, <2>3, <3>2
    <3> QED
      BY <3>1, <3>2
  <2> QED
    BY <2>1, <2>3, <2>5, <2>6, <2>7 DEF B
<1>3. ASSUME NEW u \in Nat, u >= t
      PROVE  g2 + SoonUsed(S \ {x}, next, u) <= m2 + SoonUsed(G \ {x}, next, u)
  <2>1. g + SoonUsed(S, before, u) <= m + SoonUsed(G, before, u)
    BY DEF Ahead
  <2>2. /\ SoonUsed(S, before, u) = SoonUsed(S \ {x}, next, u) + (IF x \in S THEN 1 ELSE 0)
        /\ SoonUsed(S \ {x}, next, u) \in Nat
    BY <1>2, <1>3
  <2>3. /\ SoonUsed(G, before, u) = SoonUsed(G \ {x}, next, u) + (IF x \in G THEN 1 ELSE 0)
        /\ SoonUsed(G \ {x}, next, u) \in Nat
    BY <1>2, <1>3
  <2> HIDE DEF g2, m2
  <2> QED
    BY <1>0, <2>1, <2>2, <2>3
<1>4. g2 \in Nat /\ m2 \in Nat
  <2> HIDE DEF g2, m2
  <2> QED
    BY <1>0
<1>5. g2 <= m2
  <2>1. /\ SoonUsed(S \cup {x}, next, t) = 0 /\ SoonUsed(S \cup {x}, next, t) = SoonUsed(S \ {x}, next, t) + one(t)
        /\ SoonUsed(S \ {x}, next, t) \in Nat
    <3>1. t \in Nat /\ t <= t /\ IsFiniteSet(S)
      OBVIOUS
    <3>2. \A e \in S \ {x} : before[e] = next[e] /\ next[e] \in Nat /\ next[e] > t
      OBVIOUS
    <3> HIDE DEF one
    <3> QED
      BY <1>2, <3>1, <3>2
  <2>2. /\ SoonUsed(G \cup {x}, next, t) = 0 /\ SoonUsed(G \cup {x}, next, t) = SoonUsed(G \ {x}, next, t) + one(t)
        /\ SoonUsed(G \ {x}, next, t) \in Nat
    <3>1. t \in Nat /\ t <= t /\ IsFiniteSet(G)
      OBVIOUS
    <3>2. \A e \in G \ {x} : before[e] = next[e] /\ next[e] \in Nat /\ next[e] > t
      OBVIOUS
    <3> HIDE DEF one
    <3> QED
      BY <1>2, <3>1, <3>2
  <2>3. g2 + SoonUsed(S \ {x}, next, t) <= m2 + SoonUsed(G \ {x}, next, t)
    BY <1>3
  <2> HIDE DEF g2, m2
  <2>4. one(t) \in {0, 1}
    BY DEF IsSoon
  <2> HIDE DEF one
  <2> QED
    BY <1>4, <2>1, <2>2, <2>3, <2>4
<1>6. ASSUME NEW u \in Nat PROVE g2 + SoonUsed(S2, next, u) <= m2 + SoonUsed(G2, next, u)
  <2>1. /\ SoonUsed(S2, next, u) \in Nat /\ SoonUsed(S2, next, u) <= SoonUsed(S \cup {x}, next, u)
        /\ SoonUsed(S2, next, u) <= Cardinality(S2) /\ Cardinality(S2) \in Nat
        /\ SoonUsed(G2, next, u) \in Nat
    BY <1>1, SoonFacts
  <2>2. /\ SoonUsed(S \cup {x}, next, u) = SoonUsed(S \ {x}, next, u) + one(u)
        /\ SoonUsed(S \ {x}, next, u) \in Nat
        /\ u <= t => SoonUsed(S \cup {x}, next, u) = 0
    BY <1>2
  <2>3. /\ SoonUsed(G \cup {x}, next, u) = SoonUsed(G \ {x}, next, u) + one(u)
        /\ SoonUsed(G \ {x}, next, u) \in Nat
    BY <1>2
  <2>4. one(u) \in {0, 1}
    BY DEF IsSoon
  <2>5. CASE u <= t
    <3> HIDE DEF g2, m2, one
    <3> QED
      BY <1>4, <1>5, <2>1, <2>2, <2>5
  <2>6. CASE c = 0
    <3> HIDE DEF g2, m2, one
    <3> QED
      BY <1>4, <1>5, <2>1, <2>6
  <2>7. ASSUME SoonUsed(G2, next, u) = SoonUsed(G \cup {x}, next, u), ~ (u <= t)
        PROVE  g2 + SoonUsed(S2, next, u) <= m2 + SoonUsed(G2, next, u)
    <3>1. g2 + SoonUsed(S \ {x}, next, u) <= m2 + SoonUsed(G \ {x}, next, u)
      BY <1>3, <2>7
    <3> HIDE DEF g2, m2, one
    <3> QED
      BY <1>4, <2>1, <2>2, <2>3, <2>4, <2>7, <3>1
  <2>8. ASSUME NEW f \in G \cup {x}, G2 = (G \cup {x}) \ {f}, Cardinality(G2) = c,
               \A e \in G2 : next[e] <= next[f] \/ (e = x /\ x \in S2), ~ (u <= t)
        PROVE  g2 + SoonUsed(S2, next, u) <= m2 + SoonUsed(G2, next, u)
    <3>1. \A e \in G \cup {x} : next[e] \in Nat
      OBVIOUS
    <3>2. CASE ~ (next[f] <= u)
      <4>1. Soon(G2, next, u) = Soon(G \cup {x}, next, u)
        BY <2>8, <3>2 DEF Soon
      <4> HIDE DEF g2, m2, one
      <4> QED
        BY <2>7, <2>8, <4>1 DEF SoonUsed
    <3>3. CASE next[f] <= u /\ \A e \in G2 : next[e] <= u
      <4>1. SoonUsed(G2, next, u) = c
        BY <2>8, <3>3, SoonFacts
      <4> HIDE DEF g2, m2, one
      <4> QED
        BY <1>4, <1>5, <2>1, <4>1
    <3>4. ASSUME next[f] <= u, NEW e \in G2, ~ (next[e] <= u)
          PROVE  g2 + SoonUsed(S2, next, u) <= m2 + SoonUsed(G2, next, u)
      <4>1. e \in G \cup {x} /\ f \in G \cup {x}
        BY <2>8
      <4>2. e = x /\ x \in S2
        <5>1. next[e] \in Nat /\ next[f] \in Nat
          BY <3>1, <4>1
        <5>2. ~ (next[e] <= next[f])
          BY <3>4, <5>1
        <5> QED
          BY <2>8, <3>4, <5>2
      <4>3. \A k \in G2 \ {x} : next[k] <= u
        <5> TAKE k \in G2 \ {x}
        <5>1. next[k] \in Nat /\ next[f] \in Nat /\ next[k] <= next[f]
          BY <2>8, <3>1, <4>1
        <5> QED
          BY <3>4, <5>1
      <4>4. \A A : IsFiniteSet(A) /\ x \in A =>
               /\ IsFiniteSet(A \ {x}) /\ x \notin A \ {x} /\ A = (A \ {x}) \cup {x}
        BY FS_Subset
      <4>5. x \in G2 /\ x \in S2 /\ ~ (next[x] <= u)
        BY <3>4, <4>2
      <4>6. /\ Cardinality(G2) = Cardinality(G2 \ {x}) + 1
            /\ SoonUsed(G2, next, u) = SoonUsed(G2 \ {x}, next, u) + 0
        <5> DEFINE B == G2 \ {x}
        <5>1. IsFiniteSet(B) /\ x \notin B /\ G2 = B \cup {x}
          BY <4>4, <4>5
        <5> HIDE DEF B
        <5>2. /\ Cardinality(B \cup {x}) = Cardinality(B) + 1
              /\ SoonUsed(B \cup {x}, next, u) = SoonUsed(B, next, u) + IsSoon(next, x, u)
          <6>1. Cardinality(B \cup {x}) = Cardinality(B) + 1
            BY ONLY <5>1, FS_AddElement
          <6>2. SoonUsed(B \cup {x}, next, u) = SoonUsed(B, next, u) + IsSoon(next, x, u)
            BY ONLY <5>1, SoonOneMore
          <6> QED
            BY <6>1, <6>2
        <5> QED
          BY <4>5, <5>1, <5>2 DEF B, IsSoon
      <4>7. /\ Cardinality(S2) = Cardinality(S2 \ {x}) + 1
            /\ SoonUsed(S2, next, u) = SoonUsed(S2 \ {x}, next, u) + 0
        <5> DEFINE B == S2 \ {x}
        <5>1. IsFiniteSet(B) /\ x \notin B /\ S2 = B \cup {x}
          BY <1>1, <4>4, <4>5
        <5> HIDE DEF B
        <5>2. /\ Cardinality(B \cup {x}) = Cardinality(B) + 1
              /\ SoonUsed(B \cup {x}, next, u) = SoonUsed(B, next, u) + IsSoon(next, x, u)
          <6>1. Cardinality(B \cup {x}) = Cardinality(B) + 1
            BY ONLY <5>1, FS_AddElement
          <6>2. SoonUsed(B \cup {x}, next, u) = SoonUsed(B, next, u) + IsSoon(next, x, u)
            BY ONLY <5>1, SoonOneMore
          <6> QED
            BY <6>1, <6>2
        <5> QED
          BY <4>5, <5>1, <5>2 DEF B, IsSoon
      <4>8. /\ SoonUsed(G2 \ {x}, next, u) = Cardinality(G2 \ {x}) /\ Cardinality(G2 \ {x}) \in Nat
            /\ SoonUsed(S2 \ {x}, next, u) <= Cardinality(S2 \ {x}) /\ Cardinality(S2 \ {x}) \in Nat
            /\ SoonUsed(S2 \ {x}, next, u) \in Nat
        <5>1. IsFiniteSet(G2 \ {x}) /\ IsFiniteSet(S2 \ {x})
          BY <1>1, <4>4, <4>5
        <5> QED
          BY <4>3, <5>1, SoonFacts
      <4> HIDE DEF g2, m2, one
      <4> QED
        BY <1>4, <1>5, <2>8, <4>6, <4>7, <4>8
    <3> QED
      BY <3>2, <3>3, <3>4
  <2>9. CASE G2 = G \cup {x}
    <3> HIDE DEF g2, m2, one
    <3> QED
      BY <2>5, <2>7, <2>9
  <2> HIDE DEF g2, m2, one
  <2> QED
    BY <2>5, <2>6, <2>8, <2>9
<1> QED
  BY <1>6 DEF Ahead


-----------------------------------------------------------------------------
(* One request *)

NextAfter(l, t) == [e \in Experts |-> NextUse(l, e, t)]

\* The next use is later than now, and a request changes only that of the expert asked for.
LEMMA NextUseFacts ==
    ASSUME case \in Studies, NEW l \in Layers, NEW t \in Nat
    PROVE  /\ \A e \in Experts : NextUse(l, e, t) \in Nat /\ (t <= Len(case.stream[l]) => NextUse(l, e, t) > t)
           /\ t + 1 <= Len(case.stream[l]) =>
                 \A e \in Experts : IF case.stream[l][t+1] = e THEN NextUse(l, e, t) = t + 1
                                    ELSE NextUse(l, e, t) = NextUse(l, e, t+1)
<1> DEFINE s == case.stream[l]
           n == Len(s)
           Later(e, i) == {j \in i+1 .. n : s[j] = e}
           P(e, i, j) == j \in Later(e, i) /\ \A k \in Later(e, i) : j <= k
<1>1. n \in Nat /\ MaxCap \in Nat
  <2>1. s \in Seq(Experts)
    BY DEF Studies
  <2> QED
    BY <2>1, LenProperties, ConstantFacts
<1>2. Inf(l) \in Nat /\ Inf(l) > n
  BY <1>1 DEF Inf
<1>3. \A e, i : NextUse(l, e, i) = IF Later(e, i) = {} THEN Inf(l) ELSE CHOOSE j : P(e, i, j)
  BY DEF NextUse
<1> HIDE DEF n
<1>4. ASSUME NEW e, NEW i \in Nat, Later(e, i) # {}
      PROVE  P(e, i, NextUse(l, e, i))
  <2>1. Later(e, i) \in SUBSET Nat
    BY <1>1
  <2>2. PICK j \in Later(e, i) : \A k \in Later(e, i) : j <= k
    <3> HIDE DEF Later
    <3> QED
      BY <1>4, <2>1, LeastOf
  <2>3. \E k : P(e, i, k)
    BY <2>2
  <2>4. NextUse(l, e, i) = CHOOSE k : P(e, i, k)
    BY <1>3, <1>4
  <2> HIDE DEF P
  <2> QED
    BY <2>3, <2>4
<1>5. ASSUME NEW e \in Experts PROVE NextUse(l, e, t) \in Nat /\ (t <= n => NextUse(l, e, t) > t)
  <2>1. CASE Later(e, t) = {}
    <3>1. NextUse(l, e, t) = Inf(l)
      BY <1>3, <2>1
    <3> QED
      BY <1>1, <1>2, <3>1
  <2>2. CASE Later(e, t) # {}
    <3>1. NextUse(l, e, t) \in t+1 .. n
      BY <1>4, <2>2
    <3> QED
      BY <1>1, <3>1
  <2> QED
    BY <2>1, <2>2
<1>6. ASSUME t + 1 <= n, NEW e \in Experts
      PROVE  IF s[t+1] = e THEN NextUse(l, e, t) = t + 1 ELSE NextUse(l, e, t) = NextUse(l, e, t+1)
  <2>1. CASE s[t+1] = e
    <3>1. t+1 \in Later(e, t)
      BY <1>1, <1>6, <2>1
    <3>2. P(e, t, NextUse(l, e, t))
      BY <1>4, <3>1
    <3>3. NextUse(l, e, t) \in t+1 .. n /\ NextUse(l, e, t) <= t+1
      BY <3>1, <3>2
    <3>4. NextUse(l, e, t) = t+1
      BY <1>1, <3>3
    <3> QED
      BY <2>1, <3>4
  <2>2. CASE s[t+1] # e
    <3>1. Later(e, t) = Later(e, t+1)
      BY <1>1, <1>6, <2>2
    <3>2. NextUse(l, e, t) = NextUse(l, e, t+1)
      <4>1. \A j : P(e, t, j) <=> P(e, t+1, j)
        BY <3>1
      <4>2. (CHOOSE j : P(e, t, j)) = (CHOOSE j : P(e, t+1, j))
        BY <4>1
      <4> HIDE DEF P, Later
      <4> QED
        BY <1>3, <3>1, <4>2
    <3> QED
      BY <2>2, <3>2
  <2> QED
    BY <2>1, <2>2
<1> QED
  BY <1>5, <1>6 DEF n

\* The ways hold experts that fit.
WaysFit(l, may_bypass, t) ==
    \A w \in WaysAt(l, may_bypass, t) : w \in (SUBSET Experts) \X Nat /\ Weight(l, w[1]) <= case.budget

LEMMA WaysFitStart ==
    ASSUME case \in Studies, NEW l \in Layers, NEW may_bypass
    PROVE  WaysFit(l, may_bypass, 0)
<1>1. WaysAt(l, may_bypass, 0) = {<<{}, 0>>}
  BY WaysFacts
<1>2. {} \in SUBSET Experts
  OBVIOUS
<1>3. Weight(l, {}) = 0 /\ case.budget \in Nat
  BY <1>2, WeightFacts
<1> QED
  BY <1>1, <1>3 DEF WaysFit

\* What one more request makes of the ways.
LEMMA NextWays ==
    ASSUME case \in Studies, NEW l \in Layers, NEW may_bypass, NEW t \in Nat, t + 1 <= Len(case.stream[l]),
           NEW x, x = case.stream[l][t+1], NEW w
    PROVE  w \in WaysAt(l, may_bypass, t+1) <=> \E v \in WaysAt(l, may_bypass, t) : GoesOn(l, may_bypass, v, x, w)
<1>1. t \in 0 .. Len(case.stream[l]) - 1
  <2>1. case.stream[l] \in Seq(Experts)
    BY DEF Studies
  <2>2. Len(case.stream[l]) \in Nat
    BY <2>1, LenProperties
  <2> QED
    BY <2>2
<1>2. WaysAt(l, may_bypass, t+1) = Ways(l, may_bypass, FitSets(l), WaysAt(l, may_bypass, t), x)
  BY <1>1, WaysFacts DEF WaysOn
<1> QED
  BY <1>2, WayTaken

LEMMA WaysFitStep ==
    ASSUME case \in Studies, NEW l \in Layers, NEW may_bypass, NEW t \in Nat, t + 1 <= Len(case.stream[l]),
           case.stream[l][t+1] \in Experts, WaysFit(l, may_bypass, t)
    PROVE  WaysFit(l, may_bypass, t+1)
<1> DEFINE x == case.stream[l][t+1]
<1>1. ASSUME NEW w \in WaysAt(l, may_bypass, t+1)
      PROVE  w \in (SUBSET Experts) \X Nat /\ Weight(l, w[1]) <= case.budget
  <2>1. PICK v \in WaysAt(l, may_bypass, t) : GoesOn(l, may_bypass, v, x, w)
    BY NextWays
  <2>2. v \in (SUBSET Experts) \X Nat /\ Weight(l, v[1]) <= case.budget
    BY DEF WaysFit
  <2>3. v[1] \in SUBSET Experts /\ v[2] \in Nat /\ v[2] + 1 \in Nat
    BY <2>2
  <2> HIDE DEF x
  <2>4. CASE w = v
    BY <2>2, <2>4
  <2>5. ASSUME NEW T, w = <<T, v[2] + 1>>, T \in FitSets(l) \/ T = v[1]
        PROVE  w \in (SUBSET Experts) \X Nat /\ Weight(l, w[1]) <= case.budget
    <3>1. T \in SUBSET Experts /\ Weight(l, T) <= case.budget
      BY <2>2, <2>3, <2>5 DEF FitSets
    <3> QED
      BY <2>3, <2>5, <3>1
  <2> QED
    BY <2>1, <2>4, <2>5 DEF GoesOn
<1> QED
  BY <1>1 DEF WaysFit

\* A cache that some way holds as much as, with no more misses: it is not below the fewest.
Followed(l, may_bypass, t, G, g) ==
    \E w \in WaysAt(l, may_bypass, t) : G \subseteq w[1] /\ w[2] <= g

\* A policy that keeps some of what it had and the newcomer is still not below the fewest.
LEMMA FollowedStep ==
    ASSUME case \in Studies, NEW l \in Layers, NEW may_bypass, NEW t \in Nat, t + 1 <= Len(case.stream[l]),
           NEW x \in Experts, x = case.stream[l][t+1], WaysFit(l, may_bypass, t),
           NEW G, NEW G2 \in SUBSET Experts, NEW g \in Nat, Followed(l, may_bypass, t, G, g),
           G2 \subseteq G \cup {x}, x \in G => G2 = G, x \notin G2 => may_bypass \/ TooBig(l, x),
           x \in G2 => x \in G \/ Weight(l, G2) <= case.budget
    PROVE  Followed(l, may_bypass, t+1, G2, Counted(x, G, g))
<1>1. PICK v \in WaysAt(l, may_bypass, t) : G \subseteq v[1] /\ v[2] <= g
  BY DEF Followed
<1>2. v[2] \in Nat /\ v[1] \in SUBSET Experts
  BY DEF WaysFit
<1>3. CASE x \in v[1]
  <2>1. v \in WaysAt(l, may_bypass, t+1)
    <3>1. GoesOn(l, may_bypass, v, x, v)
      BY <1>3 DEF GoesOn
    <3> QED
      BY <3>1, NextWays
  <2>2. G2 \subseteq v[1] /\ v[2] <= Counted(x, G, g)
    BY <1>1, <1>2, <1>3 DEF Counted
  <2> QED
    BY <2>1, <2>2 DEF Followed
<1>4. CASE x \notin v[1] /\ x \notin G2
  <2> DEFINE w == <<v[1], v[2] + 1>>
  <2>1. w \in WaysAt(l, may_bypass, t+1)
    <3>1. GoesOn(l, may_bypass, v, x, w)
      BY <1>4 DEF GoesOn
    <3> HIDE DEF w
    <3> QED
      BY <3>1, NextWays
  <2>2. w[1] = v[1] /\ w[2] = v[2] + 1
    OBVIOUS
  <2> HIDE DEF w
  <2>3. G2 \subseteq w[1] /\ w[2] <= Counted(x, G, g)
    BY <1>1, <1>2, <1>4, <2>2 DEF Counted
  <2> QED
    BY <2>1, <2>3 DEF Followed
<1>5. CASE x \notin v[1] /\ x \in G2
  <2> DEFINE w == <<G2, v[2] + 1>>
  <2>1. x \notin G
    BY <1>1, <1>5
  <2>2. w \in WaysAt(l, may_bypass, t+1)
    <3>1. G2 \in FitSets(l)
      BY <1>5, <2>1 DEF FitSets
    <3>2. G2 \ {x} \in SUBSET v[1] /\ G2 = (G2 \ {x}) \cup {x}
      BY <1>1, <1>5
    <3>3. GoesOn(l, may_bypass, v, x, w)
      BY <1>5, <3>1, <3>2 DEF GoesOn
    <3> HIDE DEF w
    <3> QED
      BY <3>3, NextWays
  <2>3. w[1] = G2 /\ w[2] = v[2] + 1
    OBVIOUS
  <2> HIDE DEF w
  <2>4. G2 \subseteq w[1] /\ w[2] <= Counted(x, G, g)
    BY <1>1, <1>2, <2>1, <2>3 DEF Counted
  <2> QED
    BY <2>2, <2>4 DEF Followed
<1> QED
  BY <1>3, <1>4, <1>5

\* The greedy is ahead of every way.
AheadOfAll(l, may_bypass, t, G, g) ==
    \A w \in WaysAt(l, may_bypass, t) : Ahead(g, G, w[2], w[1], NextAfter(l, t))

\* What the greedy keeps: all, or all but the one that is asked for last; of a newcomer that
\* cannot be passed by it does not matter when.
KeepsSooner(l, may_bypass, t, c, G, x, G2) ==
    \/ c = 0
    \/ G2 = G \cup {x}
    \/ \E f \in G \cup {x} :
          /\ G2 = (G \cup {x}) \ {f} /\ Cardinality(G2) = c
          /\ \A e \in G2 : \/ NextUse(l, e, t+1) <= NextUse(l, f, t+1)
                           \/ e = x /\ ~ may_bypass /\ ~ TooBig(l, x)

\* The greedy stays ahead of every way over the next request.
LEMMA AheadOfAllStep ==
    ASSUME case \in Studies, NEW l \in Layers, NEW may_bypass, NEW t \in Nat, t + 1 <= Len(case.stream[l]),
           NEW x \in Experts, x = case.stream[l][t+1], Uniform(l), WaysFit(l, may_bypass, t),
           NEW G \in SUBSET Experts, NEW G2 \in SUBSET Experts, NEW g \in Nat,
           AheadOfAll(l, may_bypass, t, G, g), KeepsSooner(l, may_bypass, t, SlotsOf(l, x), G, x, G2)
    PROVE  AheadOfAll(l, may_bypass, t+1, G2, Counted(x, G, g))
<1> DEFINE before == NextAfter(l, t)
           next == NextAfter(l, t+1)
           n == t + 1
           c == SlotsOf(l, x)
<1>1. /\ before[x] = n /\ next[x] \in Nat /\ next[x] > n /\ n \in Nat
      /\ \A e \in Experts \ {x} : before[e] = next[e] /\ next[e] \in Nat /\ next[e] > n
      /\ \A e \in Experts : next[e] = NextUse(l, e, t+1)
  <2>1. \A e \in Experts : before[e] = NextUse(l, e, t) /\ next[e] = NextUse(l, e, n)
    BY DEF NextAfter
  <2>2. n \in Nat /\ n <= Len(case.stream[l])
    OBVIOUS
  <2>3. \A e \in Experts : NextUse(l, e, n) \in Nat /\ NextUse(l, e, n) > n
    <3> HIDE DEF n
    <3> QED
      BY <2>2, NextUseFacts
  <2>4. \A e \in Experts : IF x = e THEN NextUse(l, e, t) = n ELSE NextUse(l, e, t) = NextUse(l, e, n)
    BY NextUseFacts
  <2> HIDE DEF before, next, n
  <2> QED
    BY <2>1, <2>2, <2>3, <2>4 DEF n
<1>2. WaysFit(l, may_bypass, n)
  BY WaysFitStep
<1>3. c \in Nat /\ \A A \in SUBSET Experts : Weight(l, A) <= case.budget <=> Cardinality(A) <= c
  BY SlotsFit
<1>4. \A A \in SUBSET Experts : IsFiniteSet(A)
  BY WeightFacts
<1>5. ASSUME NEW w \in WaysAt(l, may_bypass, n)
      PROVE  Ahead(Counted(x, G, g), G2, w[2], w[1], next)
  <2>1. PICK v \in WaysAt(l, may_bypass, t) : GoesOn(l, may_bypass, v, x, w)
    BY NextWays
  <2>2. v \in (SUBSET Experts) \X Nat
    BY DEF WaysFit
  <2> DEFINE S == v[1]
             m == v[2]
             S2 == w[1]
  <2>3. S \in SUBSET Experts /\ m \in Nat
    BY <2>2
  <2>4. /\ S2 \subseteq S \cup {x} /\ w[2] = Counted(x, S, m)
        /\ ~ may_bypass /\ ~ TooBig(l, x) => x \in S2
    <3>1. CASE x \in S /\ w = v
      BY <3>1 DEF Counted
    <3>2. ASSUME x \notin S, NEW T, w = <<T, m + 1>>,
                 \/ \E K \in SUBSET S : T = K \cup {x}
                 \/ (may_bypass \/ TooBig(l, x)) /\ T = S
          PROVE  /\ S2 \subseteq S \cup {x} /\ w[2] = Counted(x, S, m)
                 /\ ~ may_bypass /\ ~ TooBig(l, x) => x \in S2
      BY <3>2 DEF Counted
    <3> QED
      BY <2>1, <3>1, <3>2 DEF GoesOn
  <2>5. S2 \in SUBSET Experts /\ Cardinality(S2) <= c
    <3>1. w \in (SUBSET Experts) \X Nat /\ Weight(l, S2) <= case.budget
      BY <1>2 DEF WaysFit
    <3>2. S2 \in SUBSET Experts
      BY <3>1
    <3> HIDE DEF S2, c
    <3> QED
      BY <1>3, <3>1, <3>2
  <2>6. Ahead(g, G, m, S, before)
    BY DEF AheadOfAll
  <2>7. \/ c = 0
        \/ G2 = G \cup {x}
        \/ \E f \in G \cup {x} : /\ G2 = (G \cup {x}) \ {f} /\ Cardinality(G2) = c
                                 /\ \A e \in G2 : next[e] <= next[f] \/ (e = x /\ x \in S2)
    <3> HIDE DEF next, S2, c
    <3> QED
      BY <1>1, <2>4 DEF KeepsSooner, c
  <2>8. \A e \in (G \cup S) \ {x} : before[e] = next[e] /\ next[e] \in Nat /\ next[e] > n
    <3> HIDE DEF next, before, n, S
    <3> QED
      BY <1>1, <2>3
  <2>9. IsFiniteSet(G) /\ IsFiniteSet(S) /\ IsFiniteSet(G2)
    BY <1>4, <2>3
  <2>10. DropsLast(c, G, x, G2, S2, next)
    <3> HIDE DEF next, S2, c
    <3> QED
      BY <2>7 DEF DropsLast
  <2>11. Passes(G, S, x, n, before, next)
    <3> HIDE DEF next, before, n, S
    <3> QED
      BY <1>1, <2>8 DEF Passes
  <2>12. n \in Nat
    BY <1>1
  <2> HIDE DEF before, next, n, c, S, m, S2
  <2>13. Ahead(Counted(x, G, g), G2, Counted(x, S, m), S2, next)
    BY <1>3, <2>3, <2>4, <2>5, <2>6, <2>9, <2>10, <2>11, <2>12, AheadStep
  <2> QED
    BY <2>4, <2>13 DEF S2
<1> QED
  BY <1>5 DEF AheadOfAll, n

-----------------------------------------------------------------------------
(* The orders in which the policies evict *)

\* The pairs of R of which the first goes before the second: three keys, least first.
Lex(R, u, v, w) ==
    {p \in R \X R : \/ u[p[1]] < u[p[2]]
                    \/ u[p[1]] = u[p[2]] /\ v[p[1]] < v[p[2]]
                    \/ u[p[1]] = u[p[2]] /\ v[p[1]] = v[p[2]] /\ w[p[1]] < w[p[2]]}

\* It is a strict order, total if the last keys differ.
LEMMA LexFacts ==
    ASSUME NEW R, NEW u, NEW v, NEW w, \A e \in R : u[e] \in Int /\ v[e] \in Int /\ w[e] \in Int
    PROVE  /\ \A e, f \in R : <<e, f>> \in Lex(R, u, v, w) => <<f, e>> \notin Lex(R, u, v, w)
           /\ \A e, f, k \in R : <<e, f>> \in Lex(R, u, v, w) /\ <<f, k>> \in Lex(R, u, v, w)
                                 => <<e, k>> \in Lex(R, u, v, w)
           /\ \A e, f, k \in R : <<e, f>> \notin Lex(R, u, v, w) /\ <<f, k>> \notin Lex(R, u, v, w)
                                 => <<e, k>> \notin Lex(R, u, v, w)
           /\ (\A e, f \in R : e # f => w[e] # w[f]) =>
                 \A e, f \in R : e # f => <<e, f>> \in Lex(R, u, v, w) \/ <<f, e>> \in Lex(R, u, v, w)
           /\ \A e, f \in R : <<e, f>> \in Lex(R, u, v, w) => u[e] <= u[f]
<1> DEFINE P == Lex(R, u, v, w)
           before(e, f) == \/ u[e] < u[f]
                           \/ u[e] = u[f] /\ v[e] < v[f]
                           \/ u[e] = u[f] /\ v[e] = v[f] /\ w[e] < w[f]
<1>1. \A e, f \in R : <<e, f>> \in P <=> before(e, f)
  BY DEF Lex
<1> HIDE DEF P
<1>2. ASSUME NEW e \in R, NEW f \in R
      PROVE  /\ before(e, f) => ~ before(f, e)
             /\ w[e] # w[f] => before(e, f) \/ before(f, e)
             /\ before(e, f) => u[e] <= u[f]
  OBVIOUS
<1>3. ASSUME NEW e \in R, NEW f \in R, NEW k \in R
      PROVE  /\ before(e, f) /\ before(f, k) => before(e, k)
             /\ ~ before(e, f) /\ ~ before(f, k) => ~ before(e, k)
  OBVIOUS
<1> HIDE DEF before
<1> QED
  BY <1>1, <1>2, <1>3 DEF P

\* What stays of R in such an order fits.
LEMMA StayLex ==
    ASSUME case \in Studies, NEW l \in Layers, NEW R \in SUBSET Experts, NEW room \in Nat,
           NEW u, NEW v, NEW w, \A e \in R : u[e] \in Int /\ v[e] \in Int /\ w[e] \in Int
    PROVE  /\ Stay(l, R, room, Lex(R, u, v, w)) \in SUBSET R
           /\ Weight(l, Stay(l, R, room, Lex(R, u, v, w))) <= room
<1> DEFINE P == Lex(R, u, v, w)
<1>1. /\ \A e, f \in R : <<e, f>> \in P => <<f, e>> \notin P
      /\ \A e, f, k \in R : <<e, f>> \notin P /\ <<f, k>> \notin P => <<e, k>> \notin P
  BY LexFacts
<1> HIDE DEF P
<1>2. Stay(l, R, room, P) \in SUBSET R /\ Weight(l, Stay(l, R, room, P)) <= room
  BY <1>1, StayFits
<1> QED
  BY <1>2 DEF P

\* All stay if they are n, else all but the first.
AllButFirst(stay, Q, n, u) ==
    IF Cardinality(Q) <= n THEN stay = Q
    ELSE \E f \in Q : stay = Q \ {f} /\ \A e \in Q \ {f} : u[f] <= u[e]

LEMMA LexDropsOne ==
    ASSUME case \in Studies, NEW l \in Layers, NEW Q \in SUBSET Experts, NEW room, NEW n \in Nat,
           \A A \in SUBSET Q : Weight(l, A) <= room <=> Cardinality(A) <= n, Cardinality(Q) <= n + 1,
           NEW u, NEW v, NEW w, \A e \in Q : u[e] \in Int /\ v[e] \in Int /\ w[e] \in Int,
           \A e, f \in Q : e # f => w[e] # w[f]
    PROVE  AllButFirst(Stay(l, Q, room, Lex(Q, u, v, w)), Q, n, u)
<1> DEFINE P == Lex(Q, u, v, w)
<1>1. /\ \A e, f \in Q : <<e, f>> \in P => <<f, e>> \notin P
      /\ \A e, f, k \in Q : <<e, f>> \in P /\ <<f, k>> \in P => <<e, k>> \in P
      /\ \A e, f \in Q : e # f => <<e, f>> \in P \/ <<f, e>> \in P
      /\ \A e, f \in Q : <<e, f>> \in P => u[e] <= u[f]
  BY LexFacts
<1> HIDE DEF P
<1>2. \A A \in SUBSET Q : Weight(l, A) <= room <=> Cardinality(A) <= n
  OBVIOUS
<1>3. IF Cardinality(Q) <= n THEN Stay(l, Q, room, P) = Q
      ELSE \E f \in Q : /\ Stay(l, Q, room, P) = Q \ {f}
                        /\ \A e \in Q \ {f} : <<f, e>> \in P
  <2>1. /\ \A e, f \in Q : <<e, f>> \in P => <<f, e>> \notin P
        /\ \A e, f, k \in Q : <<e, f>> \in P /\ <<f, k>> \in P => <<e, k>> \in P
        /\ \A e, f \in Q : e # f => <<e, f>> \in P \/ <<f, e>> \in P
    BY <1>1
  <2> QED
    BY ONLY case \in Studies, l \in Layers, Q \in SUBSET Experts, n \in Nat, Cardinality(Q) <= n + 1,
            <1>2, <2>1, StayDropsOne
<1> QED
  BY <1>1, <1>3 DEF P, AllButFirst

-----------------------------------------------------------------------------
(* A request to each policy *)

\* What any of them makes of its cached set.
Serves(l, may_bypass, x, G, G2) ==
    /\ G2 \subseteq G \cup {x}
    /\ x \in G => G2 = G
    /\ x \notin G2 => may_bypass \/ TooBig(l, x)
    /\ x \in G2 => x \in G \/ Weight(l, G2) <= case.budget

\* No two entries have the same stamp and none is later than t.
Stamped(a, t) == \A e \in Cached(a) : a[e] <= t /\ \A f \in Cached(a) : e # f => a[e] # a[f]

\* Those that stay and the newcomer.
LEMMA JoinedCached ==
    ASSUME NEW a \in Stamps, NEW stay, stay \subseteq Cached(a), NEW x \in Experts, NEW n \in Nat, n > 0
    PROVE  Cached(Joined(a, stay, x, n)) = stay \cup {x}
BY DEF Joined, Only, Cached

LEMMA OnlyCached ==
    ASSUME NEW a \in Stamps, NEW stay, stay \subseteq Cached(a)
    PROVE  Cached(Only(a, stay)) = stay
BY DEF Only, Cached

LEMMA JoinedStamped ==
    ASSUME NEW a \in Stamps, NEW stay, stay \subseteq Cached(a), NEW x \in Experts, NEW t \in Nat,
           Stamped(a, t), NEW n, n = t+1
    PROVE  Stamped(Joined(a, stay, x, n), n) /\ Stamped(a, n)
<1>1. n \in Nat /\ n > 0 /\ n > t
  OBVIOUS
<1> DEFINE J == Joined(a, stay, x, n)
<1>2. Cached(J) = stay \cup {x}
  BY <1>1, JoinedCached
<1>3. stay \in SUBSET Experts
  BY DEF Cached
<1>4. J[x] = n /\ \A e \in stay : e # x => J[e] = a[e]
  BY <1>3 DEF Joined, Only
<1>5. \A e \in Cached(a) : a[e] \in Nat /\ a[e] <= t
  BY DEF Stamped, Stamps, Cached
<1>6. \A e \in Cached(a) : a[e] <= n /\ a[e] # n
  BY <1>1, <1>5
<1>7. \A e, f \in Cached(a) : e # f => a[e] # a[f]
  BY DEF Stamped
<1> HIDE DEF J
<1>8. ASSUME NEW e \in stay \cup {x} PROVE J[e] <= n /\ \A f \in stay \cup {x} : e # f => J[e] # J[f]
  BY <1>1, <1>4, <1>6, <1>7
<1>9. Stamped(J, n)
  BY <1>2, <1>8 DEF Stamped
<1>10. Stamped(a, n)
  BY <1>6, <1>7 DEF Stamped
<1> QED
  BY <1>9, <1>10 DEF J

LEMMA OnlyStamped ==
    ASSUME NEW a \in Stamps, NEW stay, stay \subseteq Cached(a), NEW t, Stamped(a, t)
    PROVE  Stamped(Only(a, stay), t)
<1>1. Cached(Only(a, stay)) = stay
  BY OnlyCached
<1>2. \A e \in stay : Only(a, stay)[e] = a[e]
  BY DEF Only, Cached
<1> QED
  BY <1>1, <1>2 DEF Stamped

\* What fits beside a newcomer fits with it.
LEMMA FitsBeside ==
    ASSUME case \in Studies, NEW l \in Layers, NEW x \in Experts, NEW A \in SUBSET Experts, x \notin A,
           ~ TooBig(l, x)
    PROVE  /\ RoomBeside(l, x) \in Nat
           /\ Weight(l, A) <= RoomBeside(l, x) => Weight(l, A \cup {x}) <= case.budget
<1> DEFINE z == case.size[l][x]
           b == case.budget
           n == Weight(l, A)
<1>1. z \in Nat /\ b \in Nat /\ n \in Nat /\ Weight(l, A \cup {x}) = n + z
  BY WeightFacts
<1>2. RoomBeside(l, x) = b - z /\ ~ (z > b)
  BY DEF RoomBeside, TooBig
<1> HIDE DEF z, b, n
<1>3. b - z \in Nat /\ (n <= b - z => n + z <= b)
  BY <1>1, <1>2
<1> QED
  BY <1>1, <1>2, <1>3 DEF n, b

\* A newcomer that must be cached, any order: shared by three of the policies.
LEMMA NewcomerServed ==
    ASSUME case \in Studies, NEW l \in Layers, NEW may_bypass, NEW x \in Experts, ~ TooBig(l, x),
           NEW R \in SUBSET Experts, x \notin R,
           NEW u, NEW v, NEW w, \A e \in R : u[e] \in Int /\ v[e] \in Int /\ w[e] \in Int
    PROVE  LET stay == Stay(l, R, RoomBeside(l, x), Lex(R, u, v, w))
           IN  /\ stay \in SUBSET R /\ Serves(l, may_bypass, x, R, stay \cup {x})
               /\ Weight(l, stay \cup {x}) <= case.budget
<1>0. RoomBeside(l, x) \in Nat
  <2>1. {} \in SUBSET Experts /\ x \notin {}
    OBVIOUS
  <2> QED
    BY <2>1, FitsBeside
<1>1. PICK stay : stay = Stay(l, R, RoomBeside(l, x), Lex(R, u, v, w))
  OBVIOUS
<1>2. stay \in SUBSET R /\ Weight(l, stay) <= RoomBeside(l, x)
  BY <1>0, <1>1, StayLex
<1>3. stay \in SUBSET Experts /\ x \notin stay
  BY <1>2
<1>4. Weight(l, stay \cup {x}) <= case.budget
  BY <1>2, <1>3, FitsBeside
<1>5. Serves(l, may_bypass, x, R, stay \cup {x})
  BY <1>2, <1>4 DEF Serves
<1> QED
  BY <1>1, <1>2, <1>4, <1>5

\* A hit, or an expert too big for the budget.
LEMMA NothingDropped ==
    ASSUME NEW l, NEW may_bypass, NEW x, NEW G, x \in G \/ TooBig(l, x)
    PROVE  Serves(l, may_bypass, x, G, G)
BY DEF Serves

\* Byte-LRU and SNRD evict by some such order.
LEMMA LruServes ==
    ASSUME TypeOK, NEW l \in Layers, NEW x \in Experts, NEW t \in Nat, ByteLru(l, x, t+1)
    PROVE  Serves(l, FALSE, x, Cached(lru[l]), Cached(lru'[l])) /\ Cached(lru'[l]) \in SUBSET Experts
<1> DEFINE a == lru[l]
           R == Cached(a)
           none == [e \in Experts |-> 0]
           older(f, e) == lru[l][f] < lru[l][e]
           stay == Stay(l, R, RoomBeside(l, x), Lex(R, a, none, none))
<1>1. case \in Studies /\ a \in Stamps /\ R \in SUBSET Experts /\ lru \in [Layers -> Stamps] /\ t+1 \in Nat /\ t+1 > 0
  BY DEF TypeOK, Cached
<1>2. \A e \in R : a[e] \in Int /\ none[e] \in Int
  BY <1>1 DEF Stamps
<1>3. Staying(l, Cached(lru[l]), RoomBeside(l, x), older) = stay
  <2>0. \A e \in R : none[e] = 0
    BY <1>1
  <2>1. \A e, k \in R : older(e, k) <=> <<e, k>> \in Lex(R, a, none, none)
    <3> HIDE DEF none, R
    <3> QED
      BY <2>0 DEF Lex
  <2>2. \A k \in R : {f \in R : ~ older(f, k)} = {f \in R : <<f, k>> \notin Lex(R, a, none, none)}
    BY <2>1
  <2> HIDE DEF older, R
  <2> QED
    BY <2>1, <2>2 DEF Staying, Stay, R, a
<1> HIDE DEF none
<1>4. CASE x \in R
  <2>1. lru'[l] = [a EXCEPT ![x] = t+1]
    BY <1>1, <1>4 DEF ByteLru
  <2>2. Cached(lru'[l]) = R
    BY <1>1, <1>4, <2>1 DEF Cached, Stamps
  <2> QED
    BY <1>1, <1>4, <2>2, NothingDropped
<1>5. CASE x \notin R /\ TooBig(l, x)
  <2>1. lru' = lru
    BY <1>5 DEF ByteLru
  <2> QED
    BY <1>1, <1>5, <2>1, NothingDropped
<1>6. CASE x \notin R /\ ~ TooBig(l, x)
  <2>1. lru'[l] = Joined(a, Staying(l, Cached(lru[l]), RoomBeside(l, x), older), x, t+1)
    BY <1>1, <1>6 DEF ByteLru
  <2>2. stay \in SUBSET R /\ Serves(l, FALSE, x, R, stay \cup {x})
    <3> HIDE DEF a, R
    <3> QED
      BY <1>1, <1>2, <1>6, NewcomerServed
  <2> HIDE DEF stay, older
  <2>3. lru'[l] = Joined(a, stay, x, t+1)
    BY <1>3, <2>1
  <2>4. Cached(Joined(a, stay, x, t+1)) = stay \cup {x}
    BY <1>1, <2>2, JoinedCached
  <2> QED
    BY <1>1, <2>2, <2>3, <2>4
<1> QED
  BY <1>4, <1>5, <1>6

LEMMA SnrdServes ==
    ASSUME TypeOK, NEW l \in Layers, NEW x \in Experts, NEW t \in Nat, NEW n, n = t+1, Snrd(l, x, n)
    PROVE  /\ Serves(l, FALSE, x, Cached(snrd[l].last), Cached(snrd'[l].last))
           /\ Cached(snrd'[l].last) \in SUBSET Experts
<1> DEFINE a == snrd[l].last
           b == snrd[l].born
           R == Cached(a)
           none == [e \in Experts |-> 0]
           score(e) == (n - a[e]) * case.size[l][e]
           young == [e \in Experts |-> 0 - score(e)]
           staler(f, e) == \/ score(f) > score(e)
                           \/ score(f) = score(e) /\ b[f] < b[e]
           room == RoomBeside(l, x)
           stay == Stay(l, R, room, Lex(R, young, b, none))
<1>1. /\ case \in Studies /\ a \in Stamps /\ b \in Stamps /\ R \in SUBSET Experts
      /\ snrd \in [Layers -> [last: Stamps, born: Stamps]] /\ n \in Nat /\ n > 0
      /\ case.size[l] \in [Experts -> Nat \ {0}]
  BY DEF TypeOK, Cached, Studies
<1>2. ASSUME NEW e \in Experts PROVE score(e) \in Int /\ b[e] \in Int /\ none[e] = 0 /\ young[e] = 0 - score(e)
  <2> DEFINE i == n - a[e]
             j == case.size[l][e]
  <2>1. i \in Int /\ j \in Nat /\ b[e] \in Int
    BY <1>1 DEF Stamps
  <2>2. none[e] = 0 /\ young[e] = 0 - i * j
    OBVIOUS
  <2> HIDE DEF i, j, none, young
  <2>3. i * j \in Int
    BY <2>1
  <2> QED
    BY <2>1, <2>2, <2>3 DEF i, j
<1>3. Staying(l, R, room, staler) = stay
  <2>1. \A e, k \in R : staler(e, k) <=> <<e, k>> \in Lex(R, young, b, none)
    <3>1. \A e \in R : e \in Experts
      BY <1>1
    <3> HIDE DEF score, R, young, a, b, none
    <3> QED
      BY <1>2, <3>1 DEF Lex
  <2>2. \A k \in R : {f \in R : ~ staler(f, k)} = {f \in R : <<f, k>> \notin Lex(R, young, b, none)}
    <3> HIDE DEF staler, R, young, none, b
    <3> QED
      BY <2>1
  <2> HIDE DEF staler, R, young, none, b
  <2> QED
    BY <2>1, <2>2 DEF Staying, Stay
<1>4. \A e \in R : young[e] \in Int /\ b[e] \in Int /\ none[e] \in Int
  <2> HIDE DEF score, R, b, none, young
  <2> QED
    BY <1>1, <1>2
<1>5. CASE x \in R
  <2>1. snrd'[l].last = [a EXCEPT ![x] = n]
    BY <1>1, <1>5 DEF Snrd
  <2>2. Cached(snrd'[l].last) = R
    BY <1>1, <1>5, <2>1 DEF Cached, Stamps
  <2> QED
    BY <1>1, <1>5, <2>2, NothingDropped
<1>6. CASE x \notin R /\ TooBig(l, x)
  <2>1. snrd' = snrd
    BY <1>6 DEF Snrd
  <2> QED
    BY <1>1, <1>6, <2>1, NothingDropped
<1>7. CASE x \notin R /\ ~ TooBig(l, x)
  <2>1. snrd'[l].last = Joined(a, Staying(l, R, room, staler), x, n)
    <3> DEFINE those == Staying(l, R, room, staler)
    <3>1. snrd' = [snrd EXCEPT ![l] = [last |-> Joined(a, those, x, n), born |-> Joined(b, those, x, n)]]
      BY <1>7 DEF Snrd, Staying
    <3>3. those = Staying(l, R, room, staler)
      OBVIOUS
    <3> HIDE DEF those, staler
    <3>2. snrd'[l] = [last |-> Joined(a, those, x, n), born |-> Joined(b, those, x, n)]
      BY <1>1, <3>1
    <3>4. snrd'[l].last = Joined(a, those, x, n)
      BY <3>2
    <3> QED
      BY <3>3, <3>4
  <2> HIDE DEF none, young, staler, score
  <2>2. stay \in SUBSET R /\ Serves(l, FALSE, x, R, stay \cup {x})
    <3> HIDE DEF a, b, R
    <3> QED
      BY <1>1, <1>4, <1>7, NewcomerServed
  <2> HIDE DEF stay
  <2>3. snrd'[l].last = Joined(a, stay, x, n)
    BY <1>3, <2>1
  <2>4. Cached(Joined(a, stay, x, n)) = stay \cup {x}
    <3>1. a \in Stamps /\ stay \in SUBSET Cached(a)
      BY <1>1, <2>2
    <3> HIDE DEF a, R
    <3> QED
      BY <1>1, <3>1, JoinedCached
  <2> QED
    BY <1>1, <2>2, <2>3, <2>4
<1> QED
  BY <1>5, <1>6, <1>7

\* The keys of the greedies: the farthest next use first, then the largest.
Near(l, n) == [e \in Experts |-> 0 - NextUse(l, e, n)]
Small(l) == [e \in Experts |-> 0 - case.size[l][e]]

\* Farther is that order.
LEMMA FartherIsLex ==
    ASSUME case \in Studies, NEW l \in Layers, NEW stamp \in Stamps, NEW n \in Nat, NEW R \in SUBSET Experts
    PROVE  /\ \A e \in R : Near(l, n)[e] \in Int /\ Small(l)[e] \in Int /\ stamp[e] \in Int
           /\ \A e, f \in R : Near(l, n)[f] <= Near(l, n)[e] => NextUse(l, e, n) <= NextUse(l, f, n)
           /\ \A e, k \in R : Farther(l, stamp, n, e, k) <=> <<e, k>> \in Lex(R, Near(l, n), Small(l), stamp)
<1>1. \A e \in R : /\ NextUse(l, e, n) \in Nat /\ case.size[l][e] \in Nat /\ stamp[e] \in Nat
                   /\ Near(l, n)[e] = 0 - NextUse(l, e, n) /\ Small(l)[e] = 0 - case.size[l][e]
  <2>1. \A e \in R : NextUse(l, e, n) \in Nat
    BY NextUseFacts
  <2>2. \A e \in R : case.size[l][e] \in Nat /\ stamp[e] \in Nat
    BY DEF Studies, Stamps
  <2>3. \A e \in R : Near(l, n)[e] = 0 - NextUse(l, e, n) /\ Small(l)[e] = 0 - case.size[l][e]
    BY DEF Near, Small
  <2> QED
    BY <2>1, <2>2, <2>3
<1>2. \A e \in R : Near(l, n)[e] \in Int /\ Small(l)[e] \in Int /\ stamp[e] \in Int
  BY <1>1
<1>3. \A e, f \in R : Near(l, n)[f] <= Near(l, n)[e] => NextUse(l, e, n) <= NextUse(l, f, n)
  BY <1>1
<1>4. ASSUME NEW e \in R, NEW k \in R
      PROVE  Farther(l, stamp, n, e, k) <=> <<e, k>> \in Lex(R, Near(l, n), Small(l), stamp)
  <2> DEFINE u == Near(l, n)
             v == Small(l)
             p == <<e, k>>
  <2>1. p \in Lex(R, u, v, stamp) <=> \/ u[e] < u[k]
                                      \/ u[e] = u[k] /\ v[e] < v[k]
                                      \/ u[e] = u[k] /\ v[e] = v[k] /\ stamp[e] < stamp[k]
    <3> HIDE DEF u, v
    <3> QED
      BY DEF Lex
  <2>2. Farther(l, stamp, n, e, k) <=>
           \/ NextUse(l, e, n) > NextUse(l, k, n)
           \/ NextUse(l, e, n) = NextUse(l, k, n) /\ case.size[l][e] > case.size[l][k]
           \/ NextUse(l, e, n) = NextUse(l, k, n) /\ case.size[l][e] = case.size[l][k] /\ stamp[e] < stamp[k]
    BY DEF Farther
  <2> HIDE DEF p
  <2>3. p \in Lex(R, u, v, stamp) <=> Farther(l, stamp, n, e, k)
    BY <1>1, <2>1, <2>2
  <2> QED
    BY <2>3 DEF p
<1> QED
  BY <1>2, <1>3, <1>4

\* What the greedies let stay.
LEMMA FartherStay ==
    ASSUME case \in Studies, NEW l \in Layers, NEW stamp \in Stamps, NEW n \in Nat, NEW R \in SUBSET Experts,
           NEW room
    PROVE  LET farther(f, e) == Farther(l, stamp, n, f, e)
           IN  Staying(l, R, room, farther) = Stay(l, R, room, Lex(R, Near(l, n), Small(l), stamp))
<1> DEFINE P == Lex(R, Near(l, n), Small(l), stamp)
           farther(f, e) == Farther(l, stamp, n, f, e)
<1>1. \A e, k \in R : farther(e, k) <=> <<e, k>> \in P
  BY FartherIsLex
<1> HIDE DEF P, farther
<1>2. \A k \in R : {f \in R : ~ farther(f, k)} = {f \in R : <<f, k>> \notin P}
  BY <1>1
<1>3. Staying(l, R, room, farther) = Stay(l, R, room, P)
  BY <1>1, <1>2 DEF Staying, Stay
<1> QED
  BY <1>3 DEF P, farther

\* At equal sizes, when stamps differ: all stay, or all but one that is asked for last.
LEMMA FarthestGoes ==
    ASSUME case \in Studies, NEW l \in Layers, NEW stamp \in Stamps, NEW n \in Nat, NEW Q \in SUBSET Experts,
           NEW room, NEW c \in Nat, \A A \in SUBSET Experts : Weight(l, A) <= room <=> Cardinality(A) <= c,
           Cardinality(Q) <= c + 1, \A e, f \in Q : e # f => stamp[e] # stamp[f],
           NEW stay, stay = Stay(l, Q, room, Lex(Q, Near(l, n), Small(l), stamp))
    PROVE  \/ stay = Q
           \/ \E f \in Q : /\ stay = Q \ {f} /\ Cardinality(Q) = c + 1
                           /\ \A e \in stay : NextUse(l, e, n) <= NextUse(l, f, n)
<1> DEFINE u == Near(l, n)
           v == Small(l)
<1>1. /\ \A e \in Q : u[e] \in Int /\ v[e] \in Int /\ stamp[e] \in Int
      /\ \A e, f \in Q : u[f] <= u[e] => NextUse(l, e, n) <= NextUse(l, f, n)
  BY FartherIsLex
<1>2. \A A \in SUBSET Q : Weight(l, A) <= room <=> Cardinality(A) <= c
  OBVIOUS
<1>3. Cardinality(Q) \in Nat
  BY WeightFacts, FS_CardinalityType
<1> HIDE DEF u, v
<1>4. AllButFirst(Stay(l, Q, room, Lex(Q, u, v, stamp)), Q, c, u)
  BY <1>1, <1>2, LexDropsOne
<1>5. AllButFirst(stay, Q, c, u)
  BY <1>4 DEF u, v
<1>6. CASE Cardinality(Q) <= c
  BY <1>5, <1>6 DEF AllButFirst
<1>7. CASE ~ (Cardinality(Q) <= c)
  <2>1. Cardinality(Q) = c + 1
    BY <1>3, <1>7
  <2> QED
    BY <1>1, <1>5, <1>7, <2>1 DEF AllButFirst
<1> QED
  BY <1>6, <1>7

\* The greedy that must insert: it keeps its entries apart and within the budget, and at
\* equal sizes drops none but the one asked for last.
LEMMA DemandServes ==
    ASSUME TypeOK, NEW l \in Layers, NEW x \in Experts, NEW t \in Nat, NEW n, n = t+1,
           BeladyDemand(l, x, n), Stamped(demand[l], t), Weight(l, Cached(demand[l])) <= case.budget
    PROVE  /\ Serves(l, FALSE, x, Cached(demand[l]), Cached(demand'[l]))
           /\ Cached(demand'[l]) \in SUBSET Experts /\ Weight(l, Cached(demand'[l])) <= case.budget
           /\ Stamped(demand'[l], n)
           /\ Uniform(l) => KeepsSooner(l, FALSE, t, SlotsOf(l, x), Cached(demand[l]), x, Cached(demand'[l]))
<1> DEFINE a == demand[l]
           R == Cached(a)
           room == RoomBeside(l, x)
           farther(f, e) == Farther(l, a, n, f, e)
           stay == Stay(l, R, room, Lex(R, Near(l, n), Small(l), a))
           c == SlotsOf(l, x)
<1>1. /\ case \in Studies /\ a \in Stamps /\ R \in SUBSET Experts /\ demand \in [Layers -> Stamps]
      /\ n \in Nat /\ n > 0
  BY DEF TypeOK, Cached
<1>2. CASE x \in R \/ TooBig(l, x)
  <2>1. demand' = demand
    BY <1>2 DEF BeladyDemand
  <2>2. Serves(l, FALSE, x, R, R)
    BY <1>2, NothingDropped
  <2>3. Stamped(a, n)
    <3>1. {} \subseteq Cached(a)
      OBVIOUS
    <3> HIDE DEF a
    <3> QED
      BY <1>1, <3>1, JoinedStamped DEF a
  <2>4. Uniform(l) => KeepsSooner(l, FALSE, t, c, R, x, R)
    <3>1. Uniform(l) /\ TooBig(l, x) => c = 0
      BY <1>1, SlotsFit
    <3>2. x \in R => R = R \cup {x}
      OBVIOUS
    <3> HIDE DEF c, R
    <3> QED
      BY <1>2, <3>1, <3>2 DEF KeepsSooner
  <2> QED
    BY <1>1, <2>1, <2>2, <2>3, <2>4
<1>3. CASE x \notin R /\ ~ TooBig(l, x)
  <2>1. demand'[l] = Joined(a, Staying(l, R, room, farther), x, n)
    <3> DEFINE those == Staying(l, R, room, farther)
    <3>1. demand' = [demand EXCEPT ![l] = Joined(a, those, x, n)]
      BY <1>3 DEF BeladyDemand, Staying
    <3> QED
      BY <1>1, <3>1
  <2>2. Staying(l, R, room, farther) = stay
    <3>1. /\ case \in Studies /\ l \in Layers /\ a \in Stamps /\ n \in Nat /\ R \in SUBSET Experts
      BY <1>1
    <3> HIDE DEF a, R
    <3> QED
      BY ONLY <3>1, FartherStay
  <2> HIDE DEF farther
  <2>3. demand'[l] = Joined(a, stay, x, n)
    BY <2>1, <2>2
  <2>4. \A e \in R : Near(l, n)[e] \in Int /\ Small(l)[e] \in Int /\ a[e] \in Int
    BY <1>1, FartherIsLex
  <2>5. stay \in SUBSET R /\ Serves(l, FALSE, x, R, stay \cup {x}) /\ Weight(l, stay \cup {x}) <= case.budget
    <3>1. /\ case \in Studies /\ l \in Layers /\ x \in Experts /\ ~ TooBig(l, x)
          /\ R \in SUBSET Experts /\ x \notin R
      BY <1>1, <1>3
    <3> HIDE DEF a, R
    <3> QED
      BY ONLY <2>4, <3>1, NewcomerServed
  <2>6. ASSUME Uniform(l) PROVE KeepsSooner(l, FALSE, t, c, R, x, stay \cup {x})
    <3>1. /\ c \in Nat /\ c > 0
          /\ \A A \in SUBSET Experts : Weight(l, A) <= case.budget <=> Cardinality(A) <= c
          /\ \A A \in SUBSET Experts : Weight(l, A) <= room <=> Cardinality(A) <= c - 1
      BY <1>1, <1>3, <2>6, SlotsFit
    <3> HIDE DEF c, room
    <3>2. Cardinality(R) <= (c - 1) + 1 /\ c - 1 \in Nat
      BY <1>1, <3>1
    <3>3. \A e, f \in R : e # f => a[e] # a[f]
      BY DEF Stamped
    <3>4. stay = Stay(l, R, room, Lex(R, Near(l, n), Small(l), a))
      OBVIOUS
    <3> HIDE DEF stay
    <3>5. \/ stay = R
          \/ \E f \in R : /\ stay = R \ {f} /\ Cardinality(R) = (c - 1) + 1
                          /\ \A e \in stay : NextUse(l, e, n) <= NextUse(l, f, n)
      <4> HIDE DEF a, R
      <4> QED
        BY <1>1, <3>1, <3>2, <3>3, <3>4, FarthestGoes
    <3>6. ASSUME NEW f \in R, stay = R \ {f}, Cardinality(R) = c,
                 \A e \in stay : NextUse(l, e, n) <= NextUse(l, f, n)
          PROVE  KeepsSooner(l, FALSE, t, c, R, x, stay \cup {x})
      <4>1. stay \cup {x} = (R \cup {x}) \ {f} /\ f \in R \cup {x}
        BY <1>3, <3>6
      <4>2. Cardinality(stay \cup {x}) = c
        <5>1. IsFiniteSet(R)
          BY <1>1, WeightFacts
        <5>2. IsFiniteSet(stay) /\ Cardinality(stay) = Cardinality(R) - 1
          BY <3>6, <5>1, FS_RemoveElement
        <5>3. Cardinality(stay \cup {x}) = Cardinality(stay) + 1
          BY <1>3, <3>6, <5>2, FS_AddElement
        <5> QED
          BY <3>1, <3>6, <5>2, <5>3
      <4>3. \A e \in stay \cup {x} : \/ NextUse(l, e, t+1) <= NextUse(l, f, t+1)
                                     \/ e = x /\ ~ FALSE /\ ~ TooBig(l, x)
        BY <1>3, <3>6
      <4> QED
        BY <4>1, <4>2, <4>3 DEF KeepsSooner
    <3>7. stay = R => KeepsSooner(l, FALSE, t, c, R, x, stay \cup {x})
      BY DEF KeepsSooner
    <3>8. (c - 1) + 1 = c
      BY <3>1
    <3> QED
      BY <3>5, <3>6, <3>7, <3>8
  <2> HIDE DEF stay
  <2>7. stay \subseteq Cached(a)
    BY <2>5
  <2>8. Cached(demand'[l]) = stay \cup {x} /\ Stamped(demand'[l], n)
    <3> HIDE DEF a, R
    <3>1. Cached(Joined(a, stay, x, n)) = stay \cup {x}
      BY <1>1, <2>7, JoinedCached
    <3>2. Stamped(Joined(a, stay, x, n), n)
      BY <1>1, <2>7, JoinedStamped DEF a
    <3> QED
      BY <2>3, <3>1, <3>2
  <2> QED
    BY <1>1, <2>5, <2>6, <2>8
<1> QED
  BY <1>2, <1>3

\* The greedy that may pass the newcomer by: the same, the newcomer being one of them.
LEMMA BypassServes ==
    ASSUME TypeOK, NEW l \in Layers, NEW x \in Experts, NEW t \in Nat, NEW n, n = t+1,
           BeladyBytes(l, x, n), Stamped(bypass[l], t), Weight(l, Cached(bypass[l])) <= case.budget
    PROVE  /\ Serves(l, TRUE, x, Cached(bypass[l]), Cached(bypass'[l]))
           /\ Cached(bypass'[l]) \in SUBSET Experts /\ Weight(l, Cached(bypass'[l])) <= case.budget
           /\ Stamped(bypass'[l], n)
           /\ Uniform(l) => KeepsSooner(l, TRUE, t, SlotsOf(l, x), Cached(bypass[l]), x, Cached(bypass'[l]))
<1> DEFINE a == bypass[l]
           R == Cached(a)
           all == Joined(a, R, x, n)
           Q == R \cup {x}
           farther(f, e) == Farther(l, all, n, f, e)
           stay == Stay(l, Q, case.budget, Lex(Q, Near(l, n), Small(l), all))
           c == SlotsOf(l, x)
<1>1. /\ case \in Studies /\ a \in Stamps /\ R \in SUBSET Experts /\ bypass \in [Layers -> Stamps]
      /\ n \in Nat /\ n > 0 /\ case.budget \in Nat /\ Q \in SUBSET Experts
  BY DEF TypeOK, Cached, Studies
<1>2. CASE x \in R \/ TooBig(l, x)
  <2>1. bypass' = bypass
    BY <1>2 DEF BeladyBytes
  <2>2. Serves(l, TRUE, x, R, R)
    BY <1>2, NothingDropped
  <2>3. Stamped(a, n)
    <3>1. {} \subseteq Cached(a)
      OBVIOUS
    <3> HIDE DEF a
    <3> QED
      BY <1>1, <3>1, JoinedStamped DEF a
  <2>4. Uniform(l) => KeepsSooner(l, TRUE, t, c, R, x, R)
    <3>1. Uniform(l) /\ TooBig(l, x) => c = 0
      BY <1>1, SlotsFit
    <3>2. x \in R => R = R \cup {x}
      OBVIOUS
    <3> HIDE DEF c, R
    <3> QED
      BY <1>2, <3>1, <3>2 DEF KeepsSooner
  <2> QED
    BY <1>1, <2>1, <2>2, <2>3, <2>4
<1>3. CASE x \notin R /\ ~ TooBig(l, x)
  <2>0. all \in Stamps /\ Cached(all) = Q /\ Stamped(all, n)
    <3>1. R \subseteq Cached(a)
      OBVIOUS
    <3>2. Stamped(a, t)
      OBVIOUS
    <3> HIDE DEF a, R
    <3>3. Joined(a, R, x, n) \in Stamps
      BY <1>1, JoinedType
    <3>4. Cached(Joined(a, R, x, n)) = R \cup {x}
      BY <1>1, <3>1, JoinedCached
    <3>5. Stamped(Joined(a, R, x, n), n)
      BY <1>1, <3>1, <3>2, JoinedStamped
    <3> QED
      BY <3>3, <3>4, <3>5
  <2>1. bypass'[l] = Only(all, Staying(l, Q, case.budget, farther))
    <3> DEFINE those == Staying(l, Q, case.budget, farther)
    <3>1. bypass' = [bypass EXCEPT ![l] = Only(all, those)]
      BY <1>3 DEF BeladyBytes, Staying
    <3> QED
      BY <1>1, <3>1
  <2> HIDE DEF all
  <2>2. Staying(l, Q, case.budget, farther) = stay
    <3>1. /\ case \in Studies /\ l \in Layers /\ all \in Stamps /\ n \in Nat /\ Q \in SUBSET Experts
      BY <1>1, <2>0
    <3> HIDE DEF Q
    <3> QED
      BY ONLY <3>1, FartherStay
  <2> HIDE DEF farther
  <2>3. bypass'[l] = Only(all, stay)
    BY <2>1, <2>2
  <2>4. \A e \in Q : Near(l, n)[e] \in Int /\ Small(l)[e] \in Int /\ all[e] \in Int
    BY <1>1, <2>0, FartherIsLex
  <2>5. stay \in SUBSET Q /\ Weight(l, stay) <= case.budget
    <3> HIDE DEF a, R, Q
    <3> QED
      BY <1>1, <2>4, StayLex
  <2>6. ASSUME Uniform(l) PROVE KeepsSooner(l, TRUE, t, c, R, x, stay)
    <3>1. c \in Nat /\ \A A \in SUBSET Experts : Weight(l, A) <= case.budget <=> Cardinality(A) <= c
      BY <1>1, <2>6, SlotsFit
    <3> HIDE DEF c
    <3>2. IsFiniteSet(R) /\ IsFiniteSet(Q)
      BY <1>1, WeightFacts
    <3>3. Cardinality(Q) <= c + 1
      <4>1. Cardinality(Q) = Cardinality(R) + 1
        BY <1>3, <3>2, FS_AddElement
      <4>2. Cardinality(R) <= c /\ Cardinality(R) \in Nat
        BY <1>1, <3>1, <3>2, FS_CardinalityType
      <4> QED
        BY <3>1, <4>1, <4>2
    <3>4. \A e, f \in Q : e # f => all[e] # all[f]
      BY <2>0 DEF Stamped
    <3>5. stay = Stay(l, Q, case.budget, Lex(Q, Near(l, n), Small(l), all))
      OBVIOUS
    <3> HIDE DEF stay
    <3>6. \/ stay = Q
          \/ \E f \in Q : /\ stay = Q \ {f} /\ Cardinality(Q) = c + 1
                          /\ \A e \in stay : NextUse(l, e, n) <= NextUse(l, f, n)
      <4> HIDE DEF a, R, Q
      <4> QED
        BY <1>1, <2>0, <3>1, <3>3, <3>4, <3>5, FarthestGoes
    <3>7. ASSUME NEW f \in Q, stay = Q \ {f}, Cardinality(Q) = c + 1,
                 \A e \in stay : NextUse(l, e, n) <= NextUse(l, f, n)
          PROVE  KeepsSooner(l, TRUE, t, c, R, x, stay)
      <4>1. Cardinality(stay) = c
        <5>1. Cardinality(stay) = Cardinality(Q) - 1
          BY <3>2, <3>7, FS_RemoveElement
        <5> QED
          BY <3>1, <3>7, <5>1
      <4>2. \A e \in stay : \/ NextUse(l, e, t+1) <= NextUse(l, f, t+1)
                            \/ e = x /\ ~ TRUE /\ ~ TooBig(l, x)
        BY <3>7
      <4> QED
        BY <3>7, <4>1, <4>2 DEF KeepsSooner
    <3>8. stay = Q => KeepsSooner(l, TRUE, t, c, R, x, stay)
      BY DEF KeepsSooner
    <3> QED
      BY <3>6, <3>7, <3>8
  <2> HIDE DEF stay
  <2>7. stay \subseteq Cached(all)
    BY <2>0, <2>5
  <2>8. Cached(bypass'[l]) = stay /\ Stamped(bypass'[l], n)
    BY <2>0, <2>3, <2>7, OnlyCached, OnlyStamped
  <2>9. Serves(l, TRUE, x, R, stay)
    BY <1>3, <2>5 DEF Serves
  <2> QED
    BY <1>1, <2>5, <2>6, <2>8, <2>9
<1> QED
  BY <1>2, <1>3

-----------------------------------------------------------------------------
(* The invariant *)

\* A greedy: its stamps tell its entries apart, they fit, a way has no fewer of them for no
\* more misses, and among equal sizes it is ahead of every way.
Greedy(l, may_bypass, t, a, g) ==
    /\ Stamped(a, t) /\ Weight(l, Cached(a)) <= case.budget
    /\ Followed(l, may_bypass, t, Cached(a), g)
    /\ Uniform(l) => AheadOfAll(l, may_bypass, t, Cached(a), g)

Upto(M, t) == M \subseteq 1 .. t

BeladyLayer(l) ==
    /\ \A p \in Policies : Upto(missed[l][p], at[l])
    /\ WaysFit(l, FALSE, at[l]) /\ WaysFit(l, TRUE, at[l])
    /\ Followed(l, FALSE, at[l], Cached(lru[l]), Misses(l, "byte_lru"))
    /\ Followed(l, FALSE, at[l], Cached(snrd[l].last), Misses(l, "snrd"))
    /\ Greedy(l, FALSE, at[l], demand[l], Misses(l, "belady_demand"))
    /\ Greedy(l, TRUE, at[l], bypass[l], Misses(l, "belady_bytes"))
BeladyInv == TypeOK /\ \A l \in Layers : BeladyLayer(l)

\* The case is what it was, and so are its ways.
LEMMA CaseStays ==
    ASSUME case' = case, NEW l
    PROVE  BeladyLayer(l)' <=>
             /\ \A p \in Policies : Upto(missed'[l][p], at'[l])
             /\ WaysFit(l, FALSE, at'[l]) /\ WaysFit(l, TRUE, at'[l])
             /\ Followed(l, FALSE, at'[l], Cached(lru'[l]), Cardinality(missed'[l]["byte_lru"]))
             /\ Followed(l, FALSE, at'[l], Cached(snrd'[l].last), Cardinality(missed'[l]["snrd"]))
             /\ Greedy(l, FALSE, at'[l], demand'[l], Cardinality(missed'[l]["belady_demand"]))
             /\ Greedy(l, TRUE, at'[l], bypass'[l], Cardinality(missed'[l]["belady_bytes"]))
<1>1. \A b, t : WaysAt(l, b, t)' = WaysAt(l, b, t)
  BY DEF WaysAt, Served, WaysOn, Ways, TooBig, FitSets, Weight
<1>2. \A b, t : WaysFit(l, b, t)' <=> WaysFit(l, b, t)
  BY <1>1 DEF WaysFit, Weight
<1>3. \A b, t, G, g : Followed(l, b, t, G, g)' <=> Followed(l, b, t, G, g)
  BY <1>1 DEF Followed
<1>4. \A t : NextAfter(l, t)' = NextAfter(l, t)
  BY DEF NextAfter, NextUse, Inf
<1>5. \A b, t, G, g : AheadOfAll(l, b, t, G, g)' <=> AheadOfAll(l, b, t, G, g)
  BY <1>1, <1>4 DEF AheadOfAll
<1>6. \A b, t, a, g : Greedy(l, b, t, a, g)' <=> Greedy(l, b, t, a, g)
  BY <1>3, <1>5 DEF Greedy, Weight, Uniform
<1> QED
  BY <1>2, <1>3, <1>6 DEF BeladyLayer, Misses

\* One more miss, or none.
Noted(x, G, M, n) == IF x \in G THEN M ELSE M \cup {n}

LEMMA MissesStep ==
    ASSUME NEW t \in Nat, NEW n, n = t+1, NEW M, Upto(M, t), NEW x, NEW G
    PROVE  /\ Upto(Noted(x, G, M, n), n) /\ Cardinality(M) \in Nat
           /\ Cardinality(Noted(x, G, M, n)) = Counted(x, G, Cardinality(M))
<1> USE DEF Upto
<1>1. IsFiniteSet(M) /\ Cardinality(M) \in Nat
  <2>1. IsFiniteSet(1 .. t)
    BY FS_Interval
  <2>2. M \in SUBSET (1 .. t)
    OBVIOUS
  <2> QED
    BY <2>1, <2>2, FS_Subset, FS_CardinalityType
<1>2. n \notin M /\ M \cup {n} \subseteq 1 .. n /\ M \subseteq 1 .. n
  OBVIOUS
<1>3. Cardinality(M \cup {n}) = Cardinality(M) + 1
  BY <1>1, <1>2, FS_AddElement
<1> QED
  BY <1>1, <1>2, <1>3 DEF Counted, Noted


LEMMA ServesFollowed ==
    ASSUME case \in Studies, NEW l \in Layers, NEW may_bypass, NEW t \in Nat, t + 1 <= Len(case.stream[l]),
           NEW x \in Experts, x = case.stream[l][t+1], WaysFit(l, may_bypass, t),
           NEW G, NEW G2 \in SUBSET Experts, NEW g \in Nat, Followed(l, may_bypass, t, G, g),
           Serves(l, may_bypass, x, G, G2)
    PROVE  Followed(l, may_bypass, t+1, G2, Counted(x, G, g))
BY FollowedStep DEF Serves

\* One request of the layer.
LEMMA BeladyStep ==
    ASSUME TypeOK, TypeOK', NEW l \in Layers, BeladyLayer(l), Request(l)
    PROVE  BeladyLayer(l)'
<1> DEFINE t == at[l]
           x == case.stream[l][t+1]
           n == t + 1
           m(p) == missed[l][p]
           m2(p) == missed'[l][p]
<1>1. /\ t \in Nat /\ n \in Nat /\ x \in Experts /\ case \in Studies /\ case' = case
      /\ t + 1 <= Len(case.stream[l]) /\ at'[l] = n
  <2>1. case.stream[l] \in Seq(Experts) /\ at \in [Layers -> Nat] /\ at[l] < Len(case.stream[l])
    BY DEF TypeOK, Studies, Request
  <2>2. Len(case.stream[l]) \in Nat
    BY <2>1, LenProperties
  <2>3. x \in Experts /\ case' = case /\ at' = [at EXCEPT ![l] = n]
    BY RequestType DEF Request
  <2> QED
    BY <2>1, <2>2, <2>3 DEF TypeOK
<1>2. /\ ByteLru(l, x, n) /\ Snrd(l, x, n) /\ BeladyDemand(l, x, n) /\ BeladyBytes(l, x, n) /\ Count(l, x, n)
  BY DEF Request
<1> HIDE DEF n
<1>3. n = t + 1 /\ t \in Nat
  BY <1>1 DEF n
<1>4. /\ \A p \in Policies : Upto(m(p), t)
      /\ WaysFit(l, FALSE, t) /\ WaysFit(l, TRUE, t)
      /\ Followed(l, FALSE, t, Cached(lru[l]), Cardinality(m("byte_lru")))
      /\ Followed(l, FALSE, t, Cached(snrd[l].last), Cardinality(m("snrd")))
      /\ Greedy(l, FALSE, t, demand[l], Cardinality(m("belady_demand")))
      /\ Greedy(l, TRUE, t, bypass[l], Cardinality(m("belady_bytes")))
  BY DEF BeladyLayer, Misses
<1>5. /\ m2("byte_lru") = Noted(x, Cached(lru[l]), m("byte_lru"), n)
      /\ m2("snrd") = Noted(x, Cached(snrd[l].last), m("snrd"), n)
      /\ m2("belady_demand") = Noted(x, Cached(demand[l]), m("belady_demand"), n)
      /\ m2("belady_bytes") = Noted(x, Cached(bypass[l]), m("belady_bytes"), n)
      /\ m2("gds_cost_size") = Noted(x, Cached(gds[l].seq), m("gds_cost_size"), n)
  <2> HIDE DEF x
  <2> QED
    BY <1>2 DEF Count, TypeOK, Policies, Noted
<1> HIDE DEF x, t
<1>6. x = case.stream[l][t+1]
  BY DEF x
<1> HIDE DEF m, m2
<1>7. /\ Upto(m2("byte_lru"), n) /\ Cardinality(m("byte_lru")) \in Nat
      /\ Cardinality(m2("byte_lru")) = Counted(x, Cached(lru[l]), Cardinality(m("byte_lru")))
  <2>1. Upto(m("byte_lru"), t)
    BY <1>4 DEF Policies
  <2>2. m2("byte_lru") = Noted(x, Cached(lru[l]), m("byte_lru"), n)
    BY <1>5
  <2> QED
    BY <1>3, <2>1, <2>2, MissesStep
<1>8. /\ Upto(m2("snrd"), n) /\ Cardinality(m("snrd")) \in Nat
      /\ Cardinality(m2("snrd")) = Counted(x, Cached(snrd[l].last), Cardinality(m("snrd")))
  <2>1. Upto(m("snrd"), t)
    BY <1>4 DEF Policies
  <2>2. m2("snrd") = Noted(x, Cached(snrd[l].last), m("snrd"), n)
    BY <1>5
  <2> QED
    BY <1>3, <2>1, <2>2, MissesStep
<1>9. /\ Upto(m2("belady_demand"), n) /\ Cardinality(m("belady_demand")) \in Nat
      /\ Cardinality(m2("belady_demand")) = Counted(x, Cached(demand[l]), Cardinality(m("belady_demand")))
  <2>1. Upto(m("belady_demand"), t)
    BY <1>4 DEF Policies
  <2>2. m2("belady_demand") = Noted(x, Cached(demand[l]), m("belady_demand"), n)
    BY <1>5
  <2> QED
    BY <1>3, <2>1, <2>2, MissesStep
<1>10. /\ Upto(m2("belady_bytes"), n) /\ Cardinality(m("belady_bytes")) \in Nat
       /\ Cardinality(m2("belady_bytes")) = Counted(x, Cached(bypass[l]), Cardinality(m("belady_bytes")))
  <2>1. Upto(m("belady_bytes"), t)
    BY <1>4 DEF Policies
  <2>2. m2("belady_bytes") = Noted(x, Cached(bypass[l]), m("belady_bytes"), n)
    BY <1>5
  <2> QED
    BY <1>3, <2>1, <2>2, MissesStep
<1>11. Upto(m2("gds_cost_size"), n)
  <2>1. Upto(m("gds_cost_size"), t)
    BY <1>4 DEF Policies
  <2>2. m2("gds_cost_size") = Noted(x, Cached(gds[l].seq), m("gds_cost_size"), n)
    BY <1>5
  <2> QED
    BY <1>3, <2>1, <2>2, MissesStep
<1>12. \A p \in Policies : Upto(m2(p), n)
  BY <1>7, <1>8, <1>9, <1>10, <1>11 DEF Policies
<1>13. WaysFit(l, FALSE, n) /\ WaysFit(l, TRUE, n)
  BY <1>1, <1>3, <1>4, <1>6, WaysFitStep
<1>14. Followed(l, FALSE, n, Cached(lru'[l]), Cardinality(m2("byte_lru")))
  <2>1. Serves(l, FALSE, x, Cached(lru[l]), Cached(lru'[l])) /\ Cached(lru'[l]) \in SUBSET Experts
    BY <1>1, <1>2, <1>3, LruServes
  <2> QED
    BY <1>1, <1>3, <1>4, <1>6, <1>7, <2>1, ServesFollowed
<1>15. Followed(l, FALSE, n, Cached(snrd'[l].last), Cardinality(m2("snrd")))
  <2>1. Serves(l, FALSE, x, Cached(snrd[l].last), Cached(snrd'[l].last)) /\ Cached(snrd'[l].last) \in SUBSET Experts
    BY <1>1, <1>2, <1>3, SnrdServes
  <2> QED
    BY <1>1, <1>3, <1>4, <1>6, <1>8, <2>1, ServesFollowed
<1>16. Greedy(l, FALSE, n, demand'[l], Cardinality(m2("belady_demand")))
  <2> DEFINE a == demand[l]
             a2 == demand'[l]
             g == Cardinality(m("belady_demand"))
  <2>1. /\ Stamped(a, t) /\ Weight(l, Cached(a)) <= case.budget /\ Followed(l, FALSE, t, Cached(a), g)
        /\ Uniform(l) => AheadOfAll(l, FALSE, t, Cached(a), g)
    BY <1>4 DEF Greedy
  <2>2. /\ Serves(l, FALSE, x, Cached(a), Cached(a2))
        /\ Cached(a2) \in SUBSET Experts /\ Weight(l, Cached(a2)) <= case.budget
        /\ Stamped(a2, n)
        /\ Uniform(l) => KeepsSooner(l, FALSE, t, SlotsOf(l, x), Cached(a), x, Cached(a2))
    BY <1>1, <1>2, <1>3, <2>1, DemandServes
  <2>3. Cached(a) \in SUBSET Experts /\ g \in Nat
    BY <1>9 DEF Cached
  <2> HIDE DEF a, a2, g
  <2>4. Followed(l, FALSE, n, Cached(a2), Counted(x, Cached(a), g))
    BY <1>1, <1>3, <1>4, <1>6, <2>1, <2>2, <2>3, ServesFollowed
  <2>5. Uniform(l) => AheadOfAll(l, FALSE, n, Cached(a2), Counted(x, Cached(a), g))
    BY <1>1, <1>3, <1>4, <1>6, <2>1, <2>2, <2>3, AheadOfAllStep
  <2>6. Greedy(l, FALSE, n, a2, Counted(x, Cached(a), g))
    BY <2>2, <2>4, <2>5 DEF Greedy
  <2> QED
    BY <1>9, <2>6 DEF a, a2, g
<1>17. Greedy(l, TRUE, n, bypass'[l], Cardinality(m2("belady_bytes")))
  <2> DEFINE a == bypass[l]
             a2 == bypass'[l]
             g == Cardinality(m("belady_bytes"))
  <2>1. /\ Stamped(a, t) /\ Weight(l, Cached(a)) <= case.budget /\ Followed(l, TRUE, t, Cached(a), g)
        /\ Uniform(l) => AheadOfAll(l, TRUE, t, Cached(a), g)
    BY <1>4 DEF Greedy
  <2>2. /\ Serves(l, TRUE, x, Cached(a), Cached(a2))
        /\ Cached(a2) \in SUBSET Experts /\ Weight(l, Cached(a2)) <= case.budget
        /\ Stamped(a2, n)
        /\ Uniform(l) => KeepsSooner(l, TRUE, t, SlotsOf(l, x), Cached(a), x, Cached(a2))
    BY <1>1, <1>2, <1>3, <2>1, BypassServes
  <2>3. Cached(a) \in SUBSET Experts /\ g \in Nat
    BY <1>10 DEF Cached
  <2> HIDE DEF a, a2, g
  <2>4. Followed(l, TRUE, n, Cached(a2), Counted(x, Cached(a), g))
    BY <1>1, <1>3, <1>4, <1>6, <2>1, <2>2, <2>3, ServesFollowed
  <2>5. Uniform(l) => AheadOfAll(l, TRUE, n, Cached(a2), Counted(x, Cached(a), g))
    BY <1>1, <1>3, <1>4, <1>6, <2>1, <2>2, <2>3, AheadOfAllStep
  <2>6. Greedy(l, TRUE, n, a2, Counted(x, Cached(a), g))
    BY <2>2, <2>4, <2>5 DEF Greedy
  <2> QED
    BY <1>10, <2>6 DEF a, a2, g
<1> QED
  BY <1>1, <1>12, <1>13, <1>14, <1>15, <1>16, <1>17, CaseStays DEF m2

LEMMA InitBelady == Init => BeladyInv
<1> SUFFICES ASSUME Init, NEW l \in Layers PROVE BeladyLayer(l)
  BY InitTypes DEF BeladyInv
<1>1. TypeOK /\ case \in Studies
  BY InitTypes DEF TypeOK
<1>2. \A b : WaysAt(l, b, 0) = {<<{}, 0>>} /\ WaysFit(l, b, 0)
  BY <1>1, WaysFacts, WaysFitStart
<1>3. Cached(Nothing) = {} /\ Cardinality({}) = 0 /\ IsFiniteSet({})
  BY FS_EmptySet DEF Cached, Nothing
<1>4. ASSUME NEW b PROVE Followed(l, b, 0, {}, 0)
  <2>1. PICK w : w = <<{}, 0>>
    OBVIOUS
  <2>2. w[1] = {} /\ w[2] = 0 /\ w \in WaysAt(l, b, 0)
    BY <1>2, <2>1
  <2> QED
    BY <2>2 DEF Followed
<1>5. \A b : AheadOfAll(l, b, 0, {}, 0)
  <2>1. \A next : Ahead(0, {}, 0, {}, next)
    <3>1. \A next, u : SoonUsed({}, next, u) \in Nat
      BY <1>3, SoonFacts
    <3> QED
      BY <3>1 DEF Ahead
  <2>2. ASSUME NEW b, NEW w \in WaysAt(l, b, 0) PROVE Ahead(0, {}, w[2], w[1], NextAfter(l, 0))
    <3>1. w[1] = {} /\ w[2] = 0
      BY <1>2
    <3> QED
      BY <2>1, <3>1
  <2> QED
    BY <2>2 DEF AheadOfAll
<1>6. Weight(l, {}) <= case.budget
  <2>1. {} \in SUBSET Experts
    OBVIOUS
  <2>2. Weight(l, {}) = 0 /\ case.budget \in Nat
    BY <1>1, <2>1, WeightFacts
  <2> QED
    BY <2>2
<1>7. \A b : Greedy(l, b, 0, Nothing, 0)
  BY <1>3, <1>4, <1>5, <1>6 DEF Greedy, Stamped
<1>8. /\ at[l] = 0 /\ lru[l] = Nothing /\ snrd[l].last = Nothing /\ demand[l] = Nothing /\ bypass[l] = Nothing
      /\ \A p \in Policies : missed[l][p] = {} /\ Misses(l, p) = 0
  BY <1>3 DEF Init, Misses
<1>9. \A p \in Policies : Upto(missed[l][p], at[l])
  BY <1>8 DEF Upto
<1>10. /\ Misses(l, "byte_lru") = 0 /\ Misses(l, "snrd") = 0
       /\ Misses(l, "belady_demand") = 0 /\ Misses(l, "belady_bytes") = 0
  BY <1>8 DEF Policies
<1> QED
  BY <1>2, <1>3, <1>4, <1>7, <1>8, <1>9, <1>10 DEF BeladyLayer

\* A layer on which nothing changes.
LEMMA BeladyIdle ==
    ASSUME NEW k, BeladyLayer(k), case' = case, at'[k] = at[k], lru'[k] = lru[k],
           snrd'[k].last = snrd[k].last, demand'[k] = demand[k], bypass'[k] = bypass[k], missed'[k] = missed[k]
    PROVE  BeladyLayer(k)'
<1>1. /\ \A p \in Policies : Upto(missed'[k][p], at'[k])
      /\ WaysFit(k, FALSE, at'[k]) /\ WaysFit(k, TRUE, at'[k])
      /\ Followed(k, FALSE, at'[k], Cached(lru'[k]), Cardinality(missed'[k]["byte_lru"]))
      /\ Followed(k, FALSE, at'[k], Cached(snrd'[k].last), Cardinality(missed'[k]["snrd"]))
      /\ Greedy(k, FALSE, at'[k], demand'[k], Cardinality(missed'[k]["belady_demand"]))
      /\ Greedy(k, TRUE, at'[k], bypass'[k], Cardinality(missed'[k]["belady_bytes"]))
  BY DEF BeladyLayer, Misses
<1> QED
  BY <1>1, CaseStays

LEMMA NextBelady == BeladyInv /\ [Next]_vars => BeladyInv'
<1> SUFFICES ASSUME BeladyInv, [Next]_vars PROVE BeladyInv'
  OBVIOUS
<1>1. TypeOK /\ TypeOK'
  BY NextTypes DEF BeladyInv
<1>2. CASE UNCHANGED vars
  <2>1. \A k \in Layers : BeladyLayer(k)'
    BY <1>2, BeladyIdle DEF BeladyInv, vars
  <2> QED
    BY <1>1, <1>2, <2>1 DEF BeladyInv, vars
<1>3. ASSUME NEW l \in Layers, Request(l), NEW k \in Layers
      PROVE  BeladyLayer(k)'
  <2>0. BeladyLayer(k) /\ BeladyLayer(l)
    BY DEF BeladyInv
  <2>1. CASE k = l
    BY <1>1, <1>3, <2>0, <2>1, BeladyStep
  <2>2. CASE k # l
    <3> DEFINE x == case.stream[l][at[l] + 1]
               t == at[l] + 1
    <3>1. /\ at' = [at EXCEPT ![l] = t] /\ case' = case
          /\ ByteLru(l, x, t) /\ Snrd(l, x, t)
          /\ BeladyDemand(l, x, t) /\ BeladyBytes(l, x, t) /\ Count(l, x, t)
      BY <1>3 DEF Request
    <3> HIDE DEF x, t
    <3>2. at'[k] = at[k]
      BY <1>1, <2>2, <3>1 DEF TypeOK
    <3>3. lru'[k] = lru[k]
      BY <1>1, <2>2, <3>1 DEF ByteLru, Staying, TypeOK
    <3>4. snrd'[k] = snrd[k]
      <4>1. \/ snrd' = [snrd EXCEPT ![l].last[x] = t]
            \/ snrd' = snrd
            \/ \E s : snrd' = [snrd EXCEPT ![l] = s]
        BY <3>1 DEF Snrd, Staying
      <4> QED
        BY <1>1, <2>2, <4>1 DEF TypeOK
    <3>5. demand'[k] = demand[k]
      BY <1>1, <2>2, <3>1 DEF BeladyDemand, Staying, TypeOK
    <3>6. bypass'[k] = bypass[k]
      BY <1>1, <2>2, <3>1 DEF BeladyBytes, Staying, TypeOK
    <3>7. missed'[k] = missed[k]
      BY <1>1, <2>2, <3>1 DEF Count, TypeOK
    <3> QED
      BY <2>0, <3>1, <3>2, <3>3, <3>4, <3>5, <3>6, <3>7, BeladyIdle
  <2> QED
    BY <2>1, <2>2
<1>4. ASSUME NEW l \in Layers, Request(l) PROVE BeladyInv'
  BY <1>1, <1>3, <1>4 DEF BeladyInv, Layers
<1> QED
  BY <1>2, <1>4 DEF Next

-----------------------------------------------------------------------------
\* The least of a set of numbers.
LEMMA MinIs ==
    ASSUME NEW S \in SUBSET Nat, S # {}
    PROVE  Min(S) \in S /\ \A m \in S : Min(S) <= m
<1>1. PICK n \in S : \A m \in S : n <= m
  BY LeastOf
<1> QED
  BY <1>1 DEF Min

\* At the end of the stream nobody is asked for again: ahead means no more misses.
LEMMA BeladyInvIsEnough == BeladyInv => BeladyBounds
<1> SUFFICES ASSUME BeladyInv, NEW l \in Layers, at[l] = Len(case.stream[l])
             PROVE  /\ Fewest(l, TRUE) <= Misses(l, "belady_bytes")
                    /\ Fewest(l, FALSE) <= Misses(l, "belady_demand")
                    /\ Fewest(l, FALSE) <= Misses(l, "byte_lru") /\ Fewest(l, FALSE) <= Misses(l, "snrd")
                    /\ Uniform(l) => /\ Misses(l, "belady_bytes") = Fewest(l, TRUE)
                                     /\ Misses(l, "belady_demand") = Fewest(l, FALSE)
  BY DEF BeladyBounds
<1> DEFINE t == at[l]
<1>1. case \in Studies /\ t \in Nat /\ t <= Len(case.stream[l]) /\ BeladyLayer(l)
  BY DEF BeladyInv, TypeOK
<1>2. ASSUME NEW p \in Policies PROVE Misses(l, p) \in Nat
  <2>1. Upto(missed[l][p], t)
    BY <1>1 DEF BeladyLayer
  <2> QED
    BY <1>1, <2>1, MissesStep DEF Misses
<1>3. ASSUME NEW b \in BOOLEAN, NEW G, NEW p \in Policies, Followed(l, b, t, G, Misses(l, p))
      PROVE  /\ Fewest(l, b) <= Misses(l, p)
             /\ \E w \in WaysAt(l, b, t) : w[2] = Fewest(l, b)
  <2> DEFINE S == {w[2] : w \in WaysAt(l, b, t)}
  <2>1. WaysFit(l, b, t)
    BY <1>1 DEF BeladyLayer
  <2>2. S \in SUBSET Nat
    BY <2>1 DEF WaysFit
  <2>3. PICK w \in WaysAt(l, b, t) : w[2] <= Misses(l, p)
    BY <1>3 DEF Followed
  <2>4. w[2] \in S
    OBVIOUS
  <2>5. Fewest(l, b) = Min(S)
    BY <1>1, WaysFacts
  <2>6. Min(S) \in S /\ Min(S) <= w[2]
    <3> HIDE DEF S
    <3> QED
      BY <2>2, <2>4, MinIs
  <2>7. Min(S) \in Nat /\ w[2] \in Nat /\ Misses(l, p) \in Nat
    BY <1>2, <2>2, <2>4, <2>6
  <2>8. Min(S) <= Misses(l, p)
    <3> HIDE DEF S
    <3> QED
      BY <2>3, <2>6, <2>7
  <2> QED
    BY <2>5, <2>6, <2>8
<1>4. ASSUME NEW b \in BOOLEAN, NEW a \in Stamps, NEW p \in Policies, Greedy(l, b, t, a, Misses(l, p))
      PROVE  /\ Fewest(l, b) <= Misses(l, p)
             /\ Uniform(l) => Misses(l, p) = Fewest(l, b)
  <2>1. Followed(l, b, t, Cached(a), Misses(l, p)) /\ (Uniform(l) => AheadOfAll(l, b, t, Cached(a), Misses(l, p)))
    BY <1>4 DEF Greedy
  <2>2. Fewest(l, b) <= Misses(l, p)
    BY <1>3, <2>1
  <2>3. PICK w \in WaysAt(l, b, t) : w[2] = Fewest(l, b)
    BY <1>3, <2>1
  <2>4. w[2] \in Nat /\ w[1] \in SUBSET Experts
    <3>1. WaysFit(l, b, t)
      BY <1>1 DEF BeladyLayer
    <3> QED
      BY <3>1 DEF WaysFit
  <2>5. ASSUME Uniform(l) PROVE Misses(l, p) <= w[2]
    <3> DEFINE next == NextAfter(l, t)
    <3>1. Ahead(Misses(l, p), Cached(a), w[2], w[1], next)
      BY <2>1, <2>5 DEF AheadOfAll
    <3>2. \A e \in Experts : ~ (next[e] <= 0)
      <4>1. \A e \in Experts : NextUse(l, e, t) \in Nat /\ NextUse(l, e, t) > t
        BY <1>1, NextUseFacts
      <4>2. \A e \in Experts : next[e] = NextUse(l, e, t)
        BY DEF NextAfter
      <4> HIDE DEF next
      <4> QED
        BY <1>1, <4>1, <4>2
    <3> HIDE DEF next
    <3>3. Misses(l, p) + SoonUsed(w[1], next, 0) <= w[2] + SoonUsed(Cached(a), next, 0)
      BY <3>1 DEF Ahead
    <3>4. Cached(a) \in SUBSET Experts
      BY DEF Cached
    <3>5. IsFiniteSet(Cached(a)) /\ IsFiniteSet(w[1])
      BY <1>1, <2>4, <3>4, WeightFacts
    <3>6. SoonUsed(Cached(a), next, 0) = 0
      <4>1. \A e \in Cached(a) : ~ (next[e] <= 0)
        BY <3>2, <3>4
      <4> QED
        BY <3>5, <4>1, SoonFacts
    <3>7. SoonUsed(w[1], next, 0) = 0
      <4>1. \A e \in w[1] : ~ (next[e] <= 0)
        BY <2>4, <3>2
      <4> QED
        BY <3>5, <4>1, SoonFacts
    <3> QED
      BY <1>2, <2>4, <3>3, <3>6, <3>7
  <2> QED
    BY <1>2, <2>2, <2>3, <2>4, <2>5
<1>5. /\ "byte_lru" \in Policies /\ "snrd" \in Policies /\ "belady_demand" \in Policies
      /\ "belady_bytes" \in Policies /\ demand[l] \in Stamps /\ bypass[l] \in Stamps
  BY DEF Policies, BeladyInv, TypeOK
<1>6. /\ Followed(l, FALSE, t, Cached(lru[l]), Misses(l, "byte_lru"))
      /\ Followed(l, FALSE, t, Cached(snrd[l].last), Misses(l, "snrd"))
      /\ Greedy(l, FALSE, t, demand[l], Misses(l, "belady_demand"))
      /\ Greedy(l, TRUE, t, bypass[l], Misses(l, "belady_bytes"))
  BY <1>1 DEF BeladyLayer
<1> HIDE DEF t
<1>7. Fewest(l, FALSE) <= Misses(l, "byte_lru") /\ Fewest(l, FALSE) <= Misses(l, "snrd")
  BY <1>3, <1>5, <1>6
<1>8. /\ Fewest(l, FALSE) <= Misses(l, "belady_demand")
      /\ Uniform(l) => Misses(l, "belady_demand") = Fewest(l, FALSE)
  BY <1>4, <1>5, <1>6
<1>9. /\ Fewest(l, TRUE) <= Misses(l, "belady_bytes")
      /\ Uniform(l) => Misses(l, "belady_bytes") = Fewest(l, TRUE)
  BY <1>4, <1>5, <1>6
<1> QED
  BY <1>7, <1>8, <1>9

\* For any streams, sizes and budget: neither greedy, nor byte-LRU, nor SNRD misses less
\* than the best way there is to serve a stream, and with equal sizes both greedies miss
\* exactly as much, the one that must insert and the one that may pass an expert by.
THEOREM SpecBeladyBounds == Spec => []BeladyBounds
<1>1. BeladyInv => BeladyBounds
  BY BeladyInvIsEnough
<1>2. Spec => []BeladyInv
  BY InitBelady, NextBelady, PTL DEF Spec
<1> QED
  BY <1>1, <1>2, PTL
=============================================================================
