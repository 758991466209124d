---------------------------- MODULE KvStoreProofs ----------------------------
(***************************************************************************)
(* Theorems about KvStore: types for any settings, and for one build and   *)
(* one CTX, on a disk that does not fail, the rows and records of a        *)
(* conversation through any crashes and restarts.                          *)
(***************************************************************************)
EXTENDS KvStore, SequenceTheorems, WellFoundedInduction, TLAPS

-----------------------------------------------------------------------------
(* The inductive invariants *)

Row     == RowType \ {<<>>}
Records == [layout : Layouts, row : Row]
Files   == [hdr : Layouts \cup {NoFile, NoHeader}, nrec : Nat, recs : Seq(Records)]

Types ==
    /\ pc \in {"down", "idle", "turn", "save", "header", "write", "count"}
    /\ ctx \in Contexts /\ layout \in Layouts
    /\ hist \in RowType /\ tail \in RowType /\ todo \in RowType
    /\ rows \in Seq(Row)
    /\ diskNrec \in Nat /\ fails \in Nat
    /\ file \in Files

\* One row for each position; what is to be forwarded fits.
Fits ==
    /\ Len(rows) = Len(hist)
    /\ Len(hist) + Len(tail) <= ctx - GenReserve
    /\ pc = "turn" => /\ Len(hist) + Len(todo) <= ctx - PromptReserve
                      /\ todo = <<>> => hist # <<>>

TInv == Types /\ Fits

\* The rows of a history: the tokens up to each position.
Spelled(h) == [p \in 1 .. Len(h) |-> SubSeq(h, 1, p)]

Text == Seq(Tokens)

Matching == hist \in Text /\ tail \in Text /\ todo \in Text /\ rows = Spelled(hist)

\* What the slot knows of its file.
Known ==
    /\ diskNrec <= Len(hist) /\ diskNrec <= Len(file.recs)
    /\ \A p \in 1 .. diskNrec : file.recs[p] = Record(layout, rows[p])
    /\ pc \in {"idle", "turn"} => diskNrec = Len(hist)
    /\ pc = "header" => file.hdr = NoHeader /\ file.nrec = 0 /\ diskNrec = 0
    /\ pc \in {"write", "count"} => file.hdr # NoFile
    /\ pc = "count" => Pending = {}
    /\ file.hdr = NoFile => file.nrec = 0 /\ diskNrec = 0
    /\ file.hdr = layout => file.nrec = diskNrec \/ file.nrec >= ctx - PromptReserve

\* The records that the file counts are those of one history.
Resumable(n) ==
    /\ n <= Len(file.recs)
    /\ \E g \in Text : Len(g) = n /\ \A p \in 1 .. n : file.recs[p] = Record(layout, SubSeq(g, 1, p))

\* A file that the next start accepts, if it has the same settings.
Stored ==
    /\ file.hdr = NoFile => file.nrec = 0
    /\ file.hdr = layout => file.nrec >= ctx - PromptReserve \/ Resumable(file.nrec)

KInv == fails = 0 => Matching /\ IF pc = "down" THEN Stored ELSE Known

\* One build and one CTX.
OneSetting == /\ \A c, d \in Contexts : c = d
              /\ \A k, l \in Layouts : k = l
-----------------------------------------------------------------------------
(* Extremes *)

\* A set of naturals that is not empty has a least element.
LEMMA LeastOf ==
    ASSUME NEW T \in SUBSET Nat, T # {}
    PROVE  \E x \in T : \A y \in T : x <= y
<1> DEFINE R == {pair \in Nat \X Nat : pair[1] < pair[2]}
<1>1. OpToRel(<, Nat) = R
    BY DEF OpToRel
<1>2. IsWellFoundedOn(R, Nat)
    BY <1>1, NatLessThanWellFounded
<1>3. \A x, y \in Nat : y < x => <<y, x>> \in R
    OBVIOUS
<1> HIDE DEF R
<1>4. PICK x \in T : \A y \in T : <<y, x>> \notin R
    <2>1. \E x \in T : \A y \in T : ~ (<<y, x>> \in R)
        BY <1>2, WFMin
    <2> QED
        BY <2>1
<1>5. ASSUME NEW y \in T PROVE x <= y
    <2>1. x \in Nat /\ y \in Nat
        OBVIOUS
    <2>2. ~ (y < x)
        BY <2>1, <1>3, <1>4
    <2> QED
        BY <2>1, <2>2
<1> QED
    BY <1>5

\* One that is bounded has a greatest.
LEMMA GreatestOf ==
    ASSUME NEW T \in SUBSET Nat, T # {}, NEW n \in Nat, \A x \in T : x <= n
    PROVE  \E x \in T : \A y \in T : y <= x
<1> DEFINE D == {n - x : x \in T}
<1>1. D \in SUBSET Nat /\ D # {}
    <2>1. \A x \in T : x \in Nat /\ n - x \in Nat
        OBVIOUS
    <2>2. PICK x \in T : TRUE
        OBVIOUS
    <2>3. n - x \in D
        OBVIOUS
    <2> QED
        BY <2>1, <2>3
<1>2. PICK d \in D : \A e \in D : d <= e
    <2> HIDE DEF D
    <2> QED
        BY <1>1, LeastOf
<1>3. PICK x \in T : d = n - x
    OBVIOUS
<1>4. ASSUME NEW y \in T PROVE y <= x
    <2>1. n - y \in D
        OBVIOUS
    <2>2. n - x <= n - y
        BY <1>2, <1>3, <2>1
    <2> QED
        BY <2>2
<1> QED
    BY <1>4

-----------------------------------------------------------------------------
(* Sequences *)

\* Prefixes, place by place.
LEMMA PrefixFacts ==
    ASSUME NEW S, NEW s \in Seq(S), NEW n \in 0 .. Len(s)
    PROVE  /\ SubSeq(s, 1, n) \in Seq(S)
           /\ Len(SubSeq(s, 1, n)) = n
           /\ \A q \in 1 .. n : SubSeq(s, 1, n)[q] = s[q]
<1>1. Len(s) \in Nat /\ n \in Int /\ 1 \in Int
    BY LenProperties
<1>2. \A q \in 1 .. n : s[q] \in S
    BY <1>1, ElementOfSeq
<1>3. /\ SubSeq(s, 1, n) \in Seq(S)
      /\ Len(SubSeq(s, 1, n)) = IF 1 <= n THEN n - 1 + 1 ELSE 0
      /\ \A q \in 1 .. n - 1 + 1 : SubSeq(s, 1, n)[q] = s[1 + q - 1]
    BY <1>1, <1>2, SubSeqProperties
<1> QED
    BY <1>1, <1>3

\* The rest of a sequence.
LEMMA RestFacts ==
    ASSUME NEW S, NEW s \in Seq(S), NEW n \in 0 .. Len(s)
    PROVE  /\ SubSeq(s, n + 1, Len(s)) \in Seq(S)
           /\ Len(SubSeq(s, n + 1, Len(s))) = Len(s) - n
           /\ SubSeq(s, 1, n) \o SubSeq(s, n + 1, Len(s)) = s
<1>1. Len(s) \in Nat /\ Len(s) \in Int /\ n + 1 \in Int /\ n \in Nat
    BY LenProperties
<1>2. \A q \in n + 1 .. Len(s) : s[q] \in S
    BY <1>1, ElementOfSeq
<1>3. /\ SubSeq(s, n + 1, Len(s)) \in Seq(S)
      /\ Len(SubSeq(s, n + 1, Len(s))) = IF n + 1 <= Len(s) THEN Len(s) - (n + 1) + 1 ELSE 0
    BY <1>1, <1>2, SubSeqProperties
<1>4. 1 \in 1 .. Len(s) + 1 /\ n \in 1 - 1 .. Len(s) /\ Len(s) \in n .. Len(s)
    BY <1>1
<1>5. SubSeq(s, 1, n) \o SubSeq(s, n + 1, Len(s)) = SubSeq(s, 1, Len(s))
    BY <1>4, ConcatAdjacentSubSeq
<1>6. SubSeq(s, 1, Len(s)) = s
    BY SubSeqFull
<1>7. Len(SubSeq(s, n + 1, Len(s))) = Len(s) - n
    BY <1>1, <1>3
<1> QED
    BY <1>3, <1>5, <1>6, <1>7

\* One token more.
LEMMA PrefixGrows ==
    ASSUME NEW S, NEW b \in Seq(S), NEW s \in Seq(S), NEW n \in 1 .. Len(s)
    PROVE  Append(b \o SubSeq(s, 1, n - 1), s[n]) = b \o SubSeq(s, 1, n)
<1>1. Len(s) \in Nat /\ n - 1 \in 0 .. Len(s) /\ 1 \in 1 .. Len(s) /\ n \in 1 .. Len(s)
    BY LenProperties
<1>2. s[n] \in S /\ SubSeq(s, 1, n - 1) \in Seq(S) /\ <<s[n]>> \in Seq(S)
    BY <1>1, ElementOfSeq, PrefixFacts
<1>3. SubSeq(s, 1, n) = SubSeq(s, 1, n - 1) \o <<s[n]>>
    BY <1>1, SubSeqRecursiveSecond
<1>4. b \o SubSeq(s, 1, n - 1) \in Seq(S)
    BY <1>2, ConcatProperties
<1>5. Append(b \o SubSeq(s, 1, n - 1), s[n]) = (b \o SubSeq(s, 1, n - 1)) \o <<s[n]>>
    BY <1>2, <1>4, AppendIsConcat
<1>6. (b \o SubSeq(s, 1, n - 1)) \o <<s[n]>> = b \o (SubSeq(s, 1, n - 1) \o <<s[n]>>)
    <2> DEFINE u == SubSeq(s, 1, n - 1)
               v == <<s[n]>>
    <2>1. u \in Seq(S) /\ v \in Seq(S)
        BY <1>2
    <2> HIDE DEF u, v
    <2>2. (b \o u) \o v = b \o (u \o v)
        BY <2>1, ConcatAssociative, SMTT(20)
    <2> QED
        BY <2>2 DEF u, v
<1> QED
    BY <1>3, <1>5, <1>6

\* The longest common prefix of a prompt and the history is one of both.
LEMMA CommonFacts ==
    ASSUME NEW S, NEW a \in Seq(S), NEW b \in Seq(S)
    PROVE  LET n == Len(LongestCommonPrefix({a, b})) IN
           /\ n \in 0 .. Len(a) /\ n \in 0 .. Len(b)
           /\ SubSeq(a, 1, n) = SubSeq(b, 1, n)
<1> DEFINE C == CommonPrefixes({a, b})
           L == {Len(x) : x \in C}
<1>0. Len(a) \in Nat /\ Len(b) \in Nat
    BY LenProperties
<1>1. \A x \in C : /\ Len(x) \in Nat /\ Len(x) <= Len(a) /\ Len(x) <= Len(b)
                   /\ SubSeq(x, 1, Len(x)) = SubSeq(a, 1, Len(x))
                   /\ SubSeq(x, 1, Len(x)) = SubSeq(b, 1, Len(x))
    <2> SUFFICES ASSUME NEW x \in C
                 PROVE  /\ Len(x) \in Nat /\ Len(x) <= Len(a) /\ Len(x) <= Len(b)
                        /\ SubSeq(x, 1, Len(x)) = SubSeq(a, 1, Len(x))
                        /\ SubSeq(x, 1, Len(x)) = SubSeq(b, 1, Len(x))
        OBVIOUS
    <2>1. IsPrefix(x, a) /\ IsPrefix(x, b) /\ x \in Prefixes(a) \cup Prefixes(b)
        BY DEF CommonPrefixes
    <2>2. ASSUME NEW s \in Seq(S), x \in Prefixes(s) PROVE Len(x) \in Nat
        <3>1. PICK l \in 0 .. Len(s) : x = SubSeq(s, 1, l)
            BY <2>2 DEF Prefixes
        <3>2. x \in Seq(S)
            BY <3>1, PrefixFacts
        <3> QED
            BY <3>2, LenProperties
    <2>3. Len(x) \in Nat
        BY <2>1, <2>2
    <2> QED
        BY <2>1, <2>3 DEF IsPrefix
<1>2. <<>> \in C
    <2>1. \A s \in Seq(S) : SubSeq(s, 1, 0) = <<>>
        BY SubSeqEmpty
    <2>2. <<>> \in Prefixes(a)
        BY <1>0, <2>1 DEF Prefixes
    <2>3. \A s \in Seq(S) : IsPrefix(<<>>, s)
        BY <2>1 DEF IsPrefix
    <2> QED
        BY <2>2, <2>3 DEF CommonPrefixes
<1> HIDE DEF C
<1>3. PICK n \in L : \A m \in L : m <= n
    <2>1. \A m \in L : m \in Nat /\ m <= Len(a)
        BY <1>1
    <2>2. Len(<<>>) \in L
        BY <1>2
    <2> HIDE DEF L
    <2>3. L \in SUBSET Nat /\ L # {}
        BY <2>1, <2>2
    <2> QED
        BY <1>0, <2>1, <2>3, GreatestOf
<1>4. \E x \in C : \A y \in C : Len(y) <= Len(x)
    BY <1>3
<1> DEFINE lcp == LongestCommonPrefix({a, b})
<1>5. lcp \in C
    BY <1>4 DEF LongestCommonPrefix, C
<1> HIDE DEF lcp
<1>6. /\ Len(lcp) \in 0 .. Len(a) /\ Len(lcp) \in 0 .. Len(b)
      /\ SubSeq(a, 1, Len(lcp)) = SubSeq(b, 1, Len(lcp))
    BY <1>0, <1>1, <1>5
<1> QED
    BY <1>6 DEF lcp

-----------------------------------------------------------------------------
(* Rows *)

\* What the rows of new tokens start with: the last of the rows before.
Base(from) == IF from = <<>> THEN <<>> ELSE Last(from)

\* The function by which step() computes them.
Grows(f, from, tokens) ==
    f = [k \in 0 .. Len(tokens) |->
            IF k = 0 THEN (IF from = <<>> THEN <<>> ELSE Last(from))
                     ELSE Append(f[k - 1], tokens[k])]

\* There is one.
LEMMA GrowsExists ==
    ASSUME NEW S, NEW from, Base(from) \in Seq(S), NEW tokens \in Seq(S)
    PROVE  \E f : Grows(f, from, tokens)
<1> DEFINE N == Len(tokens)
           b == Base(from)
           g == [k \in 0 .. N |-> b \o SubSeq(tokens, 1, k)]
           h == [k \in 0 .. N |-> IF k = 0 THEN b ELSE Append(g[k - 1], tokens[k])]
<1>1. N \in Nat
    BY LenProperties
<1> HIDE DEF b
<1>2. ASSUME NEW k \in 0 .. N PROVE g[k] = h[k]
    <2>1. CASE k = 0
        <3>1. SubSeq(tokens, 1, 0) = <<>>
            BY SubSeqEmpty
        <3>2. b \o <<>> = b
            BY ConcatEmptySeq DEF b
        <3> QED
            BY <2>1, <3>1, <3>2
    <2>2. CASE k # 0
        <3>1. k \in 1 .. N /\ k - 1 \in 0 .. N
            BY <1>1, <2>2
        <3>2. Append(b \o SubSeq(tokens, 1, k - 1), tokens[k]) = b \o SubSeq(tokens, 1, k)
            BY <3>1, PrefixGrows DEF b
        <3> QED
            BY <2>2, <3>1, <3>2
    <2> QED
        BY <2>1, <2>2
<1>3. g = h
    BY <1>2
<1>4. Grows(g, from, tokens)
    <2>1. g = [k \in 0 .. N |-> IF k = 0 THEN b ELSE Append(g[k - 1], tokens[k])]
        BY <1>3
    <2> HIDE DEF g
    <2> QED
        BY <2>1 DEF Grows, b, Base
<1> QED
    BY <1>4

\* It is the only one: no least place differs.
LEMMA GrowsIs ==
    ASSUME NEW S, NEW from, Base(from) \in Seq(S), NEW tokens \in Seq(S),
           NEW f, Grows(f, from, tokens)
    PROVE  \A k \in 0 .. Len(tokens) : f[k] = Base(from) \o SubSeq(tokens, 1, k)
<1> DEFINE N == Len(tokens)
           b == Base(from)
           Bad == {k \in 0 .. N : f[k] # b \o SubSeq(tokens, 1, k)}
<1>1. N \in Nat
    BY LenProperties
<1>2. \A k \in 0 .. N : f[k] = IF k = 0 THEN b ELSE Append(f[k - 1], tokens[k])
    BY DEF Grows, Base
<1> HIDE DEF b
<1>3. ASSUME Bad # {} PROVE FALSE
    <2>1. \E k \in Bad : \A j \in Bad : k <= j
        <3>1. Bad \in SUBSET Nat
            BY <1>1
        <3> HIDE DEF Bad
        <3> QED
            BY <1>3, <3>1, LeastOf
    <2>2. PICK k \in Bad : \A j \in Bad : k <= j
        BY <2>1
    <2>3. k \in 0 .. N /\ f[k] # b \o SubSeq(tokens, 1, k)
        OBVIOUS
    <2>4. CASE k = 0
        <3>1. SubSeq(tokens, 1, 0) = <<>>
            BY SubSeqEmpty
        <3>2. b \o <<>> = b
            BY ConcatEmptySeq DEF b
        <3> QED
            BY <1>2, <2>3, <2>4, <3>1, <3>2
    <2>5. CASE k # 0
        <3>1. k \in 1 .. N /\ k - 1 \in 0 .. N /\ ~(k <= k - 1)
            BY <1>1, <2>3, <2>5
        <3>2. f[k - 1] = b \o SubSeq(tokens, 1, k - 1)
            <4>1. k - 1 \notin Bad
                BY <2>2, <3>1
            <4> QED
                BY <3>1, <4>1
        <3>3. Append(b \o SubSeq(tokens, 1, k - 1), tokens[k]) = b \o SubSeq(tokens, 1, k)
            BY <3>1, PrefixGrows DEF b
        <3> QED
            BY <1>2, <2>3, <2>5, <3>2, <3>3
    <2> QED
        BY <2>4, <2>5
<1> QED
    BY <1>3 DEF b

\* Each new row is the last row before and the tokens since.
LEMMA ForwardIs ==
    ASSUME NEW S, NEW from, Base(from) \in Seq(S), NEW tokens \in Seq(S)
    PROVE  Forward(from, tokens) =
              from \o [k \in 1 .. Len(tokens) |-> Base(from) \o SubSeq(tokens, 1, k)]
<1> DEFINE f == CHOOSE g : Grows(g, from, tokens)
<1>1. Grows(f, from, tokens)
    BY GrowsExists
<1>2. Forward(from, tokens) = from \o [k \in 1 .. Len(tokens) |-> f[k]]
    BY DEF Forward, Grows
<1> HIDE DEF f
<1>3. \A k \in 0 .. Len(tokens) : f[k] = Base(from) \o SubSeq(tokens, 1, k)
    BY <1>1, GrowsIs
<1>4. Len(tokens) \in Nat
    BY LenProperties
<1>5. [k \in 1 .. Len(tokens) |-> f[k]] = [k \in 1 .. Len(tokens) |-> Base(from) \o SubSeq(tokens, 1, k)]
    BY <1>3, <1>4, SMTT(20)
<1> QED
    BY <1>2, <1>5

\* Rows are never empty.
LEMMA ForwardTypes ==
    ASSUME NEW from \in Seq(Row), NEW tokens \in RowType
    PROVE  /\ Forward(from, tokens) \in Seq(Row)
           /\ Len(Forward(from, tokens)) = Len(from) + Len(tokens)
<1> DEFINE new == [k \in 1 .. Len(tokens) |-> Base(from) \o SubSeq(tokens, 1, k)]
<1>1. Len(tokens) \in Nat /\ Len(from) \in Nat /\ tokens \in Seq(Tokens \cup {Junk})
    BY LenProperties DEF RowType
<1>2. Base(from) \in Seq(Tokens \cup {Junk})
    <2>1. from # <<>> => Len(from) \in 1 .. Len(from)
        BY <1>1, EmptySeq
    <2> QED
        BY <2>1, ElementOfSeq DEF Base, Last, Row, RowType
<1>3. Forward(from, tokens) = from \o new
    <2> DEFINE T == Tokens \cup {Junk}
    <2>1. Base(from) \in Seq(T) /\ tokens \in Seq(T)
        BY <1>1, <1>2
    <2> HIDE DEF T
    <2>2. Forward(from, tokens) =
             from \o [k \in 1 .. Len(tokens) |-> Base(from) \o SubSeq(tokens, 1, k)]
        BY <2>1, ForwardIs, ZenonT(20)
    <2> QED
        BY <2>2
<1>4. ASSUME NEW k \in 1 .. Len(tokens)
      PROVE  Base(from) \o SubSeq(tokens, 1, k) \in Row
    <2> DEFINE b == Base(from)
               t == SubSeq(tokens, 1, k)
    <2>1. t \in Seq(Tokens \cup {Junk}) /\ Len(t) = k
        BY <1>1, k \in 0 .. Len(tokens), PrefixFacts
    <2>2. Len(b) \in Nat /\ b \in Seq(Tokens \cup {Junk})
        BY <1>2, LenProperties
    <2> HIDE DEF b, t
    <2>3. b \o t \in Seq(Tokens \cup {Junk}) /\ Len(b \o t) = Len(b) + k
        BY <2>1, <2>2, ConcatProperties
    <2>4. b \o t # <<>>
        BY <2>2, <2>3
    <2> QED
        BY <2>3, <2>4 DEF b, t, Row, RowType
<1>5. new \in Seq(Row) /\ Len(new) = Len(tokens)
    BY <1>1, <1>4, IsASeq, LenProperties
<1> HIDE DEF new
<1> QED
    BY <1>3, <1>5, ConcatProperties

\* The rows of a history, place by place.
LEMMA SpelledFacts ==
    ASSUME NEW h \in Text
    PROVE  /\ Len(h) \in Nat
           /\ Len(Spelled(h)) = Len(h)
           /\ \A p \in 1 .. Len(h) : Spelled(h)[p] = SubSeq(h, 1, p)
           /\ Spelled(h) \in Seq(Text)
<1>1. Len(h) \in Nat /\ h \in Seq(Tokens)
    BY LenProperties DEF Text
<1>2. ASSUME NEW p \in 1 .. Len(h) PROVE SubSeq(h, 1, p) \in Text
    <2>1. p \in 0 .. Len(h)
        BY <1>1
    <2> QED
        BY <1>1, <2>1, PrefixFacts DEF Text
<1>3. Spelled(h) \in Seq(Text)
    BY <1>1, <1>2 DEF Spelled
<1> QED
    BY <1>1, <1>3 DEF Spelled

\* The rows of a history that goes on begin with those it had.
LEMMA SpelledOn ==
    ASSUME NEW h \in Text, NEW t \in Text
    PROVE  /\ h \o t \in Text /\ Len(h \o t) = Len(h) + Len(t)
           /\ \A p \in 1 .. Len(h) : Spelled(h \o t)[p] = Spelled(h)[p]
<1>1. h \o t \in Text /\ Len(h \o t) = Len(h) + Len(t)
    BY ConcatProperties DEF Text
<1>2. Len(h) \in Nat /\ Len(t) \in Nat
    BY LenProperties DEF Text
<1>3. ASSUME NEW p \in 1 .. Len(h) PROVE Spelled(h \o t)[p] = Spelled(h)[p]
    <2>1. p \in 1 .. Len(h \o t) /\ 1 \in 1 .. Len(h)
        BY <1>1, <1>2
    <2>2. SubSeq(h \o t, 1, p) = SubSeq(h, 1, p)
        BY <2>1, SubSeqOfConcat1 DEF Text
    <2>3. Spelled(h)[p] = SubSeq(h, 1, p)
        BY SpelledFacts
    <2>4. Spelled(h \o t)[p] = SubSeq(h \o t, 1, p)
        BY <1>1, <2>1, SpelledFacts
    <2> QED
        BY <2>2, <2>3, <2>4
<1> QED
    BY <1>1, <1>3

\* Forwarding tokens after the rows of a history gives the rows of the longer history.
LEMMA SpelledForward ==
    ASSUME NEW h \in Text, NEW t \in Text
    PROVE  Forward(Spelled(h), t) = Spelled(h \o t)
<1> DEFINE F == Forward(Spelled(h), t)
           new == [k \in 1 .. Len(t) |-> h \o SubSeq(t, 1, k)]
<1>1. Len(h) \in Nat /\ Len(t) \in Nat /\ h \in Seq(Tokens) /\ t \in Seq(Tokens)
    BY LenProperties DEF Text
<1>2. /\ Len(Spelled(h)) = Len(h) /\ Spelled(h) \in Seq(Text)
      /\ \A p \in 1 .. Len(h) : Spelled(h)[p] = SubSeq(h, 1, p)
    BY SpelledFacts
<1>3. Base(Spelled(h)) = h
    <2>1. CASE h = <<>>
        <3>1. Len(Spelled(h)) = 0
            BY <1>2, <2>1
        <3>2. Spelled(h) = <<>>
            BY <1>2, <3>1, EmptySeq
        <3> QED
            BY <2>1, <3>2 DEF Base
    <2>2. CASE h # <<>>
        <3>1. Len(h) \in 1 .. Len(h)
            BY <1>1, <2>2, EmptySeq
        <3>2. Spelled(h) # <<>>
            BY <1>2, <3>1
        <3>3. Spelled(h)[Len(h)] = h
            BY <1>1, <1>2, <3>1, SubSeqFull
        <3> QED
            BY <1>2, <3>2, <3>3 DEF Base, Last
    <2> QED
        BY <2>1, <2>2
<1>4. F = Spelled(h) \o new
    <2> DEFINE s == Spelled(h)
               T == Tokens
    <2>1. Base(s) \in Seq(T) /\ t \in Seq(T)
        BY <1>1, <1>3
    <2>2. Base(s) = h
        BY <1>3
    <2> HIDE DEF s, T
    <2>3. Forward(s, t) = s \o [k \in 1 .. Len(t) |-> Base(s) \o SubSeq(t, 1, k)]
        BY <2>1, ForwardIs
    <2> QED
        BY <2>2, <2>3, Zenon DEF s
<1>5. new \in Seq(Text) /\ Len(new) = Len(t) /\ \A k \in 1 .. Len(t) : new[k] = h \o SubSeq(t, 1, k)
    <2>1. ASSUME NEW k \in 1 .. Len(t) PROVE h \o SubSeq(t, 1, k) \in Text
        <3>1. k \in 0 .. Len(t)
            BY <1>1
        <3>2. SubSeq(t, 1, k) \in Seq(Tokens)
            BY <1>1, <3>1, PrefixFacts
        <3> QED
            BY <1>1, <3>2, ConcatProperties DEF Text
    <2> QED
        BY <1>1, <2>1
<1> HIDE DEF new, F
<1>6. /\ F \in Seq(Text) /\ Len(F) = Len(h) + Len(t)
      /\ \A i \in 1 .. Len(h) + Len(t) : F[i] = IF i <= Len(h) THEN Spelled(h)[i] ELSE new[i - Len(h)]
    <2> DEFINE r == Spelled(h)
    <2>1. r \in Seq(Text) /\ Len(r) = Len(h) /\ F = r \o new
        BY <1>2, <1>4
    <2>0. new \in Seq(Text) /\ r \in Seq(Text)
        BY <1>5, <2>1
    <2> HIDE DEF r
    <2>2. /\ r \o new \in Seq(Text) /\ Len(r \o new) = Len(r) + Len(new)
          /\ \A i \in 1 .. Len(r) + Len(new) : (r \o new)[i] =
                 IF i <= Len(r) THEN r[i] ELSE new[i - Len(r)]
        BY <2>0, ConcatProperties
    <2> QED
        BY <1>5, <2>1, <2>2 DEF r
<1>7. h \o t \in Text /\ Len(h \o t) = Len(h) + Len(t)
    BY SpelledOn
<1>8. /\ Len(Spelled(h \o t)) = Len(h) + Len(t) /\ Spelled(h \o t) \in Seq(Text)
      /\ \A p \in 1 .. Len(h) + Len(t) : Spelled(h \o t)[p] = SubSeq(h \o t, 1, p)
    BY <1>7, SpelledFacts
<1>9. ASSUME NEW i \in 1 .. Len(h) + Len(t) PROVE F[i] = Spelled(h \o t)[i]
    <2>1. CASE i <= Len(h)
        <3>1. i \in 1 .. Len(h)
            BY <1>1, <2>1
        <3> QED
            BY <1>6, <2>1, <3>1, SpelledOn
    <2>2. CASE ~(i <= Len(h))
        <3>1. i - Len(h) \in 1 .. Len(t) /\ i - Len(h) \in 0 .. Len(t) /\ i \in Nat
            BY <1>1, <2>2
        <3> DEFINE u == SubSeq(t, 1, i - Len(h))
        <3>2. u \in Seq(Tokens) /\ Len(u) = i - Len(h) /\ \A q \in 1 .. i - Len(h) : u[q] = t[q]
            BY <1>1, <3>1, PrefixFacts
        <3>3. F[i] = h \o u
            BY <1>5, <1>6, <2>2, <3>1
        <3> HIDE DEF u
        <3>4. /\ h \o u \in Seq(Tokens) /\ Len(h \o u) = Len(h) + Len(u)
              /\ \A q \in 1 .. Len(h) + Len(u) : (h \o u)[q] = IF q <= Len(h) THEN h[q] ELSE u[q - Len(h)]
            BY <1>1, <3>2, ConcatProperties
        <3>5. i \in 0 .. Len(h \o t) /\ h \o t \in Seq(Tokens)
            BY <1>1, <1>7, <3>1 DEF Text
        <3>6. /\ SubSeq(h \o t, 1, i) \in Seq(Tokens) /\ Len(SubSeq(h \o t, 1, i)) = i
              /\ \A q \in 1 .. i : SubSeq(h \o t, 1, i)[q] = (h \o t)[q]
            BY <3>5, PrefixFacts
        <3>7. \A q \in 1 .. Len(h) + Len(t) : (h \o t)[q] = IF q <= Len(h) THEN h[q] ELSE t[q - Len(h)]
            BY <1>1, ConcatProperties
        <3>8. Len(h \o u) = i
            BY <1>1, <3>1, <3>2, <3>4
        <3>9. ASSUME NEW q \in 1 .. i PROVE (h \o u)[q] = SubSeq(h \o t, 1, i)[q]
            <4>1. q \in 1 .. Len(h) + Len(u) /\ q \in 1 .. Len(h) + Len(t)
                BY <1>1, <3>1, <3>2
            <4>2. ~(q <= Len(h)) => q - Len(h) \in 1 .. i - Len(h)
                BY <1>1, <3>1
            <4> QED
                BY <3>2, <3>4, <3>6, <3>7, <4>1, <4>2
        <3>10. h \o u = SubSeq(h \o t, 1, i)
            BY <3>4, <3>6, <3>8, <3>9, SeqEqual
        <3> QED
            BY <1>8, <3>3, <3>10
    <2> QED
        BY <2>1, <2>2
<1>10. F = Spelled(h \o t)
    BY <1>6, <1>8, <1>9, SeqEqual
<1> QED
    BY <1>10 DEF F

-----------------------------------------------------------------------------
(* Types *)

Cells == Tokens \cup {Junk}

\* What spec_decode() adds: tokens with their rows, and perhaps one without.
Answered(h, r, room, t, u) ==
    /\ t \in Text /\ u \in Text
    /\ hist' = h \o t /\ rows' = Forward(r, t) /\ tail' = u
    /\ Len(t) + Len(u) <= room

LEMMA GenerateFacts ==
    ASSUME NEW h, NEW r, NEW room \in Nat, Generate(h, r, room)
    PROVE  \E t, u : Answered(h, r, room, t, u)
<1>1. PICK n \in 0 .. room : \E out \in [1 .. n -> Tokens], cut \in BOOLEAN :
          /\ cut => n = room /\ n > 0
          /\ LET kept == IF cut THEN n - 1 ELSE n IN
             /\ hist' = h \o SubSeq(out, 1, kept)
             /\ rows' = Forward(r, SubSeq(out, 1, kept))
             /\ tail' = IF cut THEN <<out[n]>> ELSE <<>>
    BY DEF Generate
<1>2. PICK out \in [1 .. n -> Tokens], cut \in BOOLEAN :
          /\ cut => n = room /\ n > 0
          /\ LET kept == IF cut THEN n - 1 ELSE n IN
             /\ hist' = h \o SubSeq(out, 1, kept)
             /\ rows' = Forward(r, SubSeq(out, 1, kept))
             /\ tail' = IF cut THEN <<out[n]>> ELSE <<>>
    BY <1>1
<1> DEFINE kept == IF cut THEN n - 1 ELSE n
           t == SubSeq(out, 1, kept)
           u == IF cut THEN <<out[n]>> ELSE <<>>
<1>3. n \in Nat /\ kept \in 0 .. n
    BY <1>2
<1>4. out \in Seq(Tokens) /\ Len(out) = n
    BY <1>3
<1>5. t \in Text /\ Len(t) = kept
    <2> HIDE DEF kept
    <2> QED
        BY <1>3, <1>4, PrefixFacts DEF Text
<1>6. u \in Text /\ Len(u) = n - kept
    <2>1. CASE cut
        <3>1. out[n] \in Tokens
            BY <1>2, <1>3, <2>1
        <3> QED
            BY <1>3, <2>1, <3>1 DEF Text
    <2>2. CASE ~cut
        BY <1>3, <2>2, EmptySeq DEF Text
    <2> QED
        BY <2>1, <2>2
<1>7. hist' = h \o t /\ rows' = Forward(r, t) /\ tail' = u
    BY <1>2
<1> HIDE DEF t, u, kept
<1>8. Len(t) + Len(u) <= room
    BY <1>3, <1>5, <1>6
<1> QED
    BY <1>5, <1>6, <1>7, <1>8 DEF Answered

LEMMA AnsweredTypes ==
    ASSUME NEW h \in RowType, NEW r \in Seq(Row), Len(r) = Len(h),
           NEW room \in Nat, NEW t, NEW u, Answered(h, r, room, t, u)
    PROVE  /\ hist' \in RowType /\ tail' \in RowType /\ rows' \in Seq(Row)
           /\ Len(rows') = Len(hist')
           /\ Len(hist') + Len(tail') <= Len(h) + room
<1>1. t \in RowType /\ u \in RowType
    <2>1. t \in Seq(Tokens) /\ u \in Seq(Tokens)
        BY DEF Answered, Text
    <2> QED
        BY <2>1 DEF RowType
<1>2. Len(h) \in Nat /\ Len(t) \in Nat /\ Len(u) \in Nat
    BY <1>1, LenProperties DEF RowType
<1>3. h \o t \in RowType /\ Len(h \o t) = Len(h) + Len(t)
    BY <1>1, ConcatProperties DEF RowType
<1>4. Forward(r, t) \in Seq(Row) /\ Len(Forward(r, t)) = Len(r) + Len(t)
    BY <1>1, ForwardTypes
<1> QED
    BY <1>1, <1>2, <1>3, <1>4 DEF Answered

\* The last position can be forwarded again.
LEMMA ReforwardTypes ==
    ASSUME TInv, hist # <<>>
    PROVE  Reforward \in Seq(Row) /\ Len(Reforward) = Len(hist)
<1> DEFINE n == Len(hist)
           before == SubSeq(rows, 1, Len(rows) - 1)
           one == <<Last(hist)>>
<1>1. n \in Nat /\ n \in 1 .. n /\ Len(rows) = n /\ n - 1 \in 0 .. n
    BY LenProperties, EmptySeq DEF TInv, Types, Fits, RowType
<1>2. before \in Seq(Row) /\ Len(before) = n - 1
    <2>1. rows \in Seq(Row) /\ n - 1 \in 0 .. Len(rows)
        BY <1>1 DEF TInv, Types
    <2> HIDE DEF n
    <2> QED
        BY <1>1, <2>1, PrefixFacts
<1>3. one \in RowType /\ Len(one) = 1
    <2>1. hist[n] \in Tokens \cup {Junk}
        BY <1>1, ElementOfSeq DEF TInv, Types, RowType
    <2> QED
        BY <2>1 DEF Last, RowType
<1> HIDE DEF before, one, n
<1>4. Forward(before, one) \in Seq(Row) /\ Len(Forward(before, one)) = n - 1 + 1
    BY <1>2, <1>3, ForwardTypes
<1> QED
    BY <1>1, <1>4 DEF Reforward, before, one, n

\* Writing one record, with holes before it where there was nothing.
LEMMA WriteAtFacts ==
    ASSUME NEW recs \in Seq(Records), NEW p \in Nat \ {0}, NEW r \in Records, layout \in Layouts
    PROVE  /\ WriteAt(recs, p, r) \in Seq(Records)
           /\ Len(WriteAt(recs, p, r)) >= Len(recs) /\ Len(WriteAt(recs, p, r)) >= p
           /\ Len(recs) \in Nat
           /\ WriteAt(recs, p, r)[p] = r
           /\ \A i \in 1 .. Len(recs) : i # p => WriteAt(recs, p, r)[i] = recs[i]
<1> DEFINE N == IF p > Len(recs) THEN p ELSE Len(recs)
           w == WriteAt(recs, p, r)
<1>1. Len(recs) \in Nat /\ N \in Nat /\ N >= p /\ N >= Len(recs) /\ p \in 1 .. N
      /\ 1 .. Len(recs) \subseteq 1 .. N
    BY LenProperties
<1>2. JunkRecord(layout) \in Records
    BY DEF JunkRecord, Record, JunkRow, Records, Row, RowType
<1>3. w = [i \in 1 .. N |-> IF i = p THEN r ELSE IF i <= Len(recs) THEN recs[i] ELSE JunkRecord(layout)]
    BY DEF WriteAt
<1> HIDE DEF N, w
<1>4. \A i \in 1 .. N : (IF i = p THEN r ELSE IF i <= Len(recs) THEN recs[i] ELSE JunkRecord(layout)) \in Records
    BY <1>1, <1>2, ElementOfSeq
<1>5. w \in [1 .. N -> Records]
    BY <1>3, <1>4
<1>6. w \in Seq(Records) /\ Len(w) = N
    BY <1>1, <1>5
<1>7. w[p] = r /\ \A i \in 1 .. Len(recs) : i # p => w[i] = recs[i]
    BY <1>1, <1>3
<1> QED
    BY <1>1, <1>6, <1>7 DEF w

\* What the file is made of.
LEMMA FileFacts ==
    ASSUME Types
    PROVE  /\ file.hdr \in Layouts \cup {NoFile, NoHeader} /\ file.nrec \in Nat
           /\ file.recs \in Seq(Records) /\ Len(file.recs) \in Nat
           /\ ctx \in Nat /\ PromptReserve \in Nat /\ GenReserve \in Nat \ {0}
           /\ GenReserve < PromptReserve /\ PromptReserve < ctx
           /\ Len(hist) \in Nat /\ Len(tail) \in Nat /\ Len(todo) \in Nat /\ Len(rows) \in Nat
           /\ MaxGen \in Nat
    BY KvAssumption, LenProperties DEF Types, Files, RowType

LEMMA TruncateTypes ==
    ASSUME Types, NEW n \in Nat, Truncate(n)
    PROVE  diskNrec' \in Nat /\ file' \in Files
    BY DEF Truncate, Types, Files

LEMMA RecordTypes ==
    ASSUME Types, NEW p \in 1 .. Len(rows)
    PROVE  Record(layout, rows[p]) \in Records
    BY ElementOfSeq DEF Types, Record, Records

\* Nothing is saved or told yet.
LEMMA InitTypes == Init => TInv
<1> SUFFICES ASSUME Init PROVE TInv
    OBVIOUS
<1> USE KvAssumption DEF Init
<1>1. Types
    <2>1. <<>> \in RowType /\ <<>> \in Seq(Row) /\ <<>> \in Seq(Records)
        BY EmptySeq DEF RowType
    <2>2. file \in Files
        BY <2>1 DEF Files
    <2> QED
        BY <2>1, <2>2 DEF Types
<1>2. Fits
    <2>1. ctx \in Nat /\ Len(<<>>) = 0
        BY EmptySeq
    <2> QED
        BY <2>1 DEF Fits
<1> QED
    BY <1>1, <1>2 DEF TInv

LEMMA StartTypes == ASSUME TInv, Start PROVE TInv'
<1>1. PICK c \in Contexts, l \in Layouts : ctx' = c /\ layout' = l /\ LoadInto(c, l)
    BY DEF Start
<1>2. /\ tail' = <<>> /\ todo' = <<>> /\ pc' = "idle" /\ file' = file /\ fails' = fails
    BY DEF Start, bounds
<1>3. /\ Types /\ c \in Nat /\ PromptReserve \in Nat /\ GenReserve \in Nat /\ GenReserve < PromptReserve
      /\ PromptReserve < c
    BY KvAssumption DEF TInv
<1>4. /\ rows' \in Seq(Row) /\ hist' \in RowType /\ diskNrec' \in Nat
      /\ Len(rows') = Len(hist') /\ Len(hist') <= c - GenReserve /\ Len(hist') \in Nat
    <2>1. CASE ~ Loadable(c, l)
        <3>1. rows' = <<>> /\ hist' = <<>> /\ diskNrec' = 0
            BY <1>1, <2>1 DEF LoadInto
        <3> QED
            BY <1>3, <3>1, EmptySeq DEF RowType
    <2>2. CASE Loadable(c, l)
        <3> DEFINE N == Readable
        <3>1. /\ rows' = [p \in 1 .. N |-> RowOnDisk(p)]
              /\ hist' = [p \in 1 .. N |-> Last(RowOnDisk(p))]
              /\ diskNrec' = N
            BY <1>1, <2>2 DEF LoadInto
        <3>2. N \in Nat /\ N <= file.nrec /\ N <= Len(file.recs)
            BY <1>3, FileFacts DEF Readable, Least
        <3>3. N <= c - GenReserve
            BY <1>3, <2>2, <3>2, FileFacts DEF Loadable
        <3> HIDE DEF N
        <3>4. ASSUME NEW p \in 1 .. N PROVE RowOnDisk(p) \in Row /\ Last(RowOnDisk(p)) \in Cells
            <4>1. RowOnDisk(p) \in Row
                <5>1. p \in 1 .. Len(file.recs)
                    BY <1>3, <3>2, FileFacts
                <5>2. file.recs[p] \in Records
                    BY <1>3, <5>1, FileFacts, ElementOfSeq
                <5>3. JunkRow \in Row
                    BY DEF JunkRow, Row, RowType
                <5> QED
                    BY <5>2, <5>3 DEF RowOnDisk, Records
            <4> DEFINE r == RowOnDisk(p)
            <4>2. r \in Seq(Cells) /\ r # <<>>
                BY <4>1 DEF Row, RowType, Cells
            <4> HIDE DEF r
            <4>3. Len(r) \in 1 .. Len(r)
                BY <4>2, LenProperties, EmptySeq
            <4>4. Last(r) \in Cells
                BY <4>2, <4>3, ElementOfSeq DEF Last
            <4> QED
                BY <4>1, <4>4 DEF r
        <3>5. rows' \in Seq(Row) /\ Len(rows') = N
            BY <3>1, <3>2, <3>4
        <3>6. hist' \in Seq(Cells) /\ Len(hist') = N
            BY <3>1, <3>2, <3>4
        <3> QED
            BY <3>1, <3>2, <3>3, <3>5, <3>6 DEF RowType, Cells
    <2> QED
        BY <2>1, <2>2
<1>5. Types'
    <2>1. <<>> \in RowType
        BY EmptySeq DEF RowType
    <2> QED
        BY <1>1, <1>2, <1>3, <1>4, <2>1 DEF Types
<1>6. Fits'
    <2>1. Len(tail') = 0
        BY <1>2, EmptySeq
    <2> QED
        BY <1>1, <1>2, <1>3, <1>4, <2>1 DEF Fits
<1> QED
    BY <1>5, <1>6 DEF TInv

\* What is asked is text.
LEMMA PromptText ==
    ASSUME NEW n \in Nat, NEW p \in Prompts(n)
    PROVE  p \in Text /\ Len(p) \in Nat /\ (p # <<>> => Len(p) >= 1)
<1>1. PICK m \in 0 .. n : p \in [1 .. m -> Tokens]
    BY DEF Prompts
<1>2. p \in Seq(Tokens) /\ Len(p) = m /\ m \in Nat
    BY <1>1
<1>3. p # <<>> => Len(p) # 0
    BY <1>2, EmptySeq
<1> QED
    BY <1>2, <1>3 DEF Text

LEMMA PromptTypes ==
    ASSUME TInv, NEW p \in Prompts(ctx - PromptReserve), Prompt(p)
    PROVE  TInv'
<1> DEFINE n == Len(LongestCommonPrefix({p, hist}))
<1>1. p \in RowType /\ Len(p) \in Nat /\ (Len(p) = 0 => p = <<>>)
    <2>1. p \in Text /\ Len(p) \in Nat
        BY PromptText, FileFacts DEF TInv
    <2> QED
        BY <2>1, EmptySeq DEF Text, RowType
<1>2. /\ pc' = (IF p = <<>> THEN "idle" ELSE "turn") /\ Len(p) <= ctx - PromptReserve
      /\ hist' = SubSeq(hist, 1, n) /\ rows' = SubSeq(rows, 1, n)
      /\ todo' = SubSeq(p, n + 1, Len(p))
      /\ IF n < Len(hist) THEN Truncate(n) ELSE UNCHANGED <<diskNrec, file>>
      /\ UNCHANGED <<ctx, layout, tail, fails>>
    BY DEF Prompt, NextTurn
<1>3. n \in 0 .. Len(p) /\ n \in 0 .. Len(hist)
    <2>1. hist \in Seq(Cells) /\ p \in Seq(Cells)
        BY <1>1 DEF TInv, Types, RowType, Cells
    <2> QED
        BY <2>1, CommonFacts
<1>4. /\ Types /\ Len(rows) = Len(hist) /\ Len(hist) \in Nat /\ Len(tail) \in Nat
      /\ Len(hist) + Len(tail) <= ctx - GenReserve /\ n \in Nat
      /\ ctx \in Nat /\ PromptReserve \in Nat /\ GenReserve \in Nat
    BY <1>3, FileFacts DEF TInv, Fits
<1> HIDE DEF n
<1>5. hist' \in RowType /\ Len(hist') = n
    BY <1>2, <1>3, <1>4, PrefixFacts DEF Types, RowType
<1>6. rows' \in Seq(Row) /\ Len(rows') = n
    <2>1. n \in 0 .. Len(rows) /\ rows \in Seq(Row)
        BY <1>3, <1>4 DEF Types
    <2> QED
        BY <1>2, <2>1, PrefixFacts
<1>7. todo' \in RowType /\ Len(todo') = Len(p) - n
    BY <1>1, <1>2, <1>3, RestFacts DEF RowType
<1>8. diskNrec' \in Nat /\ file' \in Files
    <2>1. n < Len(hist) => diskNrec' \in Nat /\ file' \in Files
        BY <1>2, <1>4, TruncateTypes
    <2> QED
        BY <1>2, <1>4, <2>1 DEF Types
<1>9. Types'
    BY <1>2, <1>4, <1>5, <1>6, <1>7, <1>8 DEF Types
<1>10. p # <<>> /\ Len(todo') = 0 => Len(hist') > 0
    BY <1>1, <1>3, <1>5, <1>7
<1>11. pc' = "turn" /\ todo' = <<>> => hist' # <<>>
    <2>1. pc' = "turn" => p # <<>>
        BY <1>2
    <2>2. p # <<>> /\ todo' = <<>> => hist' # <<>>
        BY <1>10, EmptySeq
    <2> QED
        BY <2>1, <2>2
<1>12. Fits'
    <2>1. n + (Len(p) - n) <= ctx - PromptReserve /\ n + Len(tail) <= ctx - GenReserve
        BY <1>1, <1>2, <1>3, <1>4
    <2> QED
        BY <1>2, <1>5, <1>6, <1>7, <1>11, <2>1 DEF Fits
<1> QED
    BY <1>9, <1>12 DEF TInv

LEMMA LineTypes ==
    ASSUME TInv, NEW p \in Prompts(ctx - PromptReserve), Line(p)
    PROVE  TInv'
<1>1. p \in RowType /\ Len(p) \in Nat /\ Len(p) >= 1
    <2>1. p \in Text /\ Len(p) \in Nat /\ Len(p) >= 1
        BY PromptText, FileFacts DEF TInv, Line
    <2> QED
        BY <2>1 DEF Text, RowType
<1>2. /\ pc' = "turn" /\ Len(p) <= ctx - PromptReserve /\ todo' = p
      /\ UNCHANGED <<ctx, layout, tail, fails>>
    BY DEF Line, NextTurn
<1>3. /\ Types /\ Len(rows) = Len(hist) /\ Len(hist) \in Nat /\ Len(tail) \in Nat
      /\ Len(hist) + Len(tail) <= ctx - GenReserve
      /\ ctx \in Nat /\ PromptReserve \in Nat /\ GenReserve \in Nat
    BY FileFacts DEF TInv, Fits
<1>4. todo' # <<>>
    BY <1>1, <1>2, EmptySeq
<1>5. CASE Len(hist) + Len(p) + PromptReserve >= ctx
    <2>1. hist' = <<>> /\ rows' = <<>> /\ Truncate(0)
        BY <1>5 DEF Line
    <2>2. /\ hist' \in RowType /\ rows' \in Seq(Row) /\ diskNrec' \in Nat /\ file' \in Files
          /\ Len(hist') = 0 /\ Len(rows') = 0
        BY <1>3, <2>1, TruncateTypes, EmptySeq DEF RowType
    <2>3. Types'
        BY <1>1, <1>2, <1>3, <2>2 DEF Types
    <2>4. Fits'
        BY <1>1, <1>2, <1>3, <1>4, <2>2 DEF Fits
    <2> QED
        BY <2>3, <2>4 DEF TInv
<1>6. CASE ~ (Len(hist) + Len(p) + PromptReserve >= ctx)
    <2>1. UNCHANGED <<hist, rows, diskNrec, file>>
        BY <1>6 DEF Line
    <2>2. Types'
        BY <1>1, <1>2, <1>3, <2>1 DEF Types
    <2>3. Fits'
        BY <1>1, <1>2, <1>3, <1>4, <1>6, <2>1 DEF Fits
    <2> QED
        BY <2>2, <2>3 DEF TInv
<1> QED
    BY <1>5, <1>6

\* The room for an answer, after a history of n tokens.
LEMMA RoomFacts ==
    ASSUME Types, NEW n \in Nat, n <= ctx - GenReserve
    PROVE  Room(n) \in Nat /\ n + Room(n) <= ctx - GenReserve
<1>1. ctx \in Nat /\ GenReserve \in Nat /\ MaxGen \in Nat
    BY FileFacts
<1> QED
    BY <1>1 DEF Room

LEMMA AnswerTypes == ASSUME TInv, Answer PROVE TInv'
<1> DEFINE h == hist \o todo
           r == IF todo = <<>> THEN Reforward ELSE Forward(rows, todo)
           room == Room(Len(h))
<1>1. /\ pc = "turn" /\ Generate(h, r, room) /\ todo' = <<>> /\ pc' = "save"
      /\ UNCHANGED <<ctx, layout, diskNrec, file, fails>>
    BY DEF Answer, bounds
<1>2. /\ Types /\ Len(rows) = Len(hist) /\ Len(hist) \in Nat /\ Len(todo) \in Nat
      /\ Len(hist) + Len(todo) <= ctx - PromptReserve
      /\ todo = <<>> => hist # <<>>
      /\ ctx \in Nat /\ PromptReserve \in Nat /\ GenReserve \in Nat /\ GenReserve < PromptReserve
    BY <1>1, FileFacts DEF TInv, Fits
<1>3. h \in RowType /\ Len(h) = Len(hist) + Len(todo)
    BY <1>2, ConcatProperties DEF Types, RowType
<1>4. r \in Seq(Row) /\ Len(r) = Len(h)
    <2>1. CASE todo = <<>>
        <3>1. Len(h) = Len(hist)
            BY <1>2, <1>3, <2>1, EmptySeq
        <3> QED
            BY <1>2, <2>1, <3>1, ReforwardTypes
    <2>2. CASE todo # <<>>
        <3>1. Forward(rows, todo) \in Seq(Row) /\ Len(Forward(rows, todo)) = Len(rows) + Len(todo)
            BY <1>2, ForwardTypes DEF Types
        <3> QED
            BY <1>2, <1>3, <2>2, <3>1
    <2> QED
        BY <2>1, <2>2
<1> HIDE DEF h, r
<1>5. room \in Nat /\ Len(h) + room <= ctx - GenReserve
    <2>1. Len(h) \in Nat /\ Len(h) <= ctx - GenReserve
        BY <1>2, <1>3
    <2> QED
        BY <1>2, <2>1, RoomFacts
<1> HIDE DEF room
<1>6. PICK t, u : Answered(h, r, room, t, u)
    BY <1>1, <1>5, GenerateFacts
<1>7. /\ hist' \in RowType /\ tail' \in RowType /\ rows' \in Seq(Row)
      /\ Len(rows') = Len(hist') /\ Len(hist') + Len(tail') <= Len(h) + room
    BY <1>3, <1>4, <1>5, <1>6, AnsweredTypes
<1>8. Types'
    <2>1. <<>> \in RowType
        BY EmptySeq DEF RowType
    <2> QED
        BY <1>1, <1>2, <1>7, <2>1 DEF Types
<1>9. Fits'
    <2>1. Len(hist') \in Nat /\ Len(tail') \in Nat /\ Len(h) \in Nat
        BY <1>3, <1>7, LenProperties DEF RowType
    <2>2. Len(hist') + Len(tail') <= ctx - GenReserve
        BY <1>2, <1>5, <1>7, <2>1
    <2> QED
        BY <1>1, <1>7, <2>2 DEF Fits
<1> QED
    BY <1>8, <1>9 DEF TInv

LEMMA MoreTypes == ASSUME TInv, More PROVE TInv'
<1> DEFINE h == hist \o tail
           r == IF tail = <<>> THEN Reforward ELSE Forward(rows, tail)
           room == Room(Len(h))
<1>1. /\ pc' = "save" /\ hist # <<>>
      /\ IF room > 0 THEN Generate(h, r, room) ELSE hist' = h /\ rows' = r /\ tail' = <<>>
      /\ UNCHANGED <<ctx, layout, todo, diskNrec, file, fails>>
    BY DEF More, NextTurn
<1>2. /\ Types /\ Len(rows) = Len(hist) /\ Len(hist) \in Nat /\ Len(tail) \in Nat
      /\ Len(hist) + Len(tail) <= ctx - GenReserve
      /\ ctx \in Nat /\ PromptReserve \in Nat /\ GenReserve \in Nat /\ GenReserve < PromptReserve
    BY <1>1, FileFacts DEF TInv, Fits
<1>3. h \in RowType /\ Len(h) = Len(hist) + Len(tail)
    BY <1>2, ConcatProperties DEF Types, RowType
<1>4. r \in Seq(Row) /\ Len(r) = Len(h)
    <2>1. CASE tail = <<>>
        <3>1. Len(h) = Len(hist)
            BY <1>2, <1>3, <2>1, EmptySeq
        <3> QED
            BY <1>1, <1>2, <2>1, <3>1, ReforwardTypes
    <2>2. CASE tail # <<>>
        <3>1. Forward(rows, tail) \in Seq(Row) /\ Len(Forward(rows, tail)) = Len(rows) + Len(tail)
            BY <1>2, ForwardTypes DEF Types
        <3> QED
            BY <1>2, <1>3, <2>2, <3>1
    <2> QED
        BY <2>1, <2>2
<1> HIDE DEF h, r
<1>5. room \in Nat /\ Len(h) + room <= ctx - GenReserve
    <2>1. Len(h) \in Nat /\ Len(h) <= ctx - GenReserve
        BY <1>2, <1>3
    <2> QED
        BY <1>2, <2>1, RoomFacts
<1> HIDE DEF room
<1>6. /\ hist' \in RowType /\ tail' \in RowType /\ rows' \in Seq(Row)
      /\ Len(rows') = Len(hist') /\ Len(hist') + Len(tail') <= Len(h) + room
    <2>1. CASE room > 0
        <3>1. PICK t, u : Answered(h, r, room, t, u)
            BY <1>1, <1>5, <2>1, GenerateFacts
        <3> QED
            BY <1>3, <1>4, <1>5, <3>1, AnsweredTypes
    <2>2. CASE ~ (room > 0)
        <3>1. hist' = h /\ rows' = r /\ tail' = <<>>
            BY <1>1, <2>2
        <3>2. Len(tail') = 0 /\ tail' \in RowType /\ Len(h) \in Nat
            BY <1>2, <1>3, <3>1, EmptySeq DEF RowType
        <3> QED
            BY <1>3, <1>4, <1>5, <3>1, <3>2
    <2> QED
        BY <2>1, <2>2
<1>7. Types'
    BY <1>1, <1>2, <1>6 DEF Types
<1>8. Fits'
    <2>1. Len(hist') \in Nat /\ Len(tail') \in Nat /\ Len(h) \in Nat
        BY <1>3, <1>6, LenProperties DEF RowType
    <2>2. Len(hist') + Len(tail') <= ctx - GenReserve
        BY <1>2, <1>5, <1>6, <2>1
    <2> QED
        BY <1>1, <1>6, <2>2 DEF Fits
<1> QED
    BY <1>7, <1>8 DEF TInv

LEMMA ResetTypes == ASSUME TInv, Reset PROVE TInv'
<1>1. /\ pc' = "idle" /\ hist' = <<>> /\ rows' = <<>> /\ tail' = <<>> /\ Truncate(0)
      /\ UNCHANGED <<ctx, layout, todo, fails>>
    BY DEF Reset, NextTurn
<1>2. Types /\ diskNrec' \in Nat /\ file' \in Files
    BY <1>1, TruncateTypes DEF TInv
<1>3. <<>> \in RowType /\ <<>> \in Seq(Row) /\ Len(<<>>) = 0
    BY EmptySeq DEF RowType
<1>4. Types'
    BY <1>1, <1>2, <1>3 DEF Types
<1>5. Fits'
    BY <1>1, <1>2, <1>3, FileFacts DEF Fits
<1> QED
    BY <1>4, <1>5 DEF TInv

\* A step that changes no more than the file, the counters and the place.
LEMMA StayTypes ==
    ASSUME TInv, pc' \in {"idle", "save", "header", "write", "count"}, file' \in Files, diskNrec' \in Nat,
           fails' \in Nat, UNCHANGED <<ctx, layout, hist, tail, rows, todo>>
    PROVE  TInv'
    BY DEF TInv, Types, Fits

\* The next record, whole or torn.
LEMMA WriteTypes ==
    ASSUME Types, Len(rows) = Len(hist), NEW p \in Pending
    PROVE  /\ p \in Nat \ {0} /\ p \in diskNrec + 1 .. Len(hist) /\ p \in 1 .. Len(rows)
           /\ Record(layout, rows[p]) \in Records
           /\ [file EXCEPT !.recs = WriteAt(@, p, Record(layout, rows[p]))] \in Files
           /\ [file EXCEPT !.recs = WriteAt(@, p, JunkRecord(layout))] \in Files
<1>1. p \in Nat \ {0} /\ p \in diskNrec + 1 .. Len(hist) /\ p \in 1 .. Len(rows)
    BY FileFacts DEF Pending, Types
<1>2. Record(layout, rows[p]) \in Records
    BY <1>1, RecordTypes
<1>3. JunkRecord(layout) \in Records
    BY DEF Types, JunkRecord, Record, JunkRow, Records, Row, RowType
<1>4. ASSUME NEW r \in Records PROVE [file EXCEPT !.recs = WriteAt(@, p, r)] \in Files
    <2>1. file \in Files /\ layout \in Layouts /\ file.recs \in Seq(Records)
        BY FileFacts DEF Types
    <2>2. WriteAt(file.recs, p, r) \in Seq(Records)
        BY <1>1, <2>1, WriteAtFacts
    <2> QED
        BY <2>1, <2>2 DEF Files
<1> QED
    BY <1>1, <1>2, <1>3, <1>4

\* A record that is torn.
LEMMA TearTypes ==
    ASSUME Types, Len(rows) = Len(hist), TearRecord
    PROVE  file' \in Files
<1>1. CASE Pending = {}
    BY <1>1 DEF TearRecord, Types
<1>2. CASE Pending # {}
    <2>1. PICK p \in Pending : file' = [file EXCEPT !.recs = WriteAt(@, p, JunkRecord(layout))]
        BY <1>2 DEF TearRecord
    <2> QED
        BY <2>1, WriteTypes
<1> QED
    BY <1>1, <1>2

LEMMA AppendTypes == ASSUME TInv, AppendStep PROVE TInv'
<1> USE DEF ram, bounds
<1>1. Types /\ Len(rows) = Len(hist) /\ file \in Files /\ diskNrec \in Nat /\ fails \in Nat
      /\ layout \in Layouts
    BY DEF TInv, Types, Fits
<1>2. CASE SkipSave
    BY <1>1, <1>2, StayTypes DEF SkipSave
<1>3. CASE OpenForAppend
    <2>1. file' \in Files /\ pc' \in {"header", "write"}
        BY <1>1, <1>3 DEF OpenForAppend, Files
    <2> QED
        BY <1>1, <1>3, <2>1, StayTypes DEF OpenForAppend
<1>4. CASE FlushHeader
    <2>1. file' \in Files
        BY <1>1, <1>4 DEF FlushHeader, Files
    <2> QED
        BY <1>1, <1>4, <2>1, StayTypes DEF FlushHeader
<1>5. CASE WriteRecord
    <2>1. PICK p \in Pending : file' = [file EXCEPT !.recs = WriteAt(@, p, Record(layout, rows[p]))]
        BY <1>5 DEF WriteRecord
    <2>2. file' \in Files
        BY <1>1, <2>1, WriteTypes
    <2> QED
        BY <1>1, <1>5, <2>2, StayTypes DEF WriteRecord
<1>6. CASE FlushRecords
    BY <1>1, <1>6, StayTypes DEF FlushRecords
<1>7. CASE WriteCount
    <2>1. Len(hist) \in Nat
        BY <1>1, FileFacts
    <2>2. file' \in Files /\ diskNrec' \in Nat
        BY <1>1, <1>7, <2>1 DEF WriteCount, Files
    <2> QED
        BY <1>1, <1>7, <2>2, StayTypes DEF WriteCount
<1>8. CASE AppendFails
    <2>1. file' \in Files
        BY <1>1, <1>8, TearTypes DEF AppendFails
    <2> QED
        BY <1>1, <1>8, <2>1, StayTypes DEF AppendFails
<1> QED
    BY <1>2, <1>3, <1>4, <1>5, <1>6, <1>7, <1>8 DEF AppendStep

LEMMA CrashTypes == ASSUME TInv, Crash PROVE TInv'
<1>1. /\ pc' = "down" /\ hist' = <<>> /\ tail' = <<>> /\ rows' = <<>> /\ todo' = <<>> /\ diskNrec' = 0
      /\ UNCHANGED <<ctx, layout, fails>>
    BY DEF Crash
<1>2. Types /\ Len(rows) = Len(hist) /\ file \in Files
    BY DEF TInv, Types, Fits
<1>3. file' \in Files
    BY <1>2, TearTypes DEF Crash
<1>4. <<>> \in RowType /\ <<>> \in Seq(Row) /\ Len(<<>>) = 0
    BY EmptySeq DEF RowType
<1>5. Types'
    BY <1>1, <1>2, <1>3, <1>4 DEF Types
<1>6. Fits'
    BY <1>1, <1>2, <1>4, FileFacts DEF Fits
<1> QED
    BY <1>5, <1>6 DEF TInv

\* The types and the bounds are inductive, whatever the settings.
LEMMA TypesInductive == TInv /\ [Next]_vars => TInv'
<1> SUFFICES ASSUME TInv, [Next]_vars PROVE TInv'
    OBVIOUS
<1>1. CASE UNCHANGED vars
    BY <1>1 DEF vars, ram, bounds, TInv, Types, Fits
<1>2. CASE Next
    <2>1. ASSUME NEW p \in Prompts(ctx - PromptReserve), Prompt(p) \/ Line(p) PROVE TInv'
        BY <2>1, PromptTypes, LineTypes
    <2> QED
        BY <1>2, <2>1, StartTypes, AnswerTypes, MoreTypes, ResetTypes, AppendTypes, CrashTypes DEF Next
<1> QED
    BY <1>1, <1>2

\* Every variable has its type, and no position is beyond the arrays, whatever the
\* settings: through any turns, crashes, restarts and failing disks.
THEOREM SpecKvTypeOK == Spec => []TypeOK
<1>1. TInv => TypeOK
    <2> SUFFICES ASSUME TInv PROVE TypeOK
        OBVIOUS
    <2>1. rows \in Seq(RowType)
        BY DEF TInv, Types, Row
    <2>2. \A p \in 1 .. Len(file.recs) : file.recs[p] \in [layout : Layouts, row : RowType]
        <3>1. \A p \in 1 .. Len(file.recs) : file.recs[p] \in Records
            BY FileFacts, ElementOfSeq DEF TInv
        <3> QED
            BY <3>1 DEF Records, Row
    <2>3. Len(hist \o tail) = Len(hist) + Len(tail)
        BY ConcatProperties DEF TInv, Types, RowType
    <2>4. Len(hist) <= ctx - GenReserve /\ Len(hist \o tail) < ctx
        BY <2>3, FileFacts DEF TInv, Fits
    <2> QED
        BY <2>1, <2>2, <2>4, FileFacts DEF TInv, Types, TypeOK
<1> QED
    BY <1>1, InitTypes, TypesInductive, PTL DEF Spec

-----------------------------------------------------------------------------
(* Rows and records, for one build and one CTX *)

\* A prefix of a prefix.
LEMMA PrefixOfPrefix ==
    ASSUME NEW S, NEW s \in Seq(S), NEW n \in 0 .. Len(s), NEW p \in 1 .. n
    PROVE  SubSeq(SubSeq(s, 1, n), 1, p) = SubSeq(s, 1, p)
<1> DEFINE t == SubSeq(s, 1, n)
<1>1. Len(s) \in Nat /\ p \in 0 .. Len(s)
    BY LenProperties
<1>2. t \in Seq(S) /\ Len(t) = n /\ \A q \in 1 .. n : t[q] = s[q]
    BY PrefixFacts
<1> HIDE DEF t
<1>3. p \in 0 .. Len(t) /\ p \in Nat
    BY <1>1, <1>2
<1>4. SubSeq(t, 1, p) \in Seq(S) /\ Len(SubSeq(t, 1, p)) = p /\ \A q \in 1 .. p : SubSeq(t, 1, p)[q] = t[q]
    BY <1>2, <1>3, PrefixFacts
<1>5. SubSeq(s, 1, p) \in Seq(S) /\ Len(SubSeq(s, 1, p)) = p /\ \A q \in 1 .. p : SubSeq(s, 1, p)[q] = s[q]
    BY <1>1, PrefixFacts
<1>6. \A q \in 1 .. p : q \in 1 .. n
    BY <1>1
<1>7. SubSeq(t, 1, p) = SubSeq(s, 1, p)
    BY <1>2, <1>4, <1>5, <1>6, SeqEqual
<1> QED
    BY <1>7 DEF t

\* The rows kept with a prefix of the history are its rows.
LEMMA SpelledPrefix ==
    ASSUME NEW h \in Text, NEW n \in 0 .. Len(h)
    PROVE  /\ SubSeq(h, 1, n) \in Text /\ Len(SubSeq(h, 1, n)) = n
           /\ SubSeq(Spelled(h), 1, n) = Spelled(SubSeq(h, 1, n))
           /\ \A p \in 1 .. n : SubSeq(Spelled(h), 1, n)[p] = Spelled(h)[p]
<1> DEFINE g == SubSeq(h, 1, n)
           r == SubSeq(Spelled(h), 1, n)
<1>1. Len(h) \in Nat /\ h \in Seq(Tokens)
    BY LenProperties DEF Text
<1>2. g \in Text /\ Len(g) = n
    BY <1>1, PrefixFacts DEF Text
<1>3. /\ Spelled(h) \in Seq(Text) /\ Len(Spelled(h)) = Len(h)
      /\ \A p \in 1 .. Len(h) : Spelled(h)[p] = SubSeq(h, 1, p)
    BY SpelledFacts
<1>4. n \in 0 .. Len(Spelled(h))
    BY <1>3
<1>5. r \in Seq(Text) /\ Len(r) = n /\ \A p \in 1 .. n : r[p] = Spelled(h)[p]
    BY <1>3, <1>4, PrefixFacts
<1> HIDE DEF r
<1>6. \A p \in 1 .. n : SubSeq(g, 1, p) = SubSeq(h, 1, p)
    BY <1>1, PrefixOfPrefix
<1> HIDE DEF g
<1>7. Spelled(g) \in Seq(Text) /\ Len(Spelled(g)) = n /\ \A p \in 1 .. n : Spelled(g)[p] = SubSeq(g, 1, p)
    BY <1>2, SpelledFacts
<1>8. \A p \in 1 .. n : p \in 1 .. Len(h)
    BY <1>1
<1>9. \A p \in 1 .. n : r[p] = Spelled(g)[p]
    BY <1>3, <1>5, <1>6, <1>7, <1>8
<1>10. r = Spelled(g)
    BY <1>5, <1>7, <1>9, SeqEqual
<1> QED
    BY <1>2, <1>5, <1>10 DEF g, r

\* The empty history.
LEMMA NoText == <<>> \in Text /\ Spelled(<<>>) = <<>> /\ Len(<<>>) = 0
<1>1. <<>> \in Text /\ Len(<<>>) = 0
    BY EmptySeq DEF Text
<1>2. Spelled(<<>>) \in Seq(Text) /\ Len(Spelled(<<>>)) = 0
    BY <1>1, SpelledFacts
<1> QED
    BY <1>1, <1>2, EmptySeq

\* Re-forwarding the last position restores its row.
LEMMA SpelledAgain ==
    ASSUME TInv, Matching, hist # <<>>
    PROVE  Reforward = Spelled(hist)
<1> DEFINE n == Len(hist)
           g == SubSeq(hist, 1, n - 1)
           one == <<Last(hist)>>
<1>1. n \in Nat /\ n \in 1 .. n /\ Len(rows) = n /\ n - 1 \in 0 .. n /\ hist \in Seq(Tokens)
    BY LenProperties, EmptySeq DEF TInv, Types, Fits, RowType, Matching, Text
<1>2. rows = Spelled(hist) /\ hist \in Text
    BY DEF Matching
<1>3. SubSeq(rows, 1, n - 1) = Spelled(g) /\ g \in Text
    <2> HIDE DEF n
    <2>1. n - 1 \in 0 .. Len(hist)
        BY <1>1 DEF n
    <2> QED
        BY <1>2, <2>1, SpelledPrefix
<1>4. one \in Text
    <2>1. hist[n] \in Tokens
        BY <1>1, ElementOfSeq
    <2> QED
        BY <2>1 DEF Last, Text
<1>5. g \o one = hist
    <2>1. 1 \in 1 .. n
        BY <1>1
    <2>2. SubSeq(hist, 1, n) = SubSeq(hist, 1, n - 1) \o <<hist[n]>>
        BY <1>1, <2>1, SubSeqRecursiveSecond
    <2>3. SubSeq(hist, 1, n) = hist
        BY <1>1, SubSeqFull
    <2> QED
        BY <2>2, <2>3 DEF Last
<1>6. Reforward = Forward(Spelled(g), one)
    BY <1>1, <1>3 DEF Reforward
<1> HIDE DEF g, one, n
<1> QED
    BY <1>3, <1>4, <1>5, <1>6, SpelledForward

\* While the slot is up, its file is good for the next start.
LEMMA KnownIsStored ==
    ASSUME TInv, Matching, Known
    PROVE  Stored
<1>1. ASSUME file.hdr = layout, file.nrec = diskNrec PROVE Resumable(file.nrec)
    <2> DEFINE n == diskNrec
               g == SubSeq(hist, 1, n)
    <2>1. /\ n \in Nat /\ n <= Len(file.recs) /\ n \in 0 .. Len(hist) /\ Len(hist) \in Nat
          /\ hist \in Seq(Tokens)
        BY FileFacts DEF Known, TInv, Types, Matching, Text
    <2>2. g \in Text /\ Len(g) = n
        BY <2>1, PrefixFacts DEF Text
    <2>3. ASSUME NEW p \in 1 .. n PROVE file.recs[p] = Record(layout, SubSeq(g, 1, p))
        <3>1. SubSeq(g, 1, p) = SubSeq(hist, 1, p)
            BY <2>1, PrefixOfPrefix
        <3>2. p \in 1 .. Len(hist)
            BY <2>1
        <3>3. rows[p] = SubSeq(hist, 1, p)
            BY <3>2, SpelledFacts DEF Matching
        <3> QED
            BY <3>1, <3>3 DEF Known
    <2> HIDE DEF g
    <2> QED
        BY <1>1, <2>1, <2>2, <2>3 DEF Resumable
<1> QED
    BY <1>1 DEF Stored, Known

LEMMA SettingKept ==
    ASSUME OneSetting, TInv, TInv'
    PROVE  ctx' = ctx /\ layout' = layout
    BY DEF OneSetting, TInv, Types

LEMMA InitKnown == Init => KInv
<1> SUFFICES ASSUME Init PROVE KInv
    OBVIOUS
<1>1. Matching
    BY NoText DEF Init, Matching
<1>2. Stored
    BY KvAssumption DEF Init, Stored
<1> QED
    BY <1>1, <1>2 DEF KInv, Init

\* What a start resumes is one history, with its rows.
LEMMA StartKnown ==
    ASSUME OneSetting, TInv, TInv', Stored, Start
    PROVE  Matching' /\ Known'
<1>1. ctx' = ctx /\ layout' = layout /\ LoadInto(ctx, layout)
    BY SettingKept DEF Start
<1>2. /\ tail' = <<>> /\ todo' = <<>> /\ pc' = "idle" /\ file' = file
    BY DEF Start
<1>3. /\ file.nrec \in Nat /\ Len(file.recs) \in Nat /\ layout \in Layouts
      /\ NoFile # layout /\ NoHeader # layout
    BY FileFacts, KvAssumption DEF TInv, Types
<1>4. CASE ~ Loadable(ctx, layout)
    <2>1. rows' = <<>> /\ hist' = <<>> /\ diskNrec' = 0
        BY <1>1, <1>4 DEF LoadInto
    <2>2. Matching'
        BY <1>2, <2>1, NoText DEF Matching
    <2>3. file.hdr = layout => file.nrec = 0 \/ file.nrec >= ctx - PromptReserve
        BY <1>3, <1>4, FileFacts DEF Loadable, TInv
    <2>4. Known'
        BY <1>1, <1>2, <1>3, <2>1, <2>3, NoText DEF Known, Stored
    <2> QED
        BY <2>2, <2>4
<1>5. CASE Loadable(ctx, layout)
    <2> DEFINE n == file.nrec
    <2>1. file.hdr = layout /\ n >= 1 /\ ~ (n >= ctx - PromptReserve)
        BY <1>3, <1>5, FileFacts DEF Loadable, TInv
    <2>2. Resumable(n)
        BY <2>1 DEF Stored
    <2>3. PICK g \in Text : Len(g) = n /\ \A p \in 1 .. n : file.recs[p] = Record(layout, SubSeq(g, 1, p))
        BY <2>2 DEF Resumable
    <2>4. n <= Len(file.recs) /\ Readable = n
        BY <1>3, <2>2 DEF Resumable, Readable, Least
    <2>5. /\ rows' = [p \in 1 .. n |-> RowOnDisk(p)]
          /\ hist' = [p \in 1 .. n |-> Last(RowOnDisk(p))]
          /\ diskNrec' = n
        BY <1>1, <1>5, <2>4 DEF LoadInto
    <2>6. ASSUME NEW p \in 1 .. n PROVE RowOnDisk(p) = SubSeq(g, 1, p)
        <3>1. file.recs[p] = Record(layout, SubSeq(g, 1, p))
            BY <2>3
        <3>2. file.recs[p].layout = layout /\ file.recs[p].row = SubSeq(g, 1, p)
            BY <3>1 DEF Record
        <3> QED
            BY <2>1, <3>2 DEF RowOnDisk
    <2>7. ASSUME NEW p \in 1 .. n PROVE Last(SubSeq(g, 1, p)) = g[p]
        <3>1. p \in 0 .. Len(g) /\ p \in 1 .. p /\ g \in Seq(Tokens)
            BY <1>3, <2>3 DEF Text
        <3>2. Len(SubSeq(g, 1, p)) = p /\ \A q \in 1 .. p : SubSeq(g, 1, p)[q] = g[q]
            BY <3>1, PrefixFacts
        <3> QED
            BY <3>1, <3>2 DEF Last
    <2>8. rows' = Spelled(g)
        BY <2>3, <2>5, <2>6 DEF Spelled
    <2>9. hist' = g
        <3>1. hist' = [p \in 1 .. n |-> g[p]]
            BY <2>5, <2>6, <2>7
        <3>2. g = [p \in 1 .. Len(g) |-> g[p]]
            BY DEF Text
        <3> QED
            BY <2>3, <3>1, <3>2
    <2>10. Matching'
        BY <1>2, <2>8, <2>9, NoText DEF Matching
    <2>11. \A p \in 1 .. n : file.recs[p] = Record(layout, rows'[p])
        BY <2>3, <2>5, <2>6
    <2>12. Known'
        <3>1. /\ diskNrec' = n /\ Len(hist') = n /\ n <= Len(file'.recs) /\ file'.nrec = n
              /\ file'.hdr # NoFile /\ pc' = "idle" /\ n \in Nat
            BY <1>2, <1>3, <2>1, <2>3, <2>4, <2>5, <2>9
        <3>2. \A p \in 1 .. diskNrec' : file'.recs[p] = Record(layout', rows'[p])
            BY <1>1, <1>2, <2>5, <2>11
        <3> HIDE DEF n
        <3> QED
            BY <3>1, <3>2 DEF Known
    <2> QED
        BY <2>10, <2>12
<1> QED
    BY <1>4, <1>5

\* A reset or a line that does not fit.
LEMMA TruncateToNothing ==
    ASSUME TInv, TInv', Known, hist' = <<>>, rows' = <<>>, pc' \in {"idle", "turn"},
           Truncate(0), UNCHANGED <<ctx, layout>>
    PROVE  Known'
<1>1. diskNrec' = 0 /\ file'.hdr = file.hdr /\ file'.recs = file.recs /\ Len(hist') = 0
    BY NoText DEF Truncate, TInv, Types, Files
<1>2. file'.nrec = 0
    BY <1>1 DEF Truncate, TInv, Types, Files, Known
<1>3. Len(file'.recs) \in Nat
    BY <1>1, FileFacts DEF TInv
<1> QED
    BY <1>1, <1>2, <1>3 DEF Known

LEMMA PromptKnown ==
    ASSUME TInv, TInv', Matching, Known, NEW p \in Prompts(ctx - PromptReserve), Prompt(p)
    PROVE  Matching' /\ Known'
<1> DEFINE n == Len(LongestCommonPrefix({p, hist}))
<1>1. p \in Text /\ Len(p) \in Nat /\ hist \in Text /\ Len(hist) \in Nat /\ tail \in Text
      /\ rows = Spelled(hist)
    <2>1. ctx - PromptReserve \in Nat
        BY FileFacts DEF TInv
    <2> QED
        BY <2>1, PromptText, FileFacts DEF Matching, TInv
<1>2. /\ pc = "idle" /\ pc' \in {"idle", "turn"}
      /\ hist' = SubSeq(hist, 1, n) /\ rows' = SubSeq(rows, 1, n)
      /\ todo' = SubSeq(p, n + 1, Len(p))
      /\ IF n < Len(hist) THEN Truncate(n) ELSE UNCHANGED <<diskNrec, file>>
      /\ UNCHANGED <<ctx, layout, tail, fails>>
    BY DEF Prompt, NextTurn
<1>3. n \in 0 .. Len(p) /\ n \in 0 .. Len(hist)
    BY <1>1, CommonFacts DEF Text
<1> HIDE DEF n
<1>4. hist' \in Text /\ Len(hist') = n /\ rows' = Spelled(hist') /\ \A q \in 1 .. n : rows'[q] = rows[q]
    BY <1>1, <1>2, <1>3, SpelledPrefix
<1>5. todo' \in Text
    BY <1>1, <1>2, <1>3, RestFacts DEF Text
<1>6. Matching'
    BY <1>1, <1>2, <1>4, <1>5 DEF Matching
<1>7. diskNrec = Len(hist) /\ Len(hist) <= Len(file.recs) /\ Len(file.recs) \in Nat /\ n \in Nat
    BY <1>2, <1>3, FileFacts DEF Known, TInv
<1>8. CASE n < Len(hist)
    <2>1. file.hdr # NoFile
        BY <1>7, <1>8 DEF Known
    <2>2. diskNrec' = n /\ file'.nrec = n /\ file'.recs = file.recs /\ file'.hdr = file.hdr
        BY <1>2, <1>8, <2>1 DEF Truncate, TInv, Types, Files
    <2>3. n <= Len(file.recs) /\ \A q \in 1 .. n : q \in 1 .. diskNrec
        BY <1>1, <1>7, <1>8
    <2>4. \A q \in 1 .. n : file.recs[q] = Record(layout, rows'[q])
        BY <1>4, <2>3 DEF Known
    <2>5. \A q \in 1 .. diskNrec' : file'.recs[q] = Record(layout', rows'[q])
        BY <1>2, <2>2, <2>4
    <2>6. Known'
        BY <1>2, <1>4, <1>7, <2>1, <2>2, <2>3, <2>5 DEF Known
    <2> QED
        BY <1>6, <2>6
<1>9. CASE ~ (n < Len(hist))
    <2>1. n = Len(hist) /\ diskNrec' = diskNrec /\ file' = file
        BY <1>1, <1>2, <1>3, <1>9
    <2>2. \A q \in 1 .. diskNrec : file.recs[q] = Record(layout, rows'[q])
        BY <1>4, <1>7, <2>1 DEF Known
    <2>3. \A q \in 1 .. diskNrec' : file'.recs[q] = Record(layout', rows'[q])
        BY <1>2, <2>1, <2>2
    <2>4. Len(hist') = diskNrec' /\ diskNrec' <= Len(hist') /\ diskNrec' <= Len(file'.recs)
        BY <1>4, <1>7, <2>1
    <2>5. file'.hdr = NoFile => file'.nrec = 0 /\ diskNrec' = 0
        BY <2>1 DEF Known
    <2>6. file'.hdr = layout' => file'.nrec = diskNrec' \/ file'.nrec >= ctx' - PromptReserve
        BY <1>2, <2>1 DEF Known
    <2>7. Known'
        BY <1>2, <2>3, <2>4, <2>5, <2>6 DEF Known
    <2> QED
        BY <1>6, <2>7
<1> QED
    BY <1>6, <1>8, <1>9

LEMMA LineKnown ==
    ASSUME TInv, TInv', Matching, Known, NEW p \in Prompts(ctx - PromptReserve), Line(p)
    PROVE  Matching' /\ Known'
<1>1. p \in Text /\ hist \in Text /\ tail \in Text /\ rows = Spelled(hist)
    <2>1. ctx - PromptReserve \in Nat
        BY FileFacts DEF TInv
    <2> QED
        BY <2>1, PromptText DEF Matching
<1>2. pc = "idle" /\ pc' = "turn" /\ todo' = p /\ UNCHANGED <<ctx, layout, tail>>
    BY DEF Line, NextTurn
<1>3. CASE Len(hist) + Len(p) + PromptReserve >= ctx
    <2>1. hist' = <<>> /\ rows' = <<>> /\ Truncate(0)
        BY <1>3 DEF Line
    <2>2. Known'
        BY <1>2, <2>1, TruncateToNothing
    <2>3. Matching'
        BY <1>1, <1>2, <2>1, NoText DEF Matching
    <2> QED
        BY <2>2, <2>3
<1>4. CASE ~ (Len(hist) + Len(p) + PromptReserve >= ctx)
    <2>1. UNCHANGED <<hist, rows, diskNrec, file>>
        BY <1>4 DEF Line
    <2>2. Known'
        BY <1>2, <2>1 DEF Known
    <2>3. Matching'
        BY <1>1, <1>2, <2>1 DEF Matching
    <2> QED
        BY <2>2, <2>3
<1> QED
    BY <1>3, <1>4

\* An answer adds to the history and leaves the file alone.
LEMMA AnswerKnown ==
    ASSUME TInv, Matching, Known, NEW h \in Text, NEW x \in Text, h = hist \o x,
           NEW t, NEW u, NEW room, Answered(h, Spelled(h), room, t, u),
           todo' \in Text, pc' = "save", UNCHANGED <<ctx, layout, diskNrec, file>>
    PROVE  Matching' /\ Known'
<1>1. t \in Text /\ u \in Text /\ hist' = h \o t /\ rows' = Spelled(h \o t) /\ tail' = u
    BY SpelledForward DEF Answered
<1>2. h \o t \in Text
    BY <1>1, SpelledOn
<1>3. Matching'
    BY <1>1, <1>2 DEF Matching
<1>4. x \o t \in Text /\ h \o t = hist \o (x \o t) /\ hist \in Text
    <2>1. hist \in Seq(Tokens) /\ x \in Seq(Tokens) /\ t \in Seq(Tokens)
        BY <1>1 DEF Matching, Text
    <2>2. (hist \o x) \o t = hist \o (x \o t)
        BY <2>1, ConcatAssociative
    <2>3. x \o t \in Seq(Tokens)
        BY <2>1, ConcatProperties
    <2> QED
        BY <2>1, <2>2, <2>3 DEF Text
<1> DEFINE y == x \o t
<1>5. y \in Text /\ hist' = hist \o y /\ rows' = Spelled(hist \o y)
    BY <1>1, <1>4
<1> HIDE DEF y
<1>6. Len(hist') = Len(hist) + Len(y) /\ \A p \in 1 .. Len(hist) : rows'[p] = rows[p]
    BY <1>4, <1>5, SpelledOn DEF Matching
<1>7. Len(hist) \in Nat /\ Len(y) \in Nat /\ diskNrec \in Nat /\ diskNrec <= Len(hist)
    BY <1>5, FileFacts, LenProperties DEF Text, TInv, Types, Known
<1>8. diskNrec <= Len(hist') /\ \A p \in 1 .. diskNrec : p \in 1 .. Len(hist)
    BY <1>6, <1>7
<1>9. \A p \in 1 .. diskNrec : file.recs[p] = Record(layout, rows'[p])
    BY <1>6, <1>8 DEF Known
<1>10. Known'
    BY <1>8, <1>9 DEF Known
<1> QED
    BY <1>3, <1>10

LEMMA AnswerStep ==
    ASSUME TInv, TInv', Matching, Known, Answer
    PROVE  Matching' /\ Known'
<1> DEFINE h == hist \o todo
           r == IF todo = <<>> THEN Reforward ELSE Forward(rows, todo)
           room == Room(Len(h))
<1>1. /\ pc = "turn" /\ Generate(h, r, room) /\ todo' = <<>> /\ pc' = "save"
      /\ UNCHANGED <<ctx, layout, diskNrec, file>>
    BY DEF Answer
<1>2. /\ hist \in Text /\ todo \in Text /\ rows = Spelled(hist) /\ Types
      /\ todo = <<>> => hist # <<>>
      /\ Len(hist) + Len(todo) <= ctx - PromptReserve
    BY <1>1 DEF Matching, TInv, Fits
<1>3. h \in Text /\ Len(h) = Len(hist) + Len(todo)
    BY <1>2, SpelledOn
<1>4. r = Spelled(h)
    <2>1. CASE todo = <<>>
        <3>1. h = hist
            BY <1>2, <2>1, ConcatEmptySeq DEF Text
        <3> QED
            BY <1>2, <2>1, <3>1, SpelledAgain
    <2>2. CASE todo # <<>>
        BY <1>2, <2>2, SpelledForward
    <2> QED
        BY <2>1, <2>2
<1>5. room \in Nat
    <2>1. Len(h) \in Nat /\ Len(h) <= ctx - GenReserve
        BY <1>2, <1>3, FileFacts
    <2> HIDE DEF h
    <2> QED
        BY <1>2, <2>1, RoomFacts
<1> DEFINE x == todo
<1>6. h = hist \o x /\ x \in Text
    BY <1>2
<1> HIDE DEF h, r, room, x
<1>7. PICK t, u : Answered(h, r, room, t, u)
    BY <1>1, <1>5, GenerateFacts
<1>8. Answered(h, Spelled(h), room, t, u) /\ todo' \in Text
    BY <1>1, <1>4, <1>7, NoText
<1> QED
    BY <1>1, <1>3, <1>6, <1>8, AnswerKnown

LEMMA MoreStep ==
    ASSUME TInv, TInv', Matching, Known, More
    PROVE  Matching' /\ Known'
<1> DEFINE h == hist \o tail
           r == IF tail = <<>> THEN Reforward ELSE Forward(rows, tail)
           room == Room(Len(h))
<1>1. /\ pc' = "save" /\ hist # <<>>
      /\ IF room > 0 THEN Generate(h, r, room) ELSE hist' = h /\ rows' = r /\ tail' = <<>>
      /\ UNCHANGED <<ctx, layout, todo, diskNrec, file>>
    BY DEF More, NextTurn
<1>2. /\ hist \in Text /\ tail \in Text /\ todo \in Text /\ rows = Spelled(hist) /\ Types
      /\ Len(hist) + Len(tail) <= ctx - GenReserve
    BY DEF Matching, TInv, Fits
<1>3. h \in Text /\ Len(h) = Len(hist) + Len(tail)
    BY <1>2, SpelledOn
<1>4. r = Spelled(h)
    <2>1. CASE tail = <<>>
        <3>1. h = hist
            BY <1>2, <2>1, ConcatEmptySeq DEF Text
        <3> QED
            BY <1>1, <1>2, <2>1, <3>1, SpelledAgain
    <2>2. CASE tail # <<>>
        BY <1>2, <2>2, SpelledForward
    <2> QED
        BY <2>1, <2>2
<1>5. room \in Nat
    <2>1. Len(h) \in Nat /\ Len(h) <= ctx - GenReserve
        BY <1>2, <1>3, FileFacts
    <2> HIDE DEF h
    <2> QED
        BY <1>2, <2>1, RoomFacts
<1> DEFINE x == tail
<1>6. h = hist \o x /\ x \in Text /\ todo' \in Text
    BY <1>1, <1>2
<1> HIDE DEF h, r, room, x
<1>7. PICK t, u : Answered(h, Spelled(h), room, t, u)
    <2>1. CASE room > 0
        BY <1>1, <1>4, <1>5, <2>1, GenerateFacts
    <2>2. CASE ~ (room > 0)
        <3>1. hist' = h /\ rows' = Spelled(h) /\ tail' = <<>>
            BY <1>1, <1>4, <2>2
        <3>2. h \o <<>> = h
            BY <1>3, ConcatEmptySeq DEF Text
        <3>3. Forward(Spelled(h), <<>>) = Spelled(h)
            BY <1>3, <3>2, NoText, SpelledForward
        <3>4. Len(<<>>) + Len(<<>>) <= room
            BY <1>5, NoText
        <3>5. Answered(h, Spelled(h), room, <<>>, <<>>)
            BY <3>1, <3>2, <3>3, <3>4, NoText DEF Answered
        <3> QED
            BY <3>5
    <2> QED
        BY <2>1, <2>2
<1> QED
    BY <1>1, <1>3, <1>6, <1>7, AnswerKnown

\* A reset.
LEMMA ResetKnown ==
    ASSUME TInv, TInv', Matching, Known, Reset
    PROVE  Matching' /\ Known'
<1>1. /\ pc' = "idle" /\ hist' = <<>> /\ rows' = <<>> /\ tail' = <<>> /\ Truncate(0)
      /\ UNCHANGED <<ctx, layout, todo>>
    BY DEF Reset, NextTurn
<1>2. Matching'
    BY <1>1, NoText DEF Matching
<1>3. Known'
    BY <1>1, TruncateToNothing
<1> QED
    BY <1>2, <1>3

\* The record that is written next is none of those the slot counts.
LEMMA WriteKnown ==
    ASSUME TInv, Known, NEW p \in Pending, NEW r \in Records,
           file' = [file EXCEPT !.recs = WriteAt(@, p, r)]
    PROVE  /\ file'.hdr = file.hdr /\ file'.nrec = file.nrec
           /\ diskNrec <= Len(file'.recs)
           /\ \A q \in 1 .. diskNrec : file'.recs[q] = file.recs[q]
<1>1. p \in Nat \ {0} /\ p \in diskNrec + 1 .. Len(hist)
    BY WriteTypes DEF TInv, Fits
<1>2. /\ file.recs \in Seq(Records) /\ layout \in Layouts /\ diskNrec \in Nat
      /\ Len(hist) \in Nat /\ Len(file.recs) \in Nat
    BY FileFacts DEF TInv, Types
<1> DEFINE w == WriteAt(file.recs, p, r)
<1>3. w \in Seq(Records) /\ Len(w) >= Len(file.recs) /\ \A i \in 1 .. Len(file.recs) : i # p => w[i] = file.recs[i]
    BY <1>1, <1>2, WriteAtFacts
<1>4. Len(w) \in Nat
    <2> HIDE DEF w
    <2> QED
        BY <1>3, LenProperties
<1>5. file'.recs = w /\ file'.hdr = file.hdr /\ file'.nrec = file.nrec
    BY DEF TInv, Types, Files
<1> HIDE DEF w
<1>6. diskNrec <= Len(file.recs) /\ \A q \in 1 .. diskNrec : q \in 1 .. Len(file.recs) /\ q # p
    BY <1>1, <1>2 DEF Known
<1> QED
    BY <1>2, <1>3, <1>4, <1>5, <1>6

\* kv_disk_append(), step by step: data first, counter then.
LEMMA AppendKnown ==
    ASSUME TInv, TInv', Matching, Known, AppendStep, fails' = 0, fails = 0
    PROVE  Matching' /\ Known'
<1>1. UNCHANGED <<ctx, layout, hist, tail, rows, todo>>
    BY DEF AppendStep, SkipSave, OpenForAppend, FlushHeader, WriteRecord, FlushRecords, WriteCount,
           AppendFails, ram
<1>2. Matching'
    BY <1>1 DEF Matching
<1>3. /\ diskNrec \in Nat /\ Len(hist) \in Nat /\ Len(file.recs) \in Nat /\ file.nrec \in Nat
      /\ layout \in Layouts /\ NoFile # layout /\ NoHeader # layout /\ NoHeader # NoFile
    BY FileFacts, KvAssumption DEF TInv, Types, NoFile, NoHeader
<1>4. CASE SkipSave
    <2>1. pc' = "idle" /\ UNCHANGED <<diskNrec, file>> /\ Len(hist) <= diskNrec
        BY <1>4 DEF SkipSave, ram
    <2>2. diskNrec = Len(hist)
        BY <1>3, <2>1 DEF Known
    <2>3. Known'
        BY <1>1, <2>1, <2>2 DEF Known
    <2> QED
        BY <1>2, <2>3
<1>5. CASE OpenForAppend
    <2>1. UNCHANGED diskNrec
        BY <1>5 DEF OpenForAppend, ram
    <2>2. CASE file.hdr = NoFile
        <3>1. /\ file'.hdr = NoHeader /\ file'.nrec = file.nrec /\ file'.recs = file.recs
              /\ pc' = "header"
            BY <1>5, <2>2 DEF OpenForAppend, TInv, Types, Files
        <3>2. file.nrec = 0 /\ diskNrec = 0
            BY <2>2 DEF Known
        <3>3. Known'
            BY <1>1, <1>3, <2>1, <3>1, <3>2 DEF Known
        <3> QED
            BY <1>2, <3>3
    <2>3. CASE file.hdr # NoFile
        <3>1. file' = file /\ pc' = "write"
            BY <1>5, <2>3 DEF OpenForAppend
        <3>2. Known'
            BY <1>1, <2>1, <2>3, <3>1 DEF Known
        <3> QED
            BY <1>2, <3>2
    <2> QED
        BY <2>2, <2>3
<1>6. CASE FlushHeader
    <2>1. /\ pc = "header" /\ pc' = "write" /\ UNCHANGED diskNrec
          /\ file'.hdr = layout /\ file'.nrec = file.nrec /\ file'.recs = file.recs
        BY <1>6 DEF FlushHeader, ram, TInv, Types, Files
    <2>2. file.nrec = 0 /\ diskNrec = 0
        BY <2>1 DEF Known
    <2>3. Known'
        BY <1>1, <1>3, <2>1, <2>2 DEF Known
    <2> QED
        BY <1>2, <2>3
<1>7. CASE WriteRecord
    <2>1. pc = "write" /\ UNCHANGED <<pc, diskNrec>>
        BY <1>7 DEF WriteRecord, ram
    <2>2. PICK p \in Pending : file' = [file EXCEPT !.recs = WriteAt(@, p, Record(layout, rows[p]))]
        BY <1>7 DEF WriteRecord
    <2>3. Record(layout, rows[p]) \in Records
        BY WriteTypes DEF TInv, Fits
    <2>4. /\ file'.hdr = file.hdr /\ file'.nrec = file.nrec /\ diskNrec <= Len(file'.recs)
          /\ \A q \in 1 .. diskNrec : file'.recs[q] = file.recs[q]
        BY <2>2, <2>3, WriteKnown
    <2>5. \A q \in 1 .. diskNrec' : file'.recs[q] = Record(layout', rows'[q])
        BY <1>1, <2>1, <2>4 DEF Known
    <2>6. Known'
        BY <1>1, <2>1, <2>4, <2>5 DEF Known
    <2> QED
        BY <1>2, <2>6
<1>8. CASE FlushRecords
    <2>1. pc = "write" /\ pc' = "count" /\ UNCHANGED <<diskNrec, file>> /\ Pending = {}
        BY <1>8 DEF FlushRecords, ram
    <2>2. Pending' = {}
        BY <1>1, <2>1 DEF Pending
    <2>3. Known'
        BY <1>1, <2>1, <2>2 DEF Known
    <2> QED
        BY <1>2, <2>3
<1>9. CASE WriteCount
    <2>1. /\ pc = "count" /\ pc' = "idle" /\ diskNrec' = Len(hist)
          /\ file'.hdr = file.hdr /\ file'.nrec = Len(hist) /\ file'.recs = file.recs
        BY <1>9 DEF WriteCount, TInv, Types, Files
    <2>2. Pending = {} /\ file.hdr # NoFile /\ diskNrec <= Len(hist) /\ diskNrec <= Len(file.recs)
        BY <2>1 DEF Known
    <2>3. ASSUME NEW q \in 1 .. Len(hist)
          PROVE  q <= Len(file.recs) /\ file.recs[q] = Record(layout, rows[q])
        <3>1. CASE q <= diskNrec
            BY <1>3, <2>2, <3>1 DEF Known
        <3>2. CASE ~ (q <= diskNrec)
            <4>1. q \in diskNrec + 1 .. Len(hist)
                BY <1>3, <3>2
            <4>2. ~ (q > Len(file.recs)) /\ file.recs[q] = Record(layout, rows[q])
                BY <2>2, <4>1 DEF Pending
            <4> QED
                BY <1>3, <4>2
        <3> QED
            BY <3>1, <3>2
    <2>4. Len(hist) <= Len(file.recs)
        <3>1. CASE Len(hist) = 0
            BY <1>3, <3>1
        <3>2. CASE Len(hist) # 0
            <4>1. Len(hist) \in 1 .. Len(hist)
                BY <1>3, <3>2
            <4> QED
                BY <2>3, <4>1
        <3> QED
            BY <3>1, <3>2
    <2>5. \A q \in 1 .. diskNrec' : file'.recs[q] = Record(layout', rows'[q])
        BY <1>1, <2>1, <2>3
    <2>6. Known'
        BY <1>1, <1>3, <2>1, <2>2, <2>4, <2>5 DEF Known
    <2> QED
        BY <1>2, <2>6
<1>10. CASE AppendFails
    BY <1>10 DEF AppendFails
<1> QED
    BY <1>4, <1>5, <1>6, <1>7, <1>8, <1>9, <1>10 DEF AppendStep

\* A record that is torn is none of those the file counts.
LEMMA TearKnown ==
    ASSUME TInv, Known, TearRecord
    PROVE  /\ file'.hdr = file.hdr /\ file'.nrec = file.nrec
           /\ diskNrec <= Len(file'.recs)
           /\ \A q \in 1 .. diskNrec : file'.recs[q] = file.recs[q]
<1>1. CASE Pending = {}
    BY <1>1 DEF TearRecord, Known
<1>2. CASE Pending # {}
    <2>1. PICK p \in Pending : file' = [file EXCEPT !.recs = WriteAt(@, p, JunkRecord(layout))]
        BY <1>2 DEF TearRecord
    <2>2. JunkRecord(layout) \in Records
        BY DEF TInv, Types, JunkRecord, Record, JunkRow, Records, Row, RowType
    <2> QED
        BY <2>1, <2>2, WriteKnown
<1> QED
    BY <1>1, <1>2

\* Killed at any step of a turn or an append, the slot leaves a file the next start
\* can resume from.
LEMMA CrashKnown ==
    ASSUME OneSetting, TInv, TInv', Matching, Known, Crash
    PROVE  Matching' /\ Stored'
<1>1. /\ hist' = <<>> /\ tail' = <<>> /\ rows' = <<>> /\ todo' = <<>>
      /\ UNCHANGED <<ctx, layout>>
    BY DEF Crash
<1>2. Matching'
    BY <1>1, NoText DEF Matching
<1>3. /\ file'.hdr = file.hdr /\ file'.nrec = file.nrec
      /\ diskNrec <= Len(file'.recs)
      /\ \A q \in 1 .. diskNrec : file'.recs[q] = file.recs[q]
    BY TearKnown DEF Crash, Known
<1>4. Stored
    BY KnownIsStored
<1>5. ASSUME file'.hdr = layout', ~ (file'.nrec >= ctx' - PromptReserve)
      PROVE  Resumable(file.nrec)'
    <2> DEFINE n == file.nrec
    <2>1. n = diskNrec /\ Resumable(n)
        BY <1>1, <1>3, <1>4, <1>5 DEF Known, Stored
    <2>2. PICK g \in Text : Len(g) = n /\ \A p \in 1 .. n : file.recs[p] = Record(layout, SubSeq(g, 1, p))
        BY <2>1 DEF Resumable
    <2>3. \A p \in 1 .. n : file'.recs[p] = Record(layout', SubSeq(g, 1, p))
        BY <1>1, <1>3, <2>1, <2>2
    <2>4. file'.nrec = n /\ n <= Len(file'.recs)
        BY <1>3, <2>1
    <2> HIDE DEF n
    <2> QED
        BY <2>2, <2>3, <2>4 DEF Resumable
<1>6. Stored'
    BY <1>3, <1>4, <1>5 DEF Stored
<1> QED
    BY <1>2, <1>6

-----------------------------------------------------------------------------
(* The theorems *)

\* With one build and one CTX, every step keeps rows, history and file together.
LEMMA KnownInductive ==
    ASSUME OneSetting, TInv, TInv', KInv, [Next]_vars
    PROVE  KInv'
<1> SUFFICES ASSUME fails' = 0 PROVE Matching' /\ IF pc' = "down" THEN Stored' ELSE Known'
    BY DEF KInv
<1> USE DEF ram, bounds
<1>1. fails = 0
    <2>1. fails \in Nat
        BY DEF TInv, Types
    <2>2. CASE AppendStep
        BY <2>1, <2>2 DEF AppendStep, SkipSave, OpenForAppend, FlushHeader, WriteRecord, FlushRecords,
           WriteCount, AppendFails
    <2>3. CASE UNCHANGED vars \/ Start \/ Answer \/ More \/ Reset \/ Crash
        BY <2>3 DEF vars, Start, Answer, More, Reset, Crash
    <2>4. ASSUME NEW p \in Prompts(ctx - PromptReserve), Prompt(p) \/ Line(p) PROVE fails = 0
        BY <2>4 DEF Prompt, Line
    <2> QED
        BY <2>2, <2>3, <2>4 DEF Next
<1>2. Matching /\ (pc = "down" => Stored) /\ (pc # "down" => Known)
    BY <1>1 DEF KInv
<1>3. CASE UNCHANGED vars
    BY <1>2, <1>3 DEF vars, Matching, Stored, Known, Resumable, Pending
<1>4. CASE Start
    BY <1>2, <1>4, StartKnown DEF Start
<1>5. CASE Answer
    BY <1>2, <1>5, AnswerStep DEF Answer
<1>6. CASE More
    BY <1>2, <1>6, MoreStep DEF More, NextTurn
<1>7. CASE Reset
    BY <1>2, <1>7, ResetKnown DEF Reset, NextTurn
<1>8. CASE AppendStep
    <2>1. pc # "down" /\ pc' # "down"
        BY <1>8 DEF AppendStep, SkipSave, OpenForAppend, FlushHeader, WriteRecord, FlushRecords,
           WriteCount, AppendFails
    <2> QED
        BY <1>1, <1>2, <1>8, <2>1, AppendKnown
<1>9. CASE Crash
    BY <1>2, <1>9, CrashKnown DEF Crash
<1>10. ASSUME NEW p \in Prompts(ctx - PromptReserve), Prompt(p) PROVE Matching' /\ Known' /\ pc' # "down"
    BY <1>2, <1>10, PromptKnown DEF Prompt, NextTurn
<1>11. ASSUME NEW p \in Prompts(ctx - PromptReserve), Line(p) PROVE Matching' /\ Known' /\ pc' = "turn"
    BY <1>2, <1>11, LineKnown DEF Line, NextTurn
<1> QED
    BY <1>3, <1>4, <1>5, <1>6, <1>7, <1>8, <1>9, <1>10, <1>11 DEF Next

LEMMA SpecKnown ==
    ASSUME OneSetting
    PROVE  Spec => [](TInv /\ KInv)
<1>1. TInv /\ KInv /\ [Next]_vars => TInv' /\ KInv'
    BY TypesInductive, KnownInductive
<1> QED
    BY <1>1, InitTypes, InitKnown, PTL DEF Spec

\* With one build and one CTX, on a disk that does not fail, the rows an answer is
\* computed from are those of the history, through prompts, lines, :more, resets,
\* crashes at any point and resumes.
THEOREM SpecRowsMatchHistory ==
    ASSUME OneSetting
    PROVE  Spec => []RowsMatchHistory
<1>1. TInv /\ KInv => RowsMatchHistory
    <2> SUFFICES ASSUME TInv, KInv, fails = 0
                 PROVE  /\ Len(rows) = Len(hist)
                        /\ \A p \in 1 .. Len(hist) : hist[p] \in Tokens /\ rows[p] = SubSeq(hist, 1, p)
        BY DEF RowsMatchHistory
    <2>1. hist \in Text /\ rows = Spelled(hist) /\ Len(rows) = Len(hist)
        BY DEF KInv, Matching, TInv, Fits
    <2>2. \A p \in 1 .. Len(hist) : hist[p] \in Tokens
        BY <2>1, ElementOfSeq DEF Text
    <2> QED
        BY <2>1, <2>2, SpelledFacts
<1> QED
    BY <1>1, SpecKnown, PTL

\* With one build and one CTX, on a disk that does not fail, the records an append
\* skips are on the disk and are those of the present history.
THEOREM SpecSkippedRecordsAreThere ==
    ASSUME OneSetting
    PROVE  Spec => []SkippedRecordsAreThere
<1>1. TInv /\ KInv => SkippedRecordsAreThere
    BY DEF KInv, Known, SkippedRecordsAreThere
<1> QED
    BY <1>1, SpecKnown, PTL
=============================================================================
