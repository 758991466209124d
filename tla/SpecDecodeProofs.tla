-------------------------- MODULE SpecDecodeProofs --------------------------
(***************************************************************************)
(* Theorems about speculative decoding for any vocabulary, context length, *)
(* draft length, NGEN and number of turns: the rows match what was shown,  *)
(* and what is shown is plain decoding.                                    *)
(***************************************************************************)
EXTENDS SpecDecode, SequenceTheorems, TLAPS

-----------------------------------------------------------------------------
(* The inductive invariant *)

\* Types, apart from those of the arrays' contents.
Types ==
    /\ pc \in {"idle", "pick", "draft", "verify", "advance"}
    /\ greedy \in BOOLEAN /\ tail \in BOOLEAN /\ done \in BOOLEAN
    /\ len \in Nat /\ left \in Nat /\ k \in Nat /\ turns \in Nat
    /\ asked \in Nat /\ from \in Nat
    /\ DOMAIN all = Positions /\ DOMAIN row = Positions
    /\ \A p \in Positions : all[p] \in Tokens \cup {NoToken}
    /\ \A p \in Positions : row[p] \in Seq(Vocab \cup {NoToken})
    /\ shown \in Seq(Tokens) /\ draft \in Seq(Vocab) /\ logits \in Seq(Vocab)
    /\ ban \in Vocab \cup {NoToken}

\* Between turns at most one token is without its row.
Idle ==
    pc = "idle" =>
        /\ Len(shown) = IF tail THEN len + 1 ELSE len
        /\ Len(shown) + 2 <= MaxT
        /\ left = 0 /\ from = 0

\* Within an answer its tokens are counted once, and there is room for the budget.
Answering ==
    pc # "idle" =>
        /\ ~tail
        /\ 1 <= from /\ from <= len /\ left <= asked
        /\ Len(shown) = from + asked - left
        /\ from + asked + 2 <= MaxT

\* How far the display is ahead of len, by phase.
Phases ==
    /\ pc \in {"idle", "pick", "draft"} => draft = <<>> /\ k = 0 /\ ~done
    /\ pc = "pick" => Len(shown) = len /\ logits = shown /\ left > 0
    /\ pc = "draft" => Len(shown) = len + 1 /\ left > 0
    /\ pc \in {"verify", "advance"} =>
          /\ Len(shown) = len + 1 + k /\ k <= Len(draft)
          /\ len + 1 + Len(draft) <= MaxT
    /\ pc = "verify" => ~done
    /\ pc = "advance" => left > 0
    /\ ban # NoToken => pc \in {"pick", "advance"}

\* The history and the rows of the positions that count.
History == \A p \in 1 .. Len(shown) : all[p] = shown[p]
Rows ==
    \A p \in 1 .. len :
        Len(row[p]) = p /\ \A q \in 1 .. p : row[p][q] = shown[q]

\* The rows of a batch: guesses after the token that was chosen, of which the
\* accepted ones have been shown.
Batch ==
    pc \in {"verify", "advance"} =>
        /\ \A i \in 1 .. k : shown[len + 1 + i] = draft[i]
        /\ \A p \in len + 1 .. len + 1 + Len(draft) :
              /\ Len(row[p]) = p
              /\ \A q \in 1 .. p :
                    row[p][q] = IF q <= len + 1 THEN shown[q] ELSE draft[q - len - 1]

\* The dice of an answer have been thrown for what has been shown, and once a guess
\* was turned down there, for what is to be shown next: anything but the guess.
Dice ==
    ~greedy /\ pc # "idle" /\ ~done =>
        \A c \in DOMAIN choice :
            /\ c \in Seq(Tokens)
            /\ Len(c) < Len(shown) \/ (c = shown /\ ban \in Vocab /\ choice[c] = Vocab \ {ban})

IInv == Types /\ Idle /\ Answering /\ Phases /\ History /\ Rows /\ Batch /\ Dice

-----------------------------------------------------------------------------
(* Sequences and arrays *)

Cells == Vocab \cup {NoToken}   \* what a place of a row may hold

\* A row that agrees with a token sequence place by place is that sequence.
LEMMA SpelledOut ==
    ASSUME NEW r \in Seq(Cells), NEW s \in Seq(Tokens), Len(r) = Len(s),
           \A q \in 1 .. Len(s) : r[q] = s[q]
    PROVE  r = s
<1>1. s \in Seq(Cells)
  BY DEF Cells, Vocab
<1> QED
  BY <1>1, SeqEqual

\* Prefixes, place by place.
LEMMA PrefixFacts ==
    ASSUME NEW S, NEW s \in Seq(S), NEW n \in 0 .. Len(s)
    PROVE  /\ SubSeq(s, 1, n) \in Seq(S)
           /\ Len(SubSeq(s, 1, n)) = n
           /\ \A q \in 1 .. n : SubSeq(s, 1, n)[q] = s[q]
<1>1. Len(s) \in Nat /\ n \in Int /\ 1 \in Int
  BY LenProperties
<1>2. \A q \in 1 .. n : s[q] \in S
  BY <1>1, ElementOfSeq
<1>3. /\ SubSeq(s, 1, n) \in Seq(S)
      /\ Len(SubSeq(s, 1, n)) = IF 1 <= n THEN n - 1 + 1 ELSE 0
      /\ \A q \in 1 .. n - 1 + 1 : SubSeq(s, 1, n)[q] = s[1 + q - 1]
  BY <1>1, <1>2, SubSeqProperties
<1> QED
  BY <1>1, <1>3

\* Writing a stretch of the history leaves the rest of it alone.
LEMMA WriteFacts ==
    ASSUME Types, NEW n \in Nat, NEW t \in Seq(Tokens), n + Len(t) <= MaxT
    PROVE  /\ DOMAIN Write(n, t) = Positions
           /\ \A p \in Positions : Write(n, t)[p] \in Tokens \cup {NoToken}
           /\ \A p \in Positions :
                 Write(n, t)[p] = IF p > n /\ p <= n + Len(t) THEN t[p - n] ELSE all[p]
<1>1. Len(t) \in Nat /\ MaxT \in Nat
  BY LenProperties, SpecDecodeAssumption
<1>2. DOMAIN all = Positions /\ \A p \in Positions : all[p] \in Tokens \cup {NoToken}
  BY DEF Types
<1>3. DOMAIN all \cup n + 1 .. n + Len(t) = Positions
  BY <1>1, <1>2 DEF Positions
<1>4. \A p \in Positions : p > n /\ p <= n + Len(t) => t[p - n] \in Tokens
  BY <1>1, ElementOfSeq DEF Positions
<1> QED
  BY <1>2, <1>3, <1>4 DEF Write

\* A pass computes the rows of its batch from the rows before it, and no others.
LEMMA ForwardFacts ==
    ASSUME Types, Rows, len <= Len(shown), NEW n \in 0 .. len,
           NEW b \in Seq(Cells), n + Len(b) <= MaxT, Forward(n, b)
    PROVE  /\ DOMAIN row' = Positions
           /\ \A p \in Positions : row'[p] \in Seq(Cells)
           /\ \A p \in Positions : ~(p > n /\ p <= n + Len(b)) => row'[p] = row[p]
           /\ \A p \in n + 1 .. n + Len(b) :
                 /\ Len(row'[p]) = p
                 /\ \A q \in 1 .. p : row'[p][q] = IF q <= n THEN shown[q] ELSE b[q - n]
<1>1. Len(b) \in Nat /\ MaxT \in Nat /\ len \in Nat /\ n \in Nat /\ Len(shown) \in Nat
  BY LenProperties, SpecDecodeAssumption DEF Types
<1>2. DOMAIN row = Positions /\ \A p \in Positions : row[p] \in Seq(Cells)
  BY DEF Types, Cells
<1>3. DOMAIN row \cup n + 1 .. n + Len(b) = Positions
  BY <1>1, <1>2 DEF Positions
<1>4. \A q \in 1 .. n : row[q][q] = shown[q] /\ shown[q] \in Cells
  BY <1>1, ElementOfSeq DEF Rows, Types, Cells, Vocab
<1>5. ASSUME NEW p \in n + 1 .. n + Len(b)
      PROVE  /\ Context(n, b, p) \in Seq(Cells) /\ Len(Context(n, b, p)) = p
             /\ \A q \in 1 .. p : Context(n, b, p)[q] = IF q <= n THEN shown[q] ELSE b[q - n]
  <2>1. \A q \in 1 .. p : ~(q <= n) => b[q - n] \in Cells
    BY <1>1, ElementOfSeq
  <2>2. p \in Nat
    BY <1>1
  <2> QED
    BY <1>4, <2>1, <2>2 DEF Context
<1>6. row' = [p \in Positions |->
                IF p > n /\ p <= n + Len(b) THEN Context(n, b, p) ELSE row[p]]
  BY <1>3 DEF Forward
<1>7. \A p \in Positions : p > n /\ p <= n + Len(b) => p \in n + 1 .. n + Len(b)
  BY <1>1 DEF Positions
<1>8. \A p \in n + 1 .. n + Len(b) : p \in Positions /\ p > n /\ p <= n + Len(b)
  BY <1>1 DEF Positions
<1> QED
  BY <1>2, <1>5, <1>6, <1>7, <1>8

-----------------------------------------------------------------------------
(* Turns *)

\* An answer begins where the logits are those of all that has been shown.
LEMMA AnswerKeeps ==
    ASSUME IInv, NextTurn, NEW n \in Nat, NEW ngen \in NGen, Answer(n, ngen),
           1 <= n, n + 2 <= MaxT,
           shown' \in Seq(Tokens), Len(shown') = n, row'[n] = shown'
    PROVE  /\ /\ pc' \in {"idle", "pick"}
              /\ tail' \in BOOLEAN /\ done' \in BOOLEAN
              /\ len' \in Nat /\ left' \in Nat /\ k' \in Nat /\ turns' \in Nat
              /\ asked' \in Nat /\ from' \in Nat
              /\ draft' \in Seq(Vocab) /\ logits' \in Seq(Vocab)
              /\ ban' \in Vocab \cup {NoToken}
           /\ Idle' /\ Answering' /\ Phases' /\ Batch' /\ Dice'
<1>1. /\ MaxT \in Nat /\ GenReserve \in Nat /\ GenReserve >= 2 /\ ngen \in Nat /\ ngen # 0
      /\ NoToken \notin Vocab
  BY SpecDecodeAssumption
<1>2. /\ pc = "idle" /\ draft = <<>> /\ k = 0 /\ ~done /\ left = 0 /\ from = 0
      /\ ban = NoToken
  BY DEF IInv, Types, Idle, Phases, NextTurn
<1> DEFINE cur == Room(n, ngen)
<1>3. cur \in Int /\ (cur > 0 => n + cur + 2 <= MaxT)
  BY <1>1 DEF Room
<1>4. len' = n /\ tail' = FALSE /\ UNCHANGED <<ban, draft, k, done, greedy>>
  BY DEF Answer, NextTurn
<1>5. \/ /\ cur > 0 /\ pc' = "pick" /\ logits' = row'[n] /\ left' = cur /\ asked' = cur /\ from' = n
      \/ /\ ~(cur > 0) /\ pc' = "idle" /\ UNCHANGED <<logits, left, asked, from>>
  BY DEF Answer
<1> HIDE DEF cur
<1>6. /\ pc' \in {"idle", "pick"}
      /\ tail' \in BOOLEAN /\ done' \in BOOLEAN
      /\ len' \in Nat /\ left' \in Nat /\ k' \in Nat /\ turns' \in Nat
      /\ asked' \in Nat /\ from' \in Nat
      /\ draft' \in Seq(Vocab)
      /\ ban' \in Vocab \cup {NoToken}
  <2>1. /\ left \in Nat /\ asked \in Nat /\ from \in Nat /\ turns \in Nat
        /\ draft \in Seq(Vocab) /\ turns' = turns + 1 /\ done \in BOOLEAN
    BY DEF IInv, Types, NextTurn
  <2>2. /\ left' \in Nat /\ asked' \in Nat /\ from' \in Nat /\ turns' \in Nat
        /\ pc' \in {"idle", "pick"}
    BY <1>3, <1>5, <2>1
  <2> QED
    BY <1>2, <1>4, <2>1, <2>2
<1>7. logits' \in Seq(Vocab)
  <2>1. shown' \in Seq(Vocab)
    BY DEF Vocab
  <2> QED
    BY <2>1, <1>5 DEF IInv, Types
<1>8. Idle' /\ Answering'
  BY <1>1, <1>2, <1>3, <1>4, <1>5 DEF Idle, Answering
<1>9. Phases' /\ Batch'
  BY <1>2, <1>4, <1>5 DEF Phases, Batch
<1>10. Dice'
  <2>1. ~greedy => choice' = <<>>
    BY DEF Answer
  <2>2. DOMAIN (<<>>) = {}
    OBVIOUS
  <2> QED
    BY <1>4, <2>1, <2>2 DEF Dice
<1> QED
  BY <1>6, <1>7, <1>8, <1>9, <1>10

LEMMA LineKeeps ==
    ASSUME IInv, NEW ngen \in NGen, NEW p \in Lines, Line(p, ngen)
    PROVE  IInv'
<1> DEFINE keep == IF len + Len(p) + PromptReserve >= MaxT THEN 0 ELSE len
           n    == keep + Len(p)
<1>1. /\ MaxT \in Nat /\ PromptReserve \in Nat /\ PromptReserve >= 3 /\ MaxLine \in Nat
  BY SpecDecodeAssumption
<1>2. p \in Seq(Tokens) /\ Len(p) \in Nat /\ Len(p) >= 1
  BY <1>1 DEF Lines
<1>3. /\ pc = "idle" /\ len \in Nat /\ len <= Len(shown) /\ Len(shown) \in Nat
      /\ shown \in Seq(Tokens)
  BY LenProperties DEF IInv, Types, Idle, Line, NextTurn
<1>4. /\ all' = Write(keep, p) /\ Forward(keep, p) /\ shown' = SubSeq(shown, 1, keep) \o p
      /\ Answer(n, ngen) /\ NextTurn /\ Len(p) <= MaxT - PromptReserve
  BY DEF Line
<1>5. /\ keep \in 0 .. len /\ keep \in Nat /\ n \in Nat /\ 1 <= n /\ n + 3 <= MaxT
      /\ keep \in 0 .. Len(shown)
  BY <1>1, <1>2, <1>3, <1>4
<1>6. /\ SubSeq(shown, 1, keep) \in Seq(Tokens) /\ Len(SubSeq(shown, 1, keep)) = keep
      /\ \A q \in 1 .. keep : SubSeq(shown, 1, keep)[q] = shown[q]
  <2> HIDE DEF keep, n
  <2> QED
    BY <1>3, <1>5, PrefixFacts
<1>7. n = keep + Len(p)
  OBVIOUS
<1> HIDE DEF keep, n
<1>8. /\ shown' \in Seq(Tokens) /\ Len(shown') = n
      /\ \A q \in 1 .. n : shown'[q] = IF q <= keep THEN shown[q] ELSE p[q - keep]
  <2>1. /\ SubSeq(shown, 1, keep) \o p \in Seq(Tokens)
        /\ Len(SubSeq(shown, 1, keep) \o p) = keep + Len(p)
        /\ \A q \in 1 .. keep + Len(p) : (SubSeq(shown, 1, keep) \o p)[q] =
               IF q <= keep THEN SubSeq(shown, 1, keep)[q] ELSE p[q - keep]
    BY <1>2, <1>6, ConcatProperties
  <2>2. ASSUME NEW q \in 1 .. n
        PROVE  shown'[q] = IF q <= keep THEN shown[q] ELSE p[q - keep]
    BY <1>4, <1>5, <1>6, <1>7, <2>1
  <2> QED
    BY <1>4, <1>7, <2>1, <2>2
<1>9. /\ DOMAIN all' = Positions
      /\ \A q \in Positions : all'[q] \in Tokens \cup {NoToken}
      /\ \A q \in Positions : all'[q] = IF q > keep /\ q <= n THEN p[q - keep] ELSE all[q]
  <2>1. keep + Len(p) <= MaxT
    BY <1>1, <1>5, <1>7
  <2> QED
    BY <1>2, <1>4, <1>5, <1>7, <2>1, WriteFacts DEF IInv
<1>10. /\ DOMAIN row' = Positions
       /\ \A q \in Positions : row'[q] \in Seq(Cells)
       /\ \A q \in Positions : ~(q > keep /\ q <= n) => row'[q] = row[q]
       /\ \A q \in keep + 1 .. n :
             /\ Len(row'[q]) = q
             /\ \A i \in 1 .. q : row'[q][i] = IF i <= keep THEN shown[i] ELSE p[i - keep]
  <2>1. keep + Len(p) <= MaxT /\ p \in Seq(Cells)
    BY <1>1, <1>2, <1>5, <1>7 DEF Cells, Vocab
  <2> QED
    BY <1>3, <1>4, <1>5, <1>7, <2>1, ForwardFacts DEF IInv
<1>11. History'
  <2>1. ASSUME NEW q \in 1 .. n
        PROVE  all'[q] = shown'[q]
    <3>1. q \in Positions
      BY <1>1, <1>5 DEF Positions
    <3>2. q <= keep => all[q] = shown[q]
      BY <1>3, <1>5 DEF IInv, History
    <3> QED
      BY <1>5, <1>8, <1>9, <3>1, <3>2
  <2> QED
    BY <1>8, <2>1 DEF History
<1>12. ASSUME NEW q \in 1 .. n
       PROVE  Len(row'[q]) = q /\ \A i \in 1 .. q : row'[q][i] = shown'[i]
  <2>1. CASE q <= keep
    <3>1. q \in 1 .. len /\ q \in Positions /\ ~(q > keep /\ q <= n)
      BY <1>1, <1>3, <1>5, <2>1 DEF Positions
    <3>2. Len(row[q]) = q /\ \A i \in 1 .. q : row[q][i] = shown[i]
      BY <3>1 DEF IInv, Rows
    <3>3. \A i \in 1 .. q : shown'[i] = shown[i]
      BY <1>5, <1>8, <2>1
    <3> QED
      BY <1>10, <3>1, <3>2, <3>3
  <2>2. CASE ~(q <= keep)
    <3>1. q \in keep + 1 .. n
      BY <1>5, <2>2
    <3>2. \A i \in 1 .. q : i \in 1 .. n
      BY <1>5
    <3> QED
      BY <1>8, <1>10, <3>1, <3>2
  <2> QED
    BY <2>1, <2>2
<1>13. row'[n] = shown'
  <2>1. n \in 1 .. n /\ n \in Positions
    BY <1>1, <1>5 DEF Positions
  <2> QED
    BY <1>8, <1>10, <1>12, <2>1, SpelledOut
<1>14. len' = n
  BY <1>4 DEF Answer
<1>15. Rows'
  BY <1>12, <1>14 DEF Rows
<1>16. n + 2 <= MaxT
  BY <1>1, <1>5
<1>17. /\ pc' \in {"idle", "pick"}
       /\ tail' \in BOOLEAN /\ done' \in BOOLEAN
       /\ len' \in Nat /\ left' \in Nat /\ k' \in Nat /\ turns' \in Nat
       /\ asked' \in Nat /\ from' \in Nat
       /\ draft' \in Seq(Vocab) /\ logits' \in Seq(Vocab)
       /\ ban' \in Vocab \cup {NoToken}
       /\ Idle' /\ Answering' /\ Phases' /\ Batch' /\ Dice'
  BY <1>4, <1>5, <1>8, <1>13, <1>16, AnswerKeeps
<1>18. Types'
  BY <1>4, <1>8, <1>9, <1>10, <1>17 DEF Types, Cells, IInv, NextTurn, Positions
<1> QED
  BY <1>11, <1>15, <1>17, <1>18 DEF IInv

LEMMA MoreKeeps ==
    ASSUME IInv, NEW ngen \in NGen, More(ngen)
    PROVE  IInv'
<1> DEFINE n == IF tail THEN len + 1 ELSE len
<1>1. /\ n = Len(shown) /\ n \in Nat /\ 1 <= n /\ n + 2 <= MaxT /\ MaxT \in Nat
      /\ len \in Nat /\ n - 1 \in 0 .. len /\ len <= Len(shown) /\ shown \in Seq(Tokens)
  BY SpecDecodeAssumption DEF IInv, Types, Idle, More, NextTurn
<1>2. /\ Forward(n - 1, <<all[n]>>) /\ Answer(n, ngen) /\ NextTurn
      /\ all' = all /\ shown' = shown
  BY DEF More
<1> HIDE DEF n
<1> DEFINE b == <<all[n]>>
<1>3. b \in Seq(Cells) /\ Len(b) = 1 /\ b[1] = shown[n] /\ shown[n] \in Tokens
  <2>1. all[n] = shown[n]
    BY <1>1 DEF IInv, History
  <2>2. shown[n] \in Tokens
    BY <1>1, ElementOfSeq
  <2> QED
    BY <2>1, <2>2 DEF Cells, Vocab
<1>4. /\ DOMAIN row' = Positions
      /\ \A q \in Positions : row'[q] \in Seq(Cells)
      /\ \A q \in Positions : ~(q > n - 1 /\ q <= n - 1 + Len(b)) => row'[q] = row[q]
      /\ \A q \in n - 1 + 1 .. n - 1 + Len(b) :
            /\ Len(row'[q]) = q
            /\ \A i \in 1 .. q : row'[q][i] = IF i <= n - 1 THEN shown[i] ELSE b[i - (n - 1)]
  <2>1. n - 1 + Len(b) <= MaxT /\ Forward(n - 1, b)
    BY <1>1, <1>2, <1>3
  <2> HIDE DEF b
  <2> QED
    BY <1>1, <1>3, <2>1, ForwardFacts DEF IInv
<1> HIDE DEF b
<1>5. ASSUME NEW q \in 1 .. n
      PROVE  Len(row'[q]) = q /\ \A i \in 1 .. q : row'[q][i] = shown[i]
  <2>1. CASE q = n
    <3>1. q \in n - 1 + 1 .. n - 1 + Len(b)
      BY <1>1, <1>3, <2>1
    <3>2. \A i \in 1 .. n : i <= n - 1 \/ (i = n /\ i - (n - 1) = 1)
      BY <1>1
    <3> QED
      BY <1>3, <1>4, <2>1, <3>1, <3>2
  <2>2. CASE q # n
    <3>1. q \in 1 .. len /\ q \in Positions /\ ~(q > n - 1 /\ q <= n - 1 + Len(b))
      BY <1>1, <2>2 DEF Positions
    <3> QED
      BY <1>4, <3>1 DEF IInv, Rows
  <2> QED
    BY <2>1, <2>2
<1>6. row'[n] = shown'
  <2>1. n \in 1 .. n /\ n \in Positions
    BY <1>1 DEF Positions
  <2> QED
    BY <1>1, <1>2, <1>4, <1>5, <2>1, SpelledOut
<1>7. Rows' /\ History'
  BY <1>2, <1>5 DEF IInv, Rows, History, Answer
<1>8. /\ pc' \in {"idle", "pick"}
      /\ tail' \in BOOLEAN /\ done' \in BOOLEAN
      /\ len' \in Nat /\ left' \in Nat /\ k' \in Nat /\ turns' \in Nat
      /\ asked' \in Nat /\ from' \in Nat
      /\ draft' \in Seq(Vocab) /\ logits' \in Seq(Vocab)
      /\ ban' \in Vocab \cup {NoToken}
      /\ Idle' /\ Answering' /\ Phases' /\ Batch' /\ Dice'
  <2>1. shown' \in Seq(Tokens) /\ Len(shown') = n
    BY <1>1, <1>2
  <2> QED
    BY <1>1, <1>2, <1>6, <2>1, AnswerKeeps
<1>9. Types'
  BY <1>2, <1>4, <1>8 DEF Types, Cells, IInv, NextTurn, Positions
<1> QED
  BY <1>7, <1>8, <1>9 DEF IInv

LEMMA ResetKeeps ==
    ASSUME IInv, Reset
    PROVE  IInv'
<1>1. /\ pc = "idle" /\ turns' = turns + 1 /\ len' = 0 /\ tail' = FALSE
      /\ UNCHANGED <<greedy, pc, all, row, logits, ban, draft, k, done, left, asked, from, choice>>
  BY DEF Reset, NextTurn, arrays, loop
<1>2. shown' \in Seq(Tokens) /\ Len(shown') = 0
  BY EmptySeq DEF Reset
<1>3. Types'
  <2>1. turns' \in Nat
    BY <1>1 DEF IInv, Types
  <2> QED
    BY <1>1, <1>2, <2>1 DEF IInv, Types, Positions
<1>4. Idle' /\ Answering' /\ Phases'
  BY <1>1, <1>2, SpecDecodeAssumption DEF IInv, Types, Idle, Answering, Phases
<1>5. History' /\ Rows' /\ Batch' /\ Dice'
  BY <1>1, <1>2 DEF History, Rows, Batch, Dice
<1> QED
  BY <1>3, <1>4, <1>5 DEF IInv

-----------------------------------------------------------------------------
(* Decoding *)

\* A token is shown in the place of the history that is next.
LEMMA EmitFacts ==
    ASSUME IInv, Len(shown) + 1 <= MaxT, NEW t \in Tokens, Emit(Len(shown) + 1, t)
    PROVE  /\ DOMAIN all' = Positions
           /\ \A p \in Positions : all'[p] \in Tokens \cup {NoToken}
           /\ shown' \in Seq(Tokens) /\ Len(shown') = Len(shown) + 1
           /\ \A q \in 1 .. Len(shown) : shown'[q] = shown[q]
           /\ shown'[Len(shown) + 1] = t
           /\ History'
<1> DEFINE n == Len(shown)
<1>1. n \in Nat /\ shown \in Seq(Tokens) /\ MaxT \in Nat
  BY LenProperties, SpecDecodeAssumption DEF IInv, Types
<1>2. /\ shown' \in Seq(Tokens) /\ Len(shown') = n + 1
      /\ \A q \in 1 .. n : shown'[q] = shown[q]
      /\ shown'[n + 1] = t
  BY <1>1 DEF Emit
<1>3. all' = Write(n, <<t>>)
  BY <1>1 DEF Emit
<1>4. <<t>> \in Seq(Tokens) /\ Len(<<t>>) = 1 /\ <<t>>[1] = t
  OBVIOUS
<1>5. /\ DOMAIN all' = Positions
      /\ \A p \in Positions : all'[p] \in Tokens \cup {NoToken}
      /\ \A p \in Positions : all'[p] = IF p > n /\ p <= n + 1 THEN <<t>>[p - n] ELSE all[p]
  <2>1. n + Len(<<t>>) <= MaxT
    BY <1>4
  <2> HIDE DEF n
  <2> QED
    BY <1>1, <1>3, <1>4, <2>1, WriteFacts DEF IInv
<1>6. History'
  <2>1. ASSUME NEW p \in 1 .. n + 1
        PROVE  all'[p] = shown'[p]
    <3>1. p \in Positions
      BY <1>1 DEF Positions
    <3>2. CASE p = n + 1
      <4>1. p - n = 1 /\ p > n /\ p <= n + 1
        BY <1>1, <3>2
      <4> QED
        BY <1>2, <1>4, <1>5, <3>1, <3>2, <4>1
    <3>3. CASE p # n + 1
      <4>1. p \in 1 .. n /\ ~(p > n /\ p <= n + 1)
        BY <1>1, <3>3
      <4> QED
        BY <1>2, <1>5, <3>1, <4>1 DEF IInv, History
    <3> QED
      BY <3>2, <3>3
  <2> QED
    BY <1>2, <2>1 DEF History
<1> QED
  BY <1>2, <1>5, <1>6

\* An answer that ends leaves a tail behind if and only if the last token that was
\* shown has no row.
LEMMA FinishKeeps ==
    ASSUME IInv, pc # "idle", NEW n \in Nat, NEW rest \in Nat, Finish(n, rest),
           len' = n, greedy' = greedy, turns' = turns, from <= n, rest <= asked,
           Len(shown') \in {n, n + 1}, Len(shown') = from + asked - rest
    PROVE  /\ /\ pc' \in {"idle"}
              /\ tail' \in BOOLEAN /\ done' \in BOOLEAN /\ greedy' \in BOOLEAN
              /\ len' \in Nat /\ left' \in Nat /\ k' \in Nat /\ turns' \in Nat
              /\ asked' \in Nat /\ from' \in Nat
              /\ draft' \in Seq(Vocab) /\ logits' \in Seq(Vocab)
              /\ ban' \in Vocab \cup {NoToken}
           /\ Idle' /\ Answering' /\ Phases' /\ Batch' /\ Dice'
<1>1. /\ from \in Nat /\ asked \in Nat /\ from + asked + 2 <= MaxT /\ MaxT \in Nat
      /\ greedy \in BOOLEAN /\ turns \in Nat
  BY SpecDecodeAssumption DEF IInv, Types, Answering
<1>2. /\ pc' = "idle" /\ k' = 0 /\ left' = 0 /\ asked' = 0 /\ from' = 0
      /\ draft' = <<>> /\ ban' = NoToken /\ done' = FALSE
  BY DEF Finish, Return
<1>3. logits' \in Seq(Vocab) /\ draft' \in Seq(Vocab)
  BY EmptySeq DEF Finish, Return
<1>4. tail' = (asked - rest > 0 /\ asked - rest = n - from + 1)
  BY DEF Finish
<1>5. Len(shown') = IF tail' THEN n + 1 ELSE n
  <2>1. CASE Len(shown') = n + 1
    <3>1. asked - rest > 0 /\ asked - rest = n - from + 1
      BY <1>1, <2>1
    <3> QED
      BY <1>4, <2>1, <3>1
  <2>2. CASE Len(shown') = n
    <3>1. asked - rest # n - from + 1
      BY <1>1, <2>2
    <3> QED
      BY <1>4, <2>2, <3>1
  <2> QED
    BY <2>1, <2>2
<1>6. Idle' /\ Answering'
  BY <1>1, <1>2, <1>5 DEF Idle, Answering
<1>7. Phases' /\ Batch' /\ Dice'
  BY <1>2 DEF Phases, Batch, Dice
<1>8. tail' \in BOOLEAN /\ done' \in BOOLEAN /\ greedy' \in BOOLEAN
  BY <1>1, <1>2, <1>4
<1>9. /\ len' \in Nat /\ left' \in Nat /\ k' \in Nat /\ turns' \in Nat
      /\ asked' \in Nat /\ from' \in Nat /\ ban' \in Vocab \cup {NoToken}
  BY <1>1, <1>2
<1> QED
  BY <1>2, <1>3, <1>6, <1>7, <1>8, <1>9

LEMMA PickKeeps ==
    ASSUME IInv, NEW t \in Vocab, Pick(t)
    PROVE  IInv'
<1>1. /\ Len(shown) = len /\ left > 0 /\ left \in Nat
      /\ len \in Nat /\ asked \in Nat /\ from \in Nat /\ from <= len /\ left <= asked
      /\ len = from + asked - left /\ from + asked + 2 <= MaxT /\ MaxT \in Nat
  BY SpecDecodeAssumption DEF IInv, Types, Answering, Phases, Pick
<1>5. /\ pc = "pick" /\ logits = shown /\ shown \in Seq(Tokens)
      /\ draft = <<>> /\ k = 0 /\ ~done /\ ~tail
  BY DEF IInv, Types, Answering, Phases, Pick
<1>2. UNCHANGED <<greedy, len, row, turns>>
  BY DEF Pick
<1>3. CASE t = Stop
  <2>1. Finish(len, left) /\ all' = all /\ shown' = shown
    BY <1>3 DEF Pick
  <2>2. /\ /\ pc' \in {"idle"}
           /\ tail' \in BOOLEAN /\ done' \in BOOLEAN /\ greedy' \in BOOLEAN
           /\ len' \in Nat /\ left' \in Nat /\ k' \in Nat /\ turns' \in Nat
           /\ asked' \in Nat /\ from' \in Nat
           /\ draft' \in Seq(Vocab) /\ logits' \in Seq(Vocab)
           /\ ban' \in Vocab \cup {NoToken}
        /\ Idle' /\ Answering' /\ Phases' /\ Batch' /\ Dice'
    BY <1>1, <1>5, <1>2, <2>1, FinishKeeps
  <2>3. Types'
    BY <1>2, <2>1, <2>2 DEF IInv, Types, Positions
  <2>4. History' /\ Rows'
    BY <1>2, <2>1 DEF IInv, History, Rows
  <2> QED
    BY <2>2, <2>3, <2>4 DEF IInv
<1>4. CASE t # Stop
  <2>1. t \in Tokens /\ Emit(len + 1, t)
    BY <1>4 DEF Pick, Vocab
  <2>2. /\ DOMAIN all' = Positions
        /\ \A p \in Positions : all'[p] \in Tokens \cup {NoToken}
        /\ shown' \in Seq(Tokens) /\ Len(shown') = len + 1
        /\ \A q \in 1 .. len : shown'[q] = shown[q]
        /\ History'
    <3>1. Len(shown) + 1 <= MaxT /\ Emit(Len(shown) + 1, t)
      BY <1>1, <1>5, <2>1
    <3> QED
      BY <1>1, <1>5, <2>1, <3>1, EmitFacts
  <2>3. Rows'
    <3>1. ASSUME NEW p \in 1 .. len
          PROVE  Len(row[p]) = p /\ \A q \in 1 .. p : row[p][q] = shown'[q]
      <4>1. Len(row[p]) = p /\ \A q \in 1 .. p : row[p][q] = shown[q]
        BY <3>1 DEF IInv, Rows
      <4>2. \A q \in 1 .. p : q \in 1 .. len
        BY <1>1
      <4> QED
        BY <2>2, <4>1, <4>2
    <3> QED
      BY <1>2, <3>1 DEF Rows
  <2>4. CASE left = 1
    <3>1. Finish(len, 0)
      BY <1>4, <2>4 DEF Pick
    <3>2. /\ /\ pc' \in {"idle"}
             /\ tail' \in BOOLEAN /\ done' \in BOOLEAN /\ greedy' \in BOOLEAN
             /\ len' \in Nat /\ left' \in Nat /\ k' \in Nat /\ turns' \in Nat
             /\ asked' \in Nat /\ from' \in Nat
             /\ draft' \in Seq(Vocab) /\ logits' \in Seq(Vocab)
             /\ ban' \in Vocab \cup {NoToken}
          /\ Idle' /\ Answering' /\ Phases' /\ Batch' /\ Dice'
      <4>1. /\ pc # "idle" /\ 0 \in Nat /\ 0 <= asked
            /\ Len(shown') \in {len, len + 1} /\ Len(shown') = from + asked - 0
        BY <1>1, <1>5, <2>2, <2>4
      <4> QED
        BY <1>1, <1>5, <1>2, <3>1, <4>1, FinishKeeps
    <3>3. Types'
      BY <1>2, <2>2, <3>2 DEF IInv, Types, Positions
    <3> QED
      BY <2>2, <2>3, <3>2, <3>3 DEF IInv
  <2>5. CASE left # 1
    <3>1. /\ pc' = "draft" /\ left' = left - 1 /\ ban' = NoToken
          /\ UNCHANGED <<draft, k, done, asked, from, tail>>
      BY <1>4, <2>5 DEF Pick
    <3>2. logits' \in Seq(Vocab)
      BY <1>4, <2>5, EmptySeq DEF Pick
    <3>3. left' \in Nat /\ left' > 0
      BY <1>1, <1>5, <2>5, <3>1
    <3>4. Types'
      BY <1>2, <2>2, <3>1, <3>2, <3>3 DEF IInv, Types, Positions
    <3>5. Idle' /\ Answering' /\ Batch'
      <4>1. ~tail /\ 1 <= from
        BY <1>1, <1>5 DEF IInv, Answering
      <4>2. left' <= asked' /\ Len(shown') = from' + asked' - left' /\ from' <= len'
        BY <1>1, <1>2, <2>2, <3>1
      <4> QED
        BY <1>1, <1>5, <3>1, <4>1, <4>2 DEF Idle, Answering, Batch
    <3>6. Phases'
      BY <1>1, <1>5, <1>2, <2>2, <3>1, <3>3 DEF Phases
    <3>7. Dice'
      <4> SUFFICES ASSUME ~greedy, NEW c \in DOMAIN choice'
                   PROVE  c \in Seq(Tokens) /\ Len(c) < Len(shown')
        BY <1>2 DEF Dice
      <4>1. c \in DOMAIN choice \cup {shown}
        BY <1>1, <1>5 DEF Pick, Narrow
      <4>2. c \in Seq(Tokens) /\ (Len(c) < Len(shown) \/ c = shown)
        BY <1>1, <1>5, <4>1 DEF IInv, Dice
      <4> QED
        <5>1. Len(c) \in Nat
          BY <4>2, LenProperties
        <5> QED
          BY <1>1, <2>2, <4>2, <5>1
    <3> QED
      BY <2>2, <2>3, <3>4, <3>5, <3>6, <3>7 DEF IInv
  <2> QED
    BY <2>4, <2>5
<1> QED
  BY <1>3, <1>4

\* No more guesses are kept than there are, nor than fit behind the chosen token.
LEMMA KeptFacts ==
    ASSUME len \in Nat, left \in Nat, MaxT \in Nat, len + 1 <= MaxT, NEW n \in Nat
    PROVE  Kept(n) \in 0 .. n /\ len + 1 + Kept(n) <= MaxT
<1> DEFINE g == IF n > left THEN left ELSE n
           h == IF len + g + 2 > MaxT THEN MaxT - len - 2 ELSE g
<1>1. g \in 0 .. n
  OBVIOUS
<1> HIDE DEF g
<1>2. h \in Int /\ h <= n /\ len + 2 + h <= MaxT
  BY <1>1
<1>3. Kept(n) = IF h < 0 THEN 0 ELSE h
  BY DEF Kept, g
<1> HIDE DEF h
<1> QED
  BY <1>2, <1>3

LEMMA GuessKeeps ==
    ASSUME IInv, NEW d \in Drafts, Guess(d)
    PROVE  IInv'
<1> DEFINE m == Kept(Len(d))
           b == <<all[len + 1]>> \o draft'
<1>1. /\ Len(shown) = len + 1 /\ left \in Nat /\ len \in Nat /\ MaxT \in Nat /\ len + 3 <= MaxT
      /\ asked \in Nat /\ from \in Nat
  BY SpecDecodeAssumption DEF IInv, Types, Answering, Phases, Guess
<1>2. /\ pc = "draft" /\ shown \in Seq(Tokens) /\ k = 0 /\ ~done /\ ban = NoToken
  BY DEF IInv, Types, Answering, Phases, Guess
<1>3. d \in Seq(Vocab) /\ Len(d) \in Nat
  BY SpecDecodeAssumption DEF Drafts
<1>4. m \in 0 .. Len(d) /\ len + 1 + m <= MaxT
  <2>1. len + 1 <= MaxT
    BY <1>1
  <2> QED
    BY <1>1, <1>3, <2>1, KeptFacts
<1>5. /\ draft' = SubSeq(d, 1, m) /\ Forward(len, b) /\ pc' = "verify"
      /\ UNCHANGED <<greedy, len, all, logits, ban, k, done, left, asked, from, tail, shown,
                      choice, turns>>
  BY DEF Guess
<1> HIDE DEF m
<1>6. draft' \in Seq(Vocab) /\ Len(draft') = m
  BY <1>3, <1>4, <1>5, PrefixFacts
<1>7. /\ b \in Seq(Cells) /\ Len(b) = m + 1 /\ b[1] = shown[len + 1]
      /\ \A i \in 1 .. m + 1 : i # 1 => b[i] = draft'[i - 1]
  <2>1. all[len + 1] = shown[len + 1] /\ shown[len + 1] \in Cells
    BY <1>1, <1>2, ElementOfSeq DEF IInv, History, Cells, Vocab
  <2>2. <<all[len + 1]>> \in Seq(Cells) /\ draft' \in Seq(Cells)
    BY <1>6, <2>1 DEF Cells
  <2>3. Len(<<all[len + 1]>>) = 1 /\ <<all[len + 1]>>[1] = all[len + 1]
    OBVIOUS
  <2>4. /\ b \in Seq(Cells) /\ Len(b) = 1 + m
        /\ \A i \in 1 .. 1 + m :
              b[i] = IF i <= 1 THEN <<all[len + 1]>>[i] ELSE draft'[i - 1]
    BY <1>6, <2>2, <2>3, ConcatProperties
  <2>5. m \in Nat /\ 1 \in 1 .. 1 + m
    BY <1>3, <1>4
  <2> HIDE DEF b
  <2> QED
    BY <2>1, <2>3, <2>4, <2>5
<1> HIDE DEF b
<1>8. /\ DOMAIN row' = Positions
      /\ \A p \in Positions : row'[p] \in Seq(Cells)
      /\ \A p \in Positions : ~(p > len /\ p <= len + Len(b)) => row'[p] = row[p]
      /\ \A p \in len + 1 .. len + Len(b) :
            /\ Len(row'[p]) = p
            /\ \A q \in 1 .. p : row'[p][q] = IF q <= len THEN shown[q] ELSE b[q - len]
  <2>1. len \in 0 .. len /\ len + Len(b) <= MaxT /\ len <= Len(shown) /\ m \in Nat
    BY <1>1, <1>3, <1>4, <1>7
  <2> QED
    BY <1>5, <1>7, <2>1, ForwardFacts DEF IInv
<1>9. Types'
  BY <1>5, <1>6, <1>8 DEF IInv, Types, Positions, Cells
<1>10. Idle' /\ Answering' /\ History' /\ Dice'
  BY <1>2, <1>5 DEF IInv, Idle, Answering, History, Dice
<1>11. Phases'
  BY <1>1, <1>2, <1>3, <1>4, <1>5, <1>6 DEF Phases
<1>12. Rows'
  <2>1. ASSUME NEW p \in 1 .. len
        PROVE  row'[p] = row[p]
    <3>1. p \in Positions /\ ~(p > len /\ p <= len + Len(b))
      BY <1>1 DEF Positions
    <3> QED
      BY <1>8, <3>1
  <2> QED
    BY <1>5, <2>1 DEF IInv, Rows
<1>13. Batch'
  <2>1. ASSUME NEW p \in len + 1 .. len + 1 + m
        PROVE  /\ Len(row'[p]) = p
               /\ \A q \in 1 .. p :
                     row'[p][q] = IF q <= len + 1 THEN shown[q] ELSE draft'[q - len - 1]
    <3>1. p \in len + 1 .. len + Len(b)
      BY <1>1, <1>3, <1>4, <1>7
    <3>2. ASSUME NEW q \in 1 .. p
          PROVE  row'[p][q] = IF q <= len + 1 THEN shown[q] ELSE draft'[q - len - 1]
      <4>1. row'[p][q] = IF q <= len THEN shown[q] ELSE b[q - len]
        BY <1>8, <3>1
      <4>2. CASE q <= len
        BY <1>1, <4>1, <4>2
      <4>3. CASE q = len + 1
        <5>1. q - len = 1 /\ ~(q <= len)
          BY <1>1, <4>3
        <5> QED
          BY <1>1, <1>7, <4>1, <4>3, <5>1
      <4>4. CASE q > len + 1
        <5>1. q - len \in 1 .. m + 1 /\ q - len # 1 /\ ~(q <= len) /\ q - len - 1 = (q - len) - 1
          BY <1>1, <1>3, <1>4, <4>4
        <5>2. b[q - len] = draft'[q - len - 1]
          BY <1>7, <5>1
        <5> QED
          BY <1>1, <4>1, <4>4, <5>1, <5>2
      <4> QED
        BY <1>1, <4>2, <4>3, <4>4
    <3> QED
      BY <1>8, <3>1, <3>2
  <2>2. \A i \in 1 .. k' : shown'[len' + 1 + i] = draft'[i]
    BY <1>2, <1>5
  <2> QED
    BY <1>5, <1>6, <2>1, <2>2 DEF Batch
<1> QED
  BY <1>9, <1>10, <1>11, <1>12, <1>13 DEF IInv

\* While a batch is verified the rows agree with the display as far as it goes: the
\* guess that is next is checked in the context of all that has been shown.
LEMMA RowsAhead ==
    ASSUME IInv, pc \in {"verify", "advance"}
    PROVE  /\ \A p \in 1 .. len + 1 + k :
                 Len(row[p]) = p /\ \A q \in 1 .. p : row[p][q] = shown[q]
           /\ row[len + 1 + k] = shown
<1>1. /\ len \in Nat /\ k \in Nat /\ Len(draft) \in Nat /\ k <= Len(draft) /\ MaxT \in Nat
      /\ Len(shown) = len + 1 + k /\ len + 1 + Len(draft) <= MaxT
  BY LenProperties, SpecDecodeAssumption DEF IInv, Types, Phases
<1>2. /\ \A i \in 1 .. k : shown[len + 1 + i] = draft[i]
      /\ \A p \in len + 1 .. len + 1 + Len(draft) :
            /\ Len(row[p]) = p
            /\ \A q \in 1 .. p :
                  row[p][q] = IF q <= len + 1 THEN shown[q] ELSE draft[q - len - 1]
  BY DEF IInv, Batch
<1>3. ASSUME NEW p \in 1 .. len + 1 + k
      PROVE  Len(row[p]) = p /\ \A q \in 1 .. p : row[p][q] = shown[q]
  <2>1. CASE p <= len
    <3>1. p \in 1 .. len
      BY <1>1, <2>1
    <3> QED
      BY <3>1 DEF IInv, Rows
  <2>2. CASE p > len
    <3>1. p \in len + 1 .. len + 1 + Len(draft)
      BY <1>1, <2>2
    <3>2. ASSUME NEW q \in 1 .. p
          PROVE  row[p][q] = shown[q]
      <4>1. row[p][q] = IF q <= len + 1 THEN shown[q] ELSE draft[q - len - 1]
        BY <1>2, <3>1
      <4>2. CASE q > len + 1
        <5>1. q - len - 1 \in 1 .. k /\ len + 1 + (q - len - 1) = q /\ ~(q <= len + 1)
          BY <1>1, <4>2
        <5>2. shown[len + 1 + (q - len - 1)] = draft[q - len - 1]
          BY <1>2, <5>1
        <5> QED
          BY <4>1, <5>1, <5>2
      <4>3. CASE q <= len + 1
        BY <4>1, <4>3
      <4> QED
        BY <1>1, <4>2, <4>3
    <3> QED
      BY <1>2, <3>1, <3>2
  <2> QED
    BY <1>1, <2>1, <2>2
<1>4. row[len + 1 + k] = shown
  <2> DEFINE n == len + 1 + k
  <2>1. n \in 1 .. n /\ n \in Positions /\ Len(shown) = n
    BY <1>1 DEF Positions
  <2>2. row[n] \in Seq(Cells) /\ shown \in Seq(Tokens)
    BY <2>1 DEF IInv, Types, Cells
  <2>3. Len(row[n]) = n /\ \A q \in 1 .. n : row[n][q] = shown[q]
    BY <1>3, <2>1
  <2> HIDE DEF n
  <2>4. row[n] = shown
    BY <2>1, <2>2, <2>3, SpelledOut
  <2> QED
    BY <2>4 DEF n
<1> QED
  BY <1>3, <1>4

\* What holds while guesses are checked.
LEMMA CheckingFacts ==
    ASSUME IInv, Checking
    PROVE  /\ /\ len \in Nat /\ k \in Nat /\ left \in Nat /\ left > 0 /\ asked \in Nat
              /\ from \in Nat /\ from <= len /\ left <= asked /\ MaxT \in Nat
              /\ len + 1 + k = from + asked - left
              /\ k + 1 <= Len(draft) /\ Len(draft) \in Nat /\ len + 1 + Len(draft) <= MaxT
           /\ Len(shown) = len + 1 + k
           /\ pc = "verify" /\ ~done /\ ban = NoToken /\ ~tail /\ 1 <= from
           /\ shown \in Seq(Tokens) /\ draft \in Seq(Vocab) /\ Guessed \in Vocab
           /\ row[len + 1 + k] = shown
<1>1. pc = "verify" /\ k < Len(draft) /\ left > 0
  BY DEF Checking
<1>2. /\ len \in Nat /\ k \in Nat /\ left \in Nat /\ asked \in Nat /\ from \in Nat
      /\ shown \in Seq(Tokens) /\ draft \in Seq(Vocab) /\ Len(draft) \in Nat
      /\ MaxT \in Nat
  BY LenProperties, SpecDecodeAssumption DEF IInv, Types
<1>3. /\ Len(shown) = len + 1 + k /\ len + 1 + Len(draft) <= MaxT /\ ~done /\ ban = NoToken
  BY <1>1 DEF IInv, Phases
<1>4. /\ from <= len /\ left <= asked /\ Len(shown) = from + asked - left /\ ~tail /\ 1 <= from
  BY <1>1 DEF IInv, Answering
<1>5. k + 1 \in 1 .. Len(draft)
  BY <1>1, <1>2
<1>6. Guessed \in Vocab
  BY <1>2, <1>5, ElementOfSeq DEF Guessed
<1>7. row[len + 1 + k] = shown
  BY <1>1, RowsAhead
<1> QED
  BY <1>1, <1>2, <1>3, <1>4, <1>5, <1>6, <1>7

LEMMA AcceptKeeps ==
    ASSUME IInv, Accept
    PROVE  IInv'
<1>1. Checking /\ UNCHANGED <<greedy, len, row, logits, ban, draft, asked, from, tail, turns>>
  BY DEF Accept
<1>2. /\ len \in Nat /\ k \in Nat /\ left \in Nat /\ left > 0 /\ asked \in Nat
      /\ from \in Nat /\ from <= len /\ left <= asked /\ MaxT \in Nat
      /\ len + 1 + k = from + asked - left
      /\ k + 1 <= Len(draft) /\ Len(draft) \in Nat /\ len + 1 + Len(draft) <= MaxT
  BY <1>1, CheckingFacts
<1>3. /\ Len(shown) = len + 1 + k
      /\ pc = "verify" /\ ~done /\ ban = NoToken /\ ~tail /\ 1 <= from
      /\ shown \in Seq(Tokens) /\ draft \in Seq(Vocab) /\ Guessed \in Vocab
      /\ row[len + 1 + k] = shown
  BY <1>1, CheckingFacts
<1>4. CASE Guessed = Stop
  <2>1. done' = TRUE /\ pc' = "advance" /\ UNCHANGED <<all, shown, left, k>>
    BY <1>4 DEF Accept
  <2>2. Types'
    BY <1>1, <2>1 DEF IInv, Types, Positions
  <2>3. Idle' /\ Answering' /\ Dice'
    BY <1>1, <1>3, <2>1 DEF IInv, Idle, Answering, Dice
  <2>4. Phases'
    BY <1>1, <1>2, <1>3, <2>1 DEF IInv, Phases
  <2>5. History' /\ Rows' /\ Batch'
    BY <1>1, <1>3, <2>1 DEF IInv, History, Rows, Batch
  <2> QED
    BY <2>2, <2>3, <2>4, <2>5 DEF IInv
<1>5. CASE Guessed # Stop
  <2>1. /\ Emit(len + 2 + k, Guessed) /\ left' = left - 1 /\ k' = k + 1
        /\ pc' = pc /\ done' = done /\ Guessed \in Tokens
    BY <1>3, <1>5 DEF Accept, Vocab
  <2>2. /\ DOMAIN all' = Positions
        /\ \A p \in Positions : all'[p] \in Tokens \cup {NoToken}
        /\ shown' \in Seq(Tokens) /\ Len(shown') = Len(shown) + 1
        /\ \A q \in 1 .. len + 1 + k : shown'[q] = shown[q]
        /\ shown'[len + 2 + k] = Guessed
        /\ History'
    <3>1. len + 2 + k = Len(shown) + 1 /\ Len(shown) + 1 <= MaxT
      BY <1>2, <1>3
    <3>2. Emit(Len(shown) + 1, Guessed)
      BY <2>1, <3>1
    <3> QED
      BY <1>3, <2>1, <3>1, <3>2, EmitFacts
  <2>3. Len(shown') = len + 2 + k
    BY <1>2, <1>3, <2>2
  <2>4. Types'
    <3>1. left' \in Nat /\ k' \in Nat
      BY <1>2, <2>1
    <3> QED
      BY <1>1, <2>1, <2>2, <3>1 DEF IInv, Types, Positions
  <2>5. Idle' /\ Answering'
    <3>1. /\ left' <= asked' /\ from' <= len' /\ Len(shown') = from' + asked' - left'
          /\ from' + asked' + 2 <= MaxT
      BY <1>1, <1>2, <1>3, <2>1, <2>3 DEF IInv, Answering
    <3> QED
      BY <1>1, <1>3, <2>1, <3>1 DEF Idle, Answering
  <2>6. Phases'
    BY <1>1, <1>2, <1>3, <2>1, <2>3 DEF Phases
  <2>7. Rows'
    <3>1. ASSUME NEW p \in 1 .. len
          PROVE  Len(row[p]) = p /\ \A q \in 1 .. p : row[p][q] = shown'[q]
      <4>1. Len(row[p]) = p /\ \A q \in 1 .. p : row[p][q] = shown[q]
        BY DEF IInv, Rows
      <4>2. \A q \in 1 .. p : q \in 1 .. len + 1 + k
        BY <1>2
      <4> QED
        BY <2>2, <4>1, <4>2
    <3> QED
      BY <1>1, <3>1 DEF Rows
  <2>8. Batch'
    <3>1. ASSUME NEW i \in 1 .. k + 1
          PROVE  shown'[len + 1 + i] = draft[i]
      <4>1. CASE i = k + 1
        <5>1. len + 1 + i = len + 2 + k
          BY <1>2, <4>1
        <5> QED
          BY <2>2, <4>1, <5>1 DEF Guessed
      <4>2. CASE i # k + 1
        <5>1. i \in 1 .. k /\ len + 1 + i \in 1 .. len + 1 + k
          BY <1>2, <4>2
        <5> QED
          BY <1>3, <2>2, <5>1 DEF IInv, Batch
      <4> QED
        BY <4>1, <4>2
    <3>2. ASSUME NEW p \in len + 1 .. len + 1 + Len(draft)
          PROVE  /\ Len(row[p]) = p
                 /\ \A q \in 1 .. p :
                       row[p][q] = IF q <= len + 1 THEN shown'[q] ELSE draft[q - len - 1]
      <4>1. /\ Len(row[p]) = p
            /\ \A q \in 1 .. p :
                  row[p][q] = IF q <= len + 1 THEN shown[q] ELSE draft[q - len - 1]
        BY <1>3 DEF IInv, Batch
      <4>2. \A q \in 1 .. p : q <= len + 1 => q \in 1 .. len + 1 + k
        BY <1>2
      <4> QED
        BY <2>2, <4>1, <4>2
    <3> QED
      BY <1>1, <2>1, <3>1, <3>2 DEF Batch
  <2>9. Dice'
    <3> SUFFICES ASSUME ~greedy, NEW c \in DOMAIN choice'
                 PROVE  c \in Seq(Tokens) /\ Len(c) < Len(shown')
      BY <1>1 DEF Dice
    <3>1. c \in DOMAIN choice \cup {shown}
      BY <1>3 DEF Accept, Narrow
    <3>2. c \in Seq(Tokens) /\ (Len(c) < Len(shown) \/ c = shown)
      BY <1>3, <3>1 DEF IInv, Dice
    <3>3. Len(c) \in Nat
      BY <3>2, LenProperties
    <3> QED
      BY <1>2, <1>3, <2>3, <3>2, <3>3
  <2> QED
    BY <2>2, <2>4, <2>5, <2>6, <2>7, <2>8, <2>9 DEF IInv
<1> QED
  BY <1>4, <1>5

LEMMA RejectKeeps ==
    ASSUME IInv, Reject
    PROVE  IInv'
<1>1. /\ Checking /\ pc' = "advance"
      /\ UNCHANGED <<greedy, len, all, row, logits, draft, k, done, left, asked, from, tail,
                      shown, turns>>
  BY DEF Reject, arrays
<1>2. /\ Len(shown) = len + 1 + k
      /\ pc = "verify" /\ ~done /\ ban = NoToken /\ shown \in Seq(Tokens)
      /\ Guessed \in Vocab /\ left > 0 /\ row[len + 1 + k] = shown
  BY <1>1, CheckingFacts
<1>3. /\ greedy => ban' = ban
      /\ ~greedy => Narrow(shown, Vocab \ {Guessed}) /\ ban' = Guessed
  BY <1>2 DEF Reject
<1>4. Types'
  <2>1. ban' \in Vocab \cup {NoToken}
    BY <1>2, <1>3
  <2> QED
    BY <1>1, <2>1 DEF IInv, Types, Positions
<1>5. Idle' /\ Answering' /\ History' /\ Rows' /\ Batch'
  BY <1>1, <1>2 DEF IInv, Idle, Answering, History, Rows, Batch
<1>6. Phases'
  BY <1>1, <1>2 DEF IInv, Phases
<1>7. Dice'
  <2> SUFFICES ASSUME ~greedy, NEW c \in DOMAIN choice'
               PROVE  /\ c \in Seq(Tokens)
                      /\ \/ Len(c) < Len(shown)
                         \/ c = shown /\ Guessed \in Vocab /\ choice'[c] = Vocab \ {Guessed}
    BY <1>1, <1>3 DEF Dice
  <2>1. choice' = [x \in DOMAIN choice \cup {shown} |->
                      IF x = shown THEN Vocab \ {Guessed} ELSE choice[x]]
    BY <1>3 DEF Narrow
  <2>2. CASE c = shown
    BY <1>2, <2>1, <2>2
  <2>3. CASE c # shown
    <3>1. c \in DOMAIN choice
      BY <2>1, <2>3
    <3> QED
      BY <1>2, <2>3, <3>1 DEF IInv, Dice
  <2> QED
    BY <2>2, <2>3
<1> QED
  BY <1>4, <1>5, <1>6, <1>7 DEF IInv

LEMMA AdvanceKeeps ==
    ASSUME IInv, Advance
    PROVE  IInv'
<1>1. /\ pc \in {"verify", "advance"} /\ len' = len + 1 + k
      /\ UNCHANGED <<greedy, all, row, shown, choice, turns>>
  BY DEF Advance, arrays
<1>2. /\ len \in Nat /\ k \in Nat /\ left \in Nat /\ asked \in Nat /\ from \in Nat
      /\ from <= len /\ left <= asked /\ len + 1 + k = from + asked - left
  BY <1>1 DEF IInv, Types, Answering, Phases
<1>3. Len(shown) = len + 1 + k /\ shown \in Seq(Tokens) /\ ~tail /\ 1 <= from
  BY <1>1 DEF IInv, Types, Answering, Phases
<1>4. /\ \A p \in 1 .. len + 1 + k :
            Len(row[p]) = p /\ \A q \in 1 .. p : row[p][q] = shown[q]
      /\ row[len + 1 + k] = shown
  BY <1>1, RowsAhead
<1>5. History' /\ Rows'
  BY <1>1, <1>4 DEF IInv, History, Rows
<1>6. CASE done \/ left = 0
  <2>1. Finish(len + 1 + k, left)
    BY <1>6 DEF Advance
  <2>2. /\ pc # "idle" /\ len + 1 + k \in Nat /\ from <= len + 1 + k
        /\ Len(shown') \in {len + 1 + k, len + 1 + k + 1} /\ Len(shown') = from + asked - left
    BY <1>1, <1>2, <1>3
  <2>3. /\ /\ pc' \in {"idle"}
           /\ tail' \in BOOLEAN /\ done' \in BOOLEAN /\ greedy' \in BOOLEAN
           /\ len' \in Nat /\ left' \in Nat /\ k' \in Nat /\ turns' \in Nat
           /\ asked' \in Nat /\ from' \in Nat
           /\ draft' \in Seq(Vocab) /\ logits' \in Seq(Vocab)
           /\ ban' \in Vocab \cup {NoToken}
        /\ Idle' /\ Answering' /\ Phases' /\ Batch' /\ Dice'
    <3> DEFINE n == len + 1 + k
    <3> HIDE DEF n
    <3>1. Finish(n, left) /\ len' = n /\ n \in Nat /\ from <= n /\ Len(shown') \in {n, n + 1}
      BY <1>1, <2>1, <2>2 DEF n
    <3> QED
      BY <1>1, <1>2, <2>2, <3>1, FinishKeeps
  <2>4. Types'
    BY <1>1, <2>3 DEF IInv, Types, Positions
  <2> QED
    BY <1>5, <2>3, <2>4 DEF IInv
<1>7. CASE ~(done \/ left = 0)
  <2>1. /\ pc' = "pick" /\ logits' = shown /\ draft' = <<>> /\ k' = 0
        /\ UNCHANGED <<ban, done, left, asked, from, tail>>
    BY <1>4, <1>7 DEF Advance
  <2>2. logits' \in Seq(Vocab) /\ draft' \in Seq(Vocab)
    <3>1. shown \in Seq(Vocab)
      BY <1>3 DEF Vocab
    <3> QED
      BY <2>1, <3>1, EmptySeq
  <2>3. len' \in Nat /\ k' \in Nat /\ left' > 0 /\ from' <= len'
    BY <1>1, <1>2, <1>7, <2>1
  <2>4. Types'
    BY <1>1, <2>1, <2>2, <2>3 DEF IInv, Types, Positions
  <2>5. Idle' /\ Answering' /\ Batch' /\ Dice'
    BY <1>1, <1>7, <2>1, <2>3 DEF IInv, Idle, Answering, Batch, Dice
  <2>6. Phases'
    BY <1>1, <1>3, <1>7, <2>1, <2>3 DEF Phases
  <2> QED
    BY <1>5, <2>4, <2>5, <2>6 DEF IInv
<1> QED
  BY <1>6, <1>7

-----------------------------------------------------------------------------
(* The invariant, and what follows from it *)

LEMMA InitIInv == Init => IInv
<1> SUFFICES ASSUME Init PROVE IInv
  OBVIOUS
<1>1. /\ pc = "idle" /\ greedy \in BOOLEAN /\ len = 0 /\ ban = NoToken /\ k = 0 /\ done = FALSE
      /\ left = 0 /\ asked = 0 /\ from = 0 /\ tail = FALSE /\ turns = 0
      /\ all = [p \in Positions |-> NoToken] /\ row = [p \in Positions |-> <<>>]
  BY DEF Init
<1>2. /\ shown \in Seq(Tokens) /\ Len(shown) = 0
      /\ logits \in Seq(Vocab) /\ draft \in Seq(Vocab) /\ draft = <<>>
  BY EmptySeq DEF Init
<1>3. \A p \in Positions : row[p] \in Seq(Vocab \cup {NoToken})
  BY <1>1, EmptySeq
<1>4. MaxT \in Nat /\ 2 <= MaxT
  BY SpecDecodeAssumption
<1>5. Types
  <2>1. /\ len \in Nat /\ left \in Nat /\ k \in Nat /\ turns \in Nat
        /\ asked \in Nat /\ from \in Nat /\ ban \in Vocab \cup {NoToken}
    BY <1>1
  <2> QED
    BY <1>1, <1>2, <1>3, <2>1 DEF Types
<1>6. Idle /\ Answering /\ Phases
  BY <1>1, <1>2, <1>4 DEF Idle, Answering, Phases
<1>7. History /\ Rows /\ Batch /\ Dice
  BY <1>1, <1>2 DEF History, Rows, Batch, Dice
<1> QED
  BY <1>5, <1>6, <1>7 DEF IInv

LEMMA NextIInv == IInv /\ [Next]_vars => IInv'
<1> SUFFICES ASSUME IInv, [Next]_vars PROVE IInv'
  OBVIOUS
<1>1. CASE Turn
  BY <1>1, LineKeeps, MoreKeeps, ResetKeeps DEF Turn
<1>2. CASE Decode
  BY <1>2, PickKeeps, GuessKeeps, AcceptKeeps, RejectKeeps, AdvanceKeeps DEF Decode
<1>3. CASE UNCHANGED vars
  <2>1. UNCHANGED <<pc, greedy, len, all, row, logits, ban, draft, k, done, left, asked, from,
                    tail, shown, choice, turns>>
    BY <1>3 DEF vars, arrays, loop
  <2>2. Types'
    BY <2>1 DEF IInv, Types, Positions
  <2>3. /\ Idle' /\ Answering' /\ Phases' /\ History' /\ Rows' /\ Batch' /\ Dice'
    BY <2>1 DEF IInv, Idle, Answering, Phases, History, Rows, Batch, Dice
  <2> QED
    BY <2>2, <2>3 DEF IInv
<1> QED
  BY <1>1, <1>2, <1>3 DEF Next

THEOREM SpecIInv == Spec => []IInv
  BY InitIInv, NextIInv, PTL DEF Spec

\* Nothing is written beyond the arrays, whatever the reserves and the draft length.
THEOREM SpecTypeOK == Spec => []TypeOK
<1>1. IInv => TypeOK
  <2> SUFFICES ASSUME IInv PROVE TypeOK
    OBVIOUS
  <2>1. len \in Nat /\ MaxT \in Nat /\ asked \in Nat /\ from \in Nat /\ left \in Nat
    BY SpecDecodeAssumption DEF IInv, Types
  <2>2. len \in 0 .. MaxT /\ from \in 0 .. MaxT
    <3>1. CASE pc = "idle"
      BY <2>1, <3>1 DEF IInv, Idle
    <3>2. CASE pc # "idle"
      <4>1. len <= Len(shown)
        BY <2>1, <3>2 DEF IInv, Types, Phases
      <4>2. from <= len /\ Len(shown) = from + asked - left /\ from + asked + 2 <= MaxT
        BY <3>2 DEF IInv, Answering
      <4> QED
        BY <2>1, <4>1, <4>2
    <3> QED
      BY <3>1, <3>2
  <2>3. logits \in Seq(Vocab \cup {NoToken})
    BY DEF IInv, Types
  <2> QED
    BY <2>1, <2>2, <2>3 DEF IInv, Types, TypeOK
<1> QED
  BY <1>1, SpecIInv, PTL

\* The rows that count are those of what was shown.
THEOREM SpecRowsMatchShown == Spec => []RowsMatchShown
<1>1. IInv => RowsMatchShown
  <2> SUFFICES ASSUME IInv PROVE RowsMatchShown
    OBVIOUS
  <2>1. len \in Nat /\ k \in Nat /\ Len(shown) \in Nat /\ MaxT \in Nat /\ shown \in Seq(Tokens)
    BY LenProperties, SpecDecodeAssumption DEF IInv, Types
  <2>2. len <= Len(shown) /\ len <= MaxT
    <3>1. CASE pc = "idle"
      BY <2>1, <3>1 DEF IInv, Idle
    <3>2. CASE pc # "idle"
      <4>1. len <= Len(shown)
        BY <2>1, <3>2 DEF IInv, Types, Phases
      <4>2. /\ from \in Nat /\ asked \in Nat /\ left \in Nat
            /\ Len(shown) = from + asked - left /\ from + asked + 2 <= MaxT
        BY <3>2 DEF IInv, Answering, Types
      <4> QED
        BY <2>1, <4>1, <4>2
    <3> QED
      BY <3>1, <3>2
  <2>3. ASSUME NEW p \in 1 .. len
        PROVE  row[p] = SubSeq(shown, 1, p)
    <3>1. p \in Positions /\ p \in 0 .. Len(shown) /\ row[p] \in Seq(Cells)
      BY <2>1, <2>2 DEF Positions, IInv, Types, Cells
    <3>2. Len(row[p]) = p /\ \A q \in 1 .. p : row[p][q] = shown[q]
      BY DEF IInv, Rows
    <3>3. /\ SubSeq(shown, 1, p) \in Seq(Tokens) /\ Len(SubSeq(shown, 1, p)) = p
          /\ \A q \in 1 .. p : SubSeq(shown, 1, p)[q] = shown[q]
      BY <2>1, <3>1, PrefixFacts
    <3> DEFINE s == SubSeq(shown, 1, p)
    <3>4. /\ s \in Seq(Tokens) /\ Len(row[p]) = Len(s)
          /\ \A q \in 1 .. Len(s) : row[p][q] = s[q]
      BY <3>2, <3>3
    <3> HIDE DEF s
    <3>5. row[p] = s
      BY <3>1, <3>4, SpelledOut
    <3> QED
      BY <3>5 DEF s
  <2>4. pc = "idle" => Len(shown) = IF tail THEN len + 1 ELSE len
    BY DEF IInv, Idle
  <2> QED
    BY <2>2, <2>3, <2>4 DEF RowsMatchShown, IInv, History
<1> QED
  BY <1>1, SpecIInv, PTL

-----------------------------------------------------------------------------
(* Speculation is lossless: every step is one of plain decoding, or none *)

\* Turns ask, or go on from what has been shown.
LEMMA TurnIsPlain ==
    ASSUME IInv, IInv', Turn
    PROVE  Plain!Ask \/ Plain!More
<1>1. (IF done THEN 0 ELSE left) = 0 /\ (IF done' THEN 0 ELSE left') \in Nat
  BY DEF IInv, Types, Idle, Phases, Turn, Line, More, Reset, NextTurn
<1>2. shown' \in Seq(Tokens)
  BY DEF IInv, Types
<1>3. choice' = choice \/ choice' = <<>>
  BY DEF Turn, Line, More, Reset, Answer
<1> QED
  BY <1>1, <1>2, <1>3 DEF Plain!Ask, Plain!Redraw

\* What the dice, or the model, may still say to what has been shown.
LEMMA PickedMay ==
    ASSUME IInv, pc = "pick"
    PROVE  Picked \subseteq May(shown)
<1>1. logits = shown /\ ~done
  BY DEF IInv, Phases
<1>2. CASE greedy
  BY <1>1, <1>2 DEF Picked
<1>3. CASE ~greedy
  <2>1. Picked = Vocab \ {ban}
    BY <1>3 DEF Picked
  <2>2. CASE shown \in DOMAIN choice
    <3>1. Len(shown) < Len(shown) \/ choice[shown] = Vocab \ {ban}
      BY <1>1, <1>3, <2>2 DEF IInv, Dice
    <3>2. ~(Len(shown) < Len(shown))
      BY LenProperties DEF IInv, Types
    <3> QED
      BY <2>1, <2>2, <3>1, <3>2 DEF May
  <2>3. CASE shown \notin DOMAIN choice
    BY <2>1, <2>3 DEF May
  <2> QED
    BY <2>2, <2>3
<1> QED
  BY <1>2, <1>3

\* While sampled guesses are checked, no dice have been thrown yet for what is next.
LEMMA Unthrown ==
    ASSUME IInv, pc = "verify", ~greedy
    PROVE  May(shown) = Vocab
<1>1. ban = NoToken /\ ~done
  BY DEF IInv, Phases
<1>2. ban \notin Vocab
  BY <1>1, SpecDecodeAssumption
<1>3. ~(Len(shown) < Len(shown))
  BY LenProperties DEF IInv, Types
<1>4. shown \notin DOMAIN choice
  BY <1>1, <1>2, <1>3 DEF IInv, Dice
<1> QED
  BY <1>4 DEF May

LEMMA PickIsPlain ==
    ASSUME IInv, NEW t \in Vocab, Pick(t)
    PROVE  Plain!Show \/ Plain!EndOfAnswer
<1>1. pc = "pick" /\ logits = shown /\ ~done /\ left > 0 /\ left \in Nat /\ done \in BOOLEAN
  BY DEF IInv, Types, Phases, Pick
<1>2. t \in May(shown) /\ Narrow(shown, {t})
  BY <1>1, PickedMay DEF Pick
<1>3. t \in Plain!May(shown) /\ Plain!Narrow(shown, {t})
  BY <1>2 DEF May, Narrow, Plain!May, Plain!Narrow, Vocab, Plain!Vocab
<1>4. CASE t = Stop
  <2>1. (IF done' THEN 0 ELSE left') = 0 /\ shown' = shown
    BY <1>4 DEF Pick, Finish, Return
  <2> QED
    BY <1>1, <1>3, <1>4, <2>1 DEF Plain!EndOfAnswer
<1>5. CASE t # Stop
  <2>1. t \in Tokens /\ shown' = Append(shown, t)
    BY <1>5 DEF Pick, Vocab, Emit
  <2>2. \E x \in Plain!May(shown) \cap Tokens :
           shown' = Append(shown, x) /\ Plain!Narrow(shown, {x})
    BY <1>3, <2>1
  <2>3. CASE left = 1
    <3>1. (IF done' THEN 0 ELSE left') = 0
      BY <1>5, <2>3 DEF Pick, Finish, Return
    <3>2. /\ (IF done THEN 0 ELSE left) > 0
          /\ (IF done' THEN 0 ELSE left') = (IF done THEN 0 ELSE left) - 1
      BY <1>1, <2>3, <3>1
    <3> QED
      BY <2>2, <3>2 DEF Plain!Show
  <2>4. CASE left # 1
    <3>1. done' = done /\ left' = left - 1
      BY <1>5, <2>4 DEF Pick
    <3>2. /\ (IF done THEN 0 ELSE left) > 0
          /\ (IF done' THEN 0 ELSE left') = (IF done THEN 0 ELSE left) - 1
      BY <1>1, <3>1
    <3> QED
      BY <2>2, <3>2 DEF Plain!Show
  <2> QED
    BY <2>3, <2>4
<1> QED
  BY <1>4, <1>5

LEMMA AcceptIsPlain ==
    ASSUME IInv, Accept
    PROVE  Plain!Show \/ Plain!EndOfAnswer
<1>1. /\ pc = "verify" /\ ~done /\ left > 0 /\ left \in Nat /\ Guessed \in Vocab
      /\ row[len + 1 + k] = shown
  BY CheckingFacts DEF Accept
<1>2. Guessed \in May(shown) /\ Narrow(shown, {Guessed})
  BY <1>1, Unthrown DEF Accept
<1>3. Guessed \in Plain!May(shown) /\ Plain!Narrow(shown, {Guessed})
  BY <1>2 DEF May, Narrow, Plain!May, Plain!Narrow, Vocab, Plain!Vocab
<1>4. CASE Guessed = Stop
  <2>1. done' = TRUE /\ shown' = shown
    BY <1>4 DEF Accept
  <2> QED
    BY <1>1, <1>3, <1>4, <2>1 DEF Plain!EndOfAnswer
<1>5. CASE Guessed # Stop
  <2>1. Guessed \in Tokens /\ shown' = Append(shown, Guessed) /\ left' = left - 1 /\ done' = done
    BY <1>1, <1>5 DEF Accept, Vocab, Emit
  <2> QED
    BY <1>1, <1>3, <2>1 DEF Plain!Show
<1> QED
  BY <1>4, <1>5

LEMMA RejectIsPlain ==
    ASSUME IInv, Reject
    PROVE  Plain!Think
<1>1. /\ pc = "verify" /\ ~done /\ left > 0 /\ Guessed \in Vocab /\ shown \in Seq(Tokens)
      /\ row[len + 1 + k] = shown /\ Len(shown) = len + 1 + k /\ len \in Nat /\ k \in Nat
  BY CheckingFacts DEF Reject
<1>2. shown' = shown /\ left' = left /\ done' = done
  BY DEF Reject
<1>3. \E S \in SUBSET May(shown) : S # {} /\ Narrow(shown, S)
  <2>1. CASE greedy
    <3>1. PICK t \in May(shown) \ {Guessed} : Narrow(shown, {t})
      BY <1>1, <2>1 DEF Reject
    <3> QED
      BY <3>1
  <2>2. CASE ~greedy
    <3>1. Narrow(shown, Vocab \ {Guessed})
      BY <1>1, <2>2 DEF Reject
    <3>2. May(shown) = Vocab
      BY <1>1, <2>2, Unthrown
    <3>3. shown[1] \in Tokens
      <4>1. 1 \in 1 .. Len(shown)
        BY <1>1
      <4> QED
        BY <1>1, <4>1, ElementOfSeq
    <3>4. Vocab \ {Guessed} # {}
      BY <3>3, SpecDecodeAssumption DEF Vocab
    <3> QED
      BY <3>1, <3>2, <3>4
  <2> QED
    BY <2>1, <2>2
<1>4. \E S \in SUBSET Plain!May(shown) : S # {} /\ Plain!Narrow(shown, S)
  BY <1>3 DEF May, Narrow, Plain!May, Plain!Narrow, Vocab, Plain!Vocab
<1> QED
  BY <1>1, <1>2, <1>4 DEF Plain!Think

LEMMA SilentIsPlain ==
    ASSUME IInv, (\E d \in Drafts : Guess(d)) \/ Advance \/ UNCHANGED vars
    PROVE  UNCHANGED Plain!vars
<1>1. CASE (\E d \in Drafts : Guess(d)) \/ UNCHANGED vars
  BY <1>1 DEF Guess, vars, loop, Plain!vars
<1>2. CASE Advance
  <2>1. shown' = shown /\ choice' = choice
    BY <1>2 DEF Advance
  <2>2. CASE done \/ left = 0
    BY <1>2, <2>1, <2>2 DEF Advance, Finish, Return, Plain!vars
  <2>3. CASE ~(done \/ left = 0)
    BY <1>2, <2>1, <2>3 DEF Advance, Plain!vars
  <2> QED
    BY <2>2, <2>3
<1> QED
  BY <1>1, <1>2

\* Speculative decoding implements plain decoding, for any vocabulary and any guesses.
THEOREM SpecPlainSpec == Spec => PlainSpec
<1>1. Init => Plain!Init
  BY DEF Init, Plain!Init
<1>2. IInv /\ IInv' /\ [Next]_vars => [Plain!Next]_(Plain!vars)
  <2> SUFFICES ASSUME IInv, IInv', [Next]_vars
               PROVE  Plain!Next \/ UNCHANGED Plain!vars
    OBVIOUS
  <2>1. CASE Turn
    BY <2>1, TurnIsPlain DEF Plain!Next
  <2>2. CASE Decode
    BY <2>2, PickIsPlain, AcceptIsPlain, RejectIsPlain, SilentIsPlain DEF Decode, Plain!Next
  <2>3. CASE UNCHANGED vars
    BY <2>3, SilentIsPlain
  <2> QED
    BY <2>1, <2>2, <2>3 DEF Next
<1> QED
  BY <1>1, <1>2, SpecIInv, PTL DEF Spec, PlainSpec, Plain!Spec
=============================================================================
