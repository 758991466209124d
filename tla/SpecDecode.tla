----------------------------- MODULE SpecDecode -----------------------------
(***************************************************************************)
(* Self-speculative decoding of c/glm.c (spec_decode), inside the turns of *)
(* the serve loop that carry a conversation on: a line, :more, reset.      *)
(*                                                                         *)
(* Each forward pass computes the KV rows of the token just chosen and of  *)
(* up to MaxDraft guesses; the guesses the model agrees with are shown     *)
(* without a pass of their own.  One position counter, len, has to keep    *)
(* the KV rows, the history array, the logits and the display together     *)
(* through rejected guesses, stop tokens in the middle of a batch and      *)
(* answers that are cut short.                                             *)
(*                                                                         *)
(* Positions are counted from 1 (the code's are from 0).  A KV row is the  *)
(* context it was computed from: its own token after those of the rows     *)
(* before it that were there.  Guesses come from a grammar, the MTP head   *)
(* or an n-gram match; here they are any tokens.                           *)
(***************************************************************************)
EXTENDS Integers, Sequences

CONSTANTS
    Tokens, Stop,
    NoToken,         \* in arrays that are not filled yet; no ban
    MaxT,            \* maxctx, max_t
    MaxDraft,        \* the largest of g_draft and g_gr_max
    PromptReserve,   \* g_draft + 8
    GenReserve,      \* g_draft + 2
    NGen,            \* the values NGEN may have
    MaxLine, MaxTurns   \* bounds of the exploration

Vocab == Tokens \cup {Stop}

ASSUME SpecDecodeAssumption ==
    /\ Stop \notin Tokens /\ NoToken \notin Vocab
    /\ MaxT \in Nat /\ MaxDraft \in Nat
    /\ GenReserve \in Nat /\ GenReserve >= 2
    /\ PromptReserve \in Nat /\ PromptReserve > GenReserve /\ PromptReserve < MaxT
    /\ NGen \subseteq Nat \ {0}
    /\ MaxLine \in Nat /\ MaxTurns \in Nat

VARIABLES
    pc,       \* idle, pick, draft, verify, advance
    greedy,   \* g_temp <= 0
    len,      \* kv, sc->len: positions that have been forwarded
    all,      \* sc->hist
    row,      \* the KV rows
    logits,   \* the context of the logits at hand
    ban,      \* carry_ban
    draft, k, done,
    left,     \* n_new - emitted
    asked,    \* n_new
    from,     \* len when the answer began
    tail,     \* sc->tail
    shown,    \* what emit() has displayed, and the lines it was asked
    choice,   \* the model, or the dice (see PlainDecode)
    turns

arrays == <<all, row>>
loop   == <<logits, ban, draft, k, done, left, asked, from>>
vars   == <<pc, greedy, len, arrays, loop, tail, shown, choice, turns>>

Positions == 1 .. MaxT

Lines == UNION {[1 .. n -> Tokens] : n \in 1 .. MaxLine}
Drafts == UNION {[1 .. n -> Vocab] : n \in 0 .. MaxDraft}

May(context) == IF context \in DOMAIN choice THEN choice[context] ELSE Vocab
Narrow(context, S) ==
    choice' = [x \in DOMAIN choice \cup {context} |-> IF x = context THEN S ELSE choice[x]]

-----------------------------------------------------------------------------
(* Forwarding *)

\* The context of position p when `batch` is forwarded at n + 1, n + 2, ...
Context(n, batch, p) == [q \in 1 .. p |-> IF q <= n THEN row[q][q] ELSE batch[q - n]]

\* step(), step_all(): the rows of a batch, each attending to those before it.
Forward(n, batch) ==
    row' = [p \in DOMAIN row \cup n + 1 .. n + Len(batch) |->
               IF p > n /\ p <= n + Len(batch) THEN Context(n, batch, p) ELSE row[p]]

Write(n, tokens) ==
    [p \in DOMAIN all \cup n + 1 .. n + Len(tokens) |->
        IF p > n /\ p <= n + Len(tokens) THEN tokens[p - n] ELSE all[p]]

-----------------------------------------------------------------------------
Init ==
    /\ pc = "idle" /\ greedy \in BOOLEAN
    /\ len = 0
    /\ all = [p \in Positions |-> NoToken] /\ row = [p \in Positions |-> <<>>]
    /\ logits = <<>> /\ ban = NoToken /\ draft = <<>> /\ k = 0 /\ done = FALSE
    /\ left = 0 /\ asked = 0 /\ from = 0
    /\ tail = FALSE
    /\ shown = <<>> /\ choice = <<>>
    /\ turns = 0

-----------------------------------------------------------------------------
(* Turns *)

Room(n, ngen) == IF n + ngen + GenReserve >= MaxT THEN MaxT - n - GenReserve ELSE ngen

\* spec_decode() is called with n tokens in the KV, or not at all without room.
Answer(n, ngen) ==
    LET cur == Room(n, ngen) IN
    /\ len' = n
    /\ tail' = FALSE
    /\ IF cur > 0
       THEN pc' = "pick" /\ logits' = row'[n] /\ left' = cur /\ asked' = cur /\ from' = n
       ELSE pc' = "idle" /\ UNCHANGED <<logits, left, asked, from>>
    /\ choice' = IF greedy THEN choice ELSE <<>>
    /\ UNCHANGED <<ban, draft, k, done>>

NextTurn == pc = "idle" /\ turns < MaxTurns /\ turns' = turns + 1 /\ UNCHANGED greedy

\* A line goes behind what has been forwarded (and over a token that NGEN left
\* unforwarded); if it does not fit, the conversation starts over.
Line(p, ngen) ==
    LET keep == IF len + Len(p) + PromptReserve >= MaxT THEN 0 ELSE len IN
    /\ NextTurn
    /\ Len(p) <= MaxT - PromptReserve
    /\ all' = Write(keep, p)
    /\ Forward(keep, p)
    /\ shown' = SubSeq(shown, 1, keep) \o p
    /\ Answer(keep + Len(p), ngen)

\* Mutant of More: the last position is always forwarded again.
MoreRepicks(ngen) ==
    /\ NextTurn
    /\ len >= 1
    /\ Forward(len - 1, <<all[len]>>)
    /\ Answer(len, ngen)
    /\ UNCHANGED <<all, shown>>

\* :more forwards the token that was shown and not forwarded; if there is none it
\* forwards the last one again, for its logits.
More(ngen) ==
    LET n == IF tail THEN len + 1 ELSE len IN
    /\ NextTurn
    /\ len >= 1
    /\ Forward(n - 1, <<all[n]>>)
    /\ Answer(n, ngen)
    /\ UNCHANGED <<all, shown>>

Reset ==
    /\ NextTurn
    /\ len' = 0 /\ tail' = FALSE
    /\ shown' = <<>>
    /\ UNCHANGED <<pc, arrays, loop, choice>>

-----------------------------------------------------------------------------
(* spec_decode() *)

\* What spec_decode() leaves behind: len, the arrays, and what it has emitted.
Return ==
    /\ pc' = "idle"
    /\ logits' = <<>> /\ ban' = NoToken /\ draft' = <<>> /\ k' = 0 /\ done' = FALSE
    /\ left' = 0 /\ asked' = 0 /\ from' = 0

\* Mutant of Finish: an answer that the budget ends always leaves a tail.
FinishWithTail(n, rest) == Return /\ tail' = (rest = 0)

\* One token more was shown than was forwarded: the last one is a tail.
Finish(n, rest) ==
    LET prod == asked - rest IN Return /\ tail' = (prod > 0 /\ prod = n - from + 1)

Emit(position, t) ==
    /\ all' = Write(position - 1, <<t>>)
    /\ shown' = Append(shown, t)

\* pick_tok() looks at the logits: the argmax, or a throw of the dice.
Picked == IF greedy THEN May(logits) ELSE Vocab \ {ban}

Pick(t) ==
    /\ pc = "pick"
    /\ t \in Picked
    /\ Narrow(logits, {t})
    /\ IF t = Stop
       THEN Finish(len, left) /\ UNCHANGED <<all, shown>>
       ELSE /\ Emit(len + 1, t)
            /\ IF left = 1
               THEN Finish(len, 0)
               ELSE /\ pc' = "draft" /\ left' = left - 1 /\ logits' = <<>> /\ ban' = NoToken
                    /\ UNCHANGED <<draft, k, done, asked, from, tail>>
    /\ UNCHANGED <<greedy, len, row, turns>>

\* How many of n guesses are kept: no more than may be shown, nor than fit.
Kept(n) ==
    LET g == IF n > left THEN left ELSE n
        h == IF len + g + 2 > MaxT THEN MaxT - len - 2 ELSE g
    IN  IF h < 0 THEN 0 ELSE h

\* The guesses, and the pass over the token just shown and all of them.
Guess(d) ==
    /\ pc = "draft"
    /\ draft' = SubSeq(d, 1, Kept(Len(d)))
    /\ Forward(len, <<all[len + 1]>> \o draft')
    /\ pc' = "verify"
    /\ UNCHANGED <<greedy, len, all, logits, ban, k, done, left, asked, from, tail, shown, choice, turns>>

Guessed == draft[k + 1]
Checking == pc = "verify" /\ k < Len(draft) /\ left > 0

\* The model's own token is the guess (sampling: with its probability).
Accept ==
    LET context == row[len + 1 + k] IN
    /\ Checking
    /\ greedy => Guessed \in May(context)
    /\ Narrow(context, {Guessed})
    /\ IF Guessed = Stop
       THEN done' = TRUE /\ pc' = "advance" /\ UNCHANGED <<all, shown, left, k>>
       ELSE Emit(len + 2 + k, Guessed) /\ left' = left - 1 /\ k' = k + 1 /\ UNCHANGED <<pc, done>>
    /\ UNCHANGED <<greedy, len, row, logits, ban, draft, asked, from, tail, turns>>

Reject ==
    LET context == row[len + 1 + k] IN
    /\ Checking
    /\ IF greedy
       THEN (\E t \in May(context) \ {Guessed} : Narrow(context, {t})) /\ UNCHANGED ban
       ELSE Narrow(context, Vocab \ {Guessed}) /\ ban' = Guessed
    /\ pc' = "advance"
    /\ UNCHANGED <<greedy, len, arrays, logits, draft, k, done, left, asked, from, tail, shown, turns>>

\* The rows of the guesses that were not accepted stay behind len, stale.
Advance ==
    /\ pc = "advance" \/ (pc = "verify" /\ ~Checking)
    /\ len' = len + 1 + k
    /\ IF done \/ left = 0
       THEN Finish(len + 1 + k, left)
       ELSE /\ pc' = "pick" /\ logits' = row[len + 1 + k] /\ draft' = <<>> /\ k' = 0
            /\ UNCHANGED <<ban, done, left, asked, from, tail>>
    /\ UNCHANGED <<greedy, arrays, shown, choice, turns>>

-----------------------------------------------------------------------------
Turn == \/ \E ngen \in NGen : More(ngen) \/ \E p \in Lines : Line(p, ngen)
        \/ Reset
Decode == \/ \E t \in Vocab : Pick(t)
          \/ \E d \in Drafts : Guess(d)
          \/ Accept \/ Reject \/ Advance
Next == Turn \/ Decode

Spec == Init /\ [][Next]_vars

-----------------------------------------------------------------------------
(* Properties *)

\* Every variable has its type; in particular nothing is written beyond the
\* arrays that were allocated for maxctx positions.
TypeOK ==
    /\ pc \in {"idle", "pick", "draft", "verify", "advance"}
    /\ greedy \in BOOLEAN /\ tail \in BOOLEAN /\ done \in BOOLEAN
    /\ len \in 0 .. MaxT /\ left \in Nat /\ k \in Nat /\ turns \in Nat
    /\ asked \in Nat /\ from \in 0 .. MaxT
    /\ DOMAIN all = Positions /\ \A p \in Positions : all[p] \in Tokens \cup {NoToken}
    /\ DOMAIN row = Positions /\ \A p \in Positions : row[p] \in Seq(Vocab \cup {NoToken})
    /\ logits \in Seq(Vocab \cup {NoToken}) /\ draft \in Seq(Vocab)
    /\ ban \in Vocab \cup {NoToken}
    /\ shown \in Seq(Tokens)

\* The rows that count are those of what was shown, and what was shown beyond
\* them is one token, in its place in the history, between an answer that was
\* cut short and the next turn.
RowsMatchShown ==
    /\ len <= Len(shown)
    /\ \A p \in 1 .. len : row[p] = SubSeq(shown, 1, p)
    /\ pc = "idle" => Len(shown) = IF tail THEN len + 1 ELSE len
    /\ \A p \in 1 .. Len(shown) : all[p] = shown[p]

Plain == INSTANCE PlainDecode WITH left <- IF done THEN 0 ELSE left

\* Speculation is lossless (comments at glm.c:3231-3235 and 3289): what is
\* displayed, :more included, is a run of plain decoding, in which each token is
\* chosen once, after what was displayed before it.
PlainSpec == Plain!Spec
=============================================================================
