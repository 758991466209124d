----------------------------- MODULE PlainDecode -----------------------------
(***************************************************************************)
(* What a conversation with c/glm.c promises, whatever is drafted,         *)
(* verified and cached underneath: each token shown is the one the model   *)
(* chose after exactly the tokens shown before it, one at a time; an       *)
(* answer ends with a stop token or when its budget is spent; and :more    *)
(* goes on from everything that has been shown.                            *)
(*                                                                         *)
(* choice maps a context to the tokens the model may still choose there.   *)
(* It is narrowed by looking at the context that is next, and at no other. *)
(* For greedy decoding it is the model.  For sampling it is the dice:      *)
(* thrown anew for each answer, once for each position.                    *)
(***************************************************************************)
EXTENDS Sequences, Naturals

CONSTANTS
    Tokens,   \* that can be shown
    Stop      \* a stop token

VARIABLES
    shown,    \* the conversation, as displayed
    choice,   \* what the model may choose, for the contexts it has looked at
    left      \* tokens the present answer may still have; 0 between answers

vars == <<shown, choice, left>>

Vocab == Tokens \cup {Stop}
May(context) == IF context \in DOMAIN choice THEN choice[context] ELSE Vocab
Narrow(context, S) ==
    choice' = [x \in DOMAIN choice \cup {context} |-> IF x = context THEN S ELSE choice[x]]

Init == shown = <<>> /\ choice = <<>> /\ left = 0

\* The same model, or new dice.
Redraw == choice' = choice \/ choice' = <<>>

\* A line says what the conversation is from now on; it may start it over.
Ask ==
    /\ left = 0 /\ left' \in Nat
    /\ shown' \in Seq(Tokens)
    /\ Redraw

More ==
    /\ left = 0 /\ left' \in Nat
    /\ Redraw
    /\ UNCHANGED shown

Think ==
    /\ left > 0
    /\ \E S \in SUBSET May(shown) : S # {} /\ Narrow(shown, S)
    /\ UNCHANGED <<shown, left>>

Show ==
    /\ left > 0 /\ left' = left - 1
    /\ \E t \in May(shown) \cap Tokens : shown' = Append(shown, t) /\ Narrow(shown, {t})

EndOfAnswer ==
    /\ left > 0 /\ left' = 0
    /\ Stop \in May(shown) /\ Narrow(shown, {Stop})
    /\ UNCHANGED shown

Next == Ask \/ More \/ Think \/ Show \/ EndOfAnswer

Spec == Init /\ [][Next]_vars
=============================================================================
