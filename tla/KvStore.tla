------------------------------- MODULE KvStore -------------------------------
(***************************************************************************)
(* One KV slot of the serve loop of c/glm.c (run_serve) and its file       *)
(* .ili_kv: prefix matching, prefill and generation, :more, reset, the     *)
(* append of the new positions after each turn ("data first, counter       *)
(* then"), and resume at the next start.                                   *)
(*                                                                         *)
(* A KV row is abstracted to the tokens it was computed from: row p is     *)
(* right when it is the first p tokens of the history.  Junk stands for    *)
(* the token of a record that was torn, skipped, or written in another     *)
(* record layout than the header says.  The process may be killed between  *)
(* any two steps, and started again with another CTX or DSA setting.       *)
(***************************************************************************)
EXTENDS Integers, Sequences, FiniteSets, SequencesExt

CONSTANTS
    Tokens,         \* what prompts and answers are made of
    Junk,           \* the token of an unreadable record
    Layouts,        \* record layouts: which per-layer rows a build and DSA=0/1 save
    Contexts,       \* values CTX may have at a start, after the RAM clamp
    PromptReserve,  \* 8 + g_draft: positions a prompt must leave free
    GenReserve,     \* g_draft + 2: positions an answer must leave free
    MaxGen,         \* max_tokens of a request, NGEN
    MaxTurns, MaxCrashes, MaxFails   \* bounds of the exploration

NoFile   == "no file"
NoHeader == "no header"

ASSUME KvAssumption ==
    /\ Junk \notin Tokens
    /\ Contexts \subseteq Nat
    /\ {NoFile, NoHeader} \cap Layouts = {}
    /\ PromptReserve \in Nat /\ GenReserve \in Nat \ {0} /\ GenReserve < PromptReserve
    /\ \A c \in Contexts : PromptReserve < c
    /\ {MaxGen, MaxTurns, MaxCrashes, MaxFails} \subseteq Nat

VARIABLES
    pc,        \* down, idle, turn, save, header, write, count
    ctx,       \* maxctx
    layout,    \* what kv_hdr() describes
    hist,      \* hist[0..len)
    tail,      \* <<hist[len]>> when sc->tail, else <<>>
    rows,      \* KV rows 0..len)
    todo,      \* the part of the prompt that is not in the KV yet
    diskNrec,  \* k->disk_nrec
    file,      \* .ili_kv: header (NoHeader for a file without one), nrec, records
    turns, crashes, fails

ram    == <<ctx, layout, hist, tail, rows, todo, diskNrec>>
bounds == <<turns, crashes, fails>>
vars   == <<pc, ram, file, bounds>>

Record(l, row) == [layout |-> l, row |-> row]
JunkRow == <<Junk>>
JunkRecord(l) == Record(l, JunkRow)

Prompts(n) == UNION {[1 .. k -> Tokens] : k \in 0 .. n}
Least(a, b) == IF a < b THEN a ELSE b

-----------------------------------------------------------------------------
(* Rows and records *)

\* step(): each new row is computed from its token and the rows before it.
Forward(from, tokens) ==
    LET RowAt[k \in 0 .. Len(tokens)] ==
            IF k = 0 THEN (IF from = <<>> THEN <<>> ELSE Last(from))
                     ELSE Append(RowAt[k - 1], tokens[k])
    IN  from \o [k \in 1 .. Len(tokens) |-> RowAt[k]]

\* Re-forwarding the last position rewrites its row.
Reforward == Forward(SubSeq(rows, 1, Len(rows) - 1), <<Last(hist)>>)

\* What fread() finds in record p with the layout of the header.
RowOnDisk(p) == IF file.recs[p].layout = file.hdr THEN file.recs[p].row ELSE JunkRow

Readable == Least(file.nrec, Len(file.recs))

\* fwrite() of record p: beyond the end of the file it leaves a hole.
WriteAt(recs, p, r) ==
    [i \in 1 .. (IF p > Len(recs) THEN p ELSE Len(recs)) |->
        IF i = p THEN r ELSE IF i <= Len(recs) THEN recs[i] ELSE JunkRecord(layout)]

-----------------------------------------------------------------------------
(* kv_disk_load() and kv_disk_truncate() *)

Loadable(c, l) == /\ file.hdr = l
                  /\ file.nrec >= 1
                  /\ file.nrec < c - PromptReserve

LoadInto(c, l) ==
    IF Loadable(c, l)
    THEN /\ rows' = [p \in 1 .. Readable |-> RowOnDisk(p)]
         /\ hist' = [p \in 1 .. Readable |-> Last(RowOnDisk(p))]
         /\ diskNrec' = Readable
    ELSE rows' = <<>> /\ hist' = <<>> /\ diskNrec' = 0

\* Mutant of Truncate: the counter in memory is forgotten.
TruncateFileOnly(n) ==
    /\ diskNrec' = diskNrec
    /\ file' = IF file.hdr = NoFile THEN file ELSE [file EXCEPT !.nrec = n]

Truncate(n) ==
    IF file.hdr = NoFile
    THEN diskNrec' = 0 /\ file' = file
    ELSE diskNrec' = n /\ file' = [file EXCEPT !.nrec = n]

-----------------------------------------------------------------------------
Init ==
    /\ pc = "down"
    /\ ctx \in Contexts /\ layout \in Layouts
    /\ hist = <<>> /\ tail = <<>> /\ rows = <<>> /\ todo = <<>> /\ diskNrec = 0
    /\ file = [hdr |-> NoFile, nrec |-> 0, recs |-> <<>>]
    /\ turns = 0 /\ crashes = 0 /\ fails = 0

\* serve_ctx_init()
Start ==
    /\ pc = "down"
    /\ \E c \in Contexts, l \in Layouts :
          ctx' = c /\ layout' = l /\ LoadInto(c, l)
    /\ tail' = <<>> /\ todo' = <<>>
    /\ pc' = "idle"
    /\ UNCHANGED <<file, bounds>>

NextTurn(where) == pc = "idle" /\ turns < MaxTurns /\ turns' = turns + 1 /\ pc' = where

\* A PROMPT frame: keep the common prefix, drop the rest of the history.
\* (A prompt longer than maxctx-8-g_draft is cut there by tok_encode.)  Of an empty one
\* nothing else is done: the history is gone, sc->tail and the reply's END remain.
Prompt(p) ==
    LET common == Len(LongestCommonPrefix({p, hist})) IN
    /\ NextTurn(IF p = <<>> THEN "idle" ELSE "turn")
    /\ Len(p) <= ctx - PromptReserve
    /\ hist' = SubSeq(hist, 1, common) /\ rows' = SubSeq(rows, 1, common)
    /\ todo' = SubSeq(p, common + 1, Len(p))
    /\ IF common < Len(hist) THEN Truncate(common) ELSE UNCHANGED <<diskNrec, file>>
    /\ UNCHANGED <<ctx, layout, tail, crashes, fails>>

\* An interactive line is appended to the history; one that does not fit any
\* more starts the conversation over.  An empty line is not a turn.
Line(p) ==
    /\ NextTurn("turn")
    /\ p # <<>>
    /\ Len(p) <= ctx - PromptReserve
    /\ todo' = p
    /\ IF Len(hist) + Len(p) + PromptReserve >= ctx
       THEN hist' = <<>> /\ rows' = <<>> /\ Truncate(0)
       ELSE UNCHANGED <<hist, rows, diskNrec, file>>
    /\ UNCHANGED <<ctx, layout, tail, crashes, fails>>

\* spec_decode(): up to room tokens are emitted; a truncated answer leaves the
\* last of them unforwarded at hist[len].
Generate(h, r, room) ==
    \E n \in 0 .. room : \E out \in [1 .. n -> Tokens], cut \in BOOLEAN :
        /\ cut => n = room /\ n > 0
        /\ LET kept == IF cut THEN n - 1 ELSE n IN
           /\ hist' = h \o SubSeq(out, 1, kept)
           /\ rows' = Forward(r, SubSeq(out, 1, kept))
           /\ tail' = IF cut THEN <<out[n]>> ELSE <<>>

\* Mutant of Room: nothing is reserved for the last drafts.
RoomToTheEnd(n) == IF n + MaxGen >= ctx THEN ctx - n ELSE MaxGen

Room(n) == IF n + MaxGen + GenReserve >= ctx THEN ctx - n - GenReserve ELSE MaxGen

\* Prefill of what is left of the prompt, then the answer.
Answer ==
    /\ pc = "turn"
    /\ LET r == IF todo = <<>> THEN Reforward ELSE Forward(rows, todo) IN
       Generate(hist \o todo, r, Room(Len(hist \o todo)))
    /\ todo' = <<>>
    /\ pc' = "save"
    /\ UNCHANGED <<ctx, layout, diskNrec, file, bounds>>

\* \x02MORE continues an answer that NGEN cut short.
More ==
    LET r == IF tail = <<>> THEN Reforward ELSE Forward(rows, tail)
        room == Room(Len(hist \o tail))
    IN
    /\ NextTurn("save")
    /\ hist # <<>>
    /\ IF room > 0
       THEN Generate(hist \o tail, r, room)
       ELSE hist' = hist \o tail /\ rows' = r /\ tail' = <<>>
    /\ UNCHANGED <<ctx, layout, todo, diskNrec, file, crashes, fails>>

\* \x02RESET
Reset ==
    /\ NextTurn("idle")
    /\ hist' = <<>> /\ rows' = <<>> /\ tail' = <<>>
    /\ Truncate(0)
    /\ UNCHANGED <<ctx, layout, todo, crashes, fails>>

-----------------------------------------------------------------------------
(* kv_disk_append() *)

SkipSave ==
    /\ pc = "save" /\ Len(hist) <= diskNrec
    /\ pc' = "idle"
    /\ UNCHANGED <<ram, file, bounds>>

\* Mutant of OpenForAppend: the counter is written first, the data then.
OpenAndCount ==
    /\ pc = "save" /\ Len(hist) > diskNrec
    /\ IF file.hdr = NoFile
       THEN file' = [file EXCEPT !.hdr = NoHeader, !.nrec = Len(hist)] /\ pc' = "header"
       ELSE file' = [file EXCEPT !.nrec = Len(hist)] /\ pc' = "write"
    /\ UNCHANGED <<ram, bounds>>

\* fopen("r+b"), or fopen("wb") when there is no file yet.
OpenForAppend ==
    /\ pc = "save" /\ Len(hist) > diskNrec
    /\ IF file.hdr = NoFile
       THEN file' = [file EXCEPT !.hdr = NoHeader] /\ pc' = "header"
       ELSE file' = file /\ pc' = "write"
    /\ UNCHANGED <<ram, bounds>>

\* The header of a new file leaves the stdio buffer together with the first record.
FlushHeader ==
    /\ pc = "header"
    /\ file' = [file EXCEPT !.hdr = layout]
    /\ pc' = "write"
    /\ UNCHANGED <<ram, bounds>>

\* How many records of this append have reached the file is not remembered by the
\* code: written is the first position whose record is not there yet.
Pending == {p \in diskNrec + 1 .. Len(hist) :
              p > Len(file.recs) \/ file.recs[p] # Record(layout, rows[p])}

WriteRecord ==
    /\ pc = "write" /\ Pending # {}
    /\ \E p \in Pending :
          /\ \A q \in Pending : p <= q
          /\ file' = [file EXCEPT !.recs = WriteAt(@, p, Record(layout, rows[p]))]
    /\ UNCHANGED <<pc, ram, bounds>>

FlushRecords ==
    /\ pc = "write" /\ Pending = {}
    /\ pc' = "count"
    /\ UNCHANGED <<ram, file, bounds>>

WriteCount ==
    /\ pc = "count"
    /\ file' = [file EXCEPT !.nrec = Len(hist)]
    /\ diskNrec' = Len(hist)
    /\ pc' = "idle"
    /\ UNCHANGED <<ctx, layout, hist, tail, rows, todo, bounds>>

\* Part of a record may have been written.
TearRecord ==
    IF Pending = {} THEN file' = file
    ELSE \E p \in Pending :
            /\ \A q \in Pending : p <= q
            /\ file' = [file EXCEPT !.recs = WriteAt(@, p, JunkRecord(layout))]

\* The disk is full: the counter keeps its old value.
AppendFails ==
    /\ pc \in {"header", "write", "count"}
    /\ fails < MaxFails /\ fails' = fails + 1
    /\ IF pc = "write" THEN TearRecord ELSE file' = file
    /\ pc' = "idle"
    /\ UNCHANGED <<ram, turns, crashes>>

\* The process is killed; what it had handed to the kernel survives.
Crash ==
    /\ pc # "down"
    /\ crashes < MaxCrashes /\ crashes' = crashes + 1
    /\ IF pc = "write" THEN (file' = file \/ TearRecord) ELSE file' = file
    /\ hist' = <<>> /\ tail' = <<>> /\ rows' = <<>> /\ todo' = <<>> /\ diskNrec' = 0
    /\ pc' = "down"
    /\ UNCHANGED <<ctx, layout, turns, fails>>

AppendStep == \/ SkipSave \/ OpenForAppend \/ FlushHeader \/ WriteRecord \/ FlushRecords \/ WriteCount \/ AppendFails

Next ==
    \/ Start \/ Answer \/ More \/ Reset \/ AppendStep \/ Crash
    \/ \E p \in Prompts(ctx - PromptReserve) : Prompt(p) \/ Line(p)

Spec == Init /\ [][Next]_vars

-----------------------------------------------------------------------------
(* Properties *)

RowType == Seq(Tokens \cup {Junk})

\* Every variable has its type, and no position is beyond the arrays: hist and
\* the KV rows are allocated for maxctx.
TypeOK ==
    /\ pc \in {"down", "idle", "turn", "save", "header", "write", "count"}
    /\ ctx \in Contexts /\ layout \in Layouts
    /\ hist \in RowType /\ tail \in RowType /\ todo \in RowType
    /\ rows \in Seq(RowType)
    /\ Len(hist) <= ctx - GenReserve /\ Len(hist \o tail) < ctx
    /\ diskNrec \in Nat
    /\ file.hdr \in Layouts \cup {NoFile, NoHeader} /\ file.nrec \in Nat
    /\ \A p \in 1 .. Len(file.recs) : file.recs[p] \in [layout : Layouts, row : RowType]

\* The KV rows the next token attends to are those of the history the slot
\* claims to have, through every prefix match, :more, crash and resume: an
\* answer is never computed from the rows of another conversation.
\* (After a failed append kv_disk_truncate() may raise the counter on disk above the
\* records that are valid, so the property is about disks that do not fail.)
RowsMatchHistory ==
    fails = 0 =>
        /\ Len(rows) = Len(hist)
        /\ \A p \in 1 .. Len(hist) : hist[p] \in Tokens /\ rows[p] = SubSeq(hist, 1, p)

\* The records that kv_disk_append() believes to be on disk, and therefore
\* skips, are there and are those of the present history.
SkippedRecordsAreThere ==
    pc # "down" /\ fails = 0 =>
        /\ diskNrec <= Len(file.recs) /\ diskNrec <= Len(hist)
        /\ \A p \in 1 .. diskNrec : file.recs[p] = Record(layout, rows[p])

\* What was saved is where the next start with the same settings resumes from.
SavedIsResumable ==
    pc = "idle" /\ diskNrec > 0 => file.hdr = layout /\ file.nrec = diskNrec
=============================================================================
