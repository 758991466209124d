------------------------------- MODULE Gateway -------------------------------
(***************************************************************************)
(* The HTTP gateway of c/openai_server.py around the scheduler: handler    *)
(* threads that take the lease on the engine, choose a KV slot, write one  *)
(* prompt frame into the engine's pipe, read its answer up to the END      *)
(* sentinel and stream it to the client, each with a keep-alive pump that  *)
(* shares the client's socket (wfile) under ka_lock.                       *)
(*                                                                         *)
(* The scheduler appears as the lease it implements (FifoLease).  A frame, *)
(* a chunk of an answer and the END/STAT pair are records tagged with the  *)
(* request they belong to.  A write to the socket has a beginning and an   *)
(* end, so that two threads can be caught inside it.  Time is abstracted:  *)
(* the pump may find the line quiet whenever it looks, and                 *)
(* join(timeout=2) expires only while the pump is blocked in a write (a    *)
(* thread that can run is given the processor within two seconds).         *)
(***************************************************************************)
EXTENDS Integers, Sequences, FiniteSets, FiniteSetsExt, SequencesExt

CONSTANTS Requests,   \* the requests, each with a handler thread and a connection of its own
          Streams,    \* those with "stream": true
          Naming,     \* those that name a "cache_slot"
          Prompt,     \* the rendered prompt of each, a sequence of characters
          KvSlots,    \* kv_slots: slots are 1 .. KvSlots
          MaxQueue,   \* max_queue
          MaxChunks   \* bound: chunks of text in an answer

ASSUME GatewayAssumption ==
    /\ IsFiniteSet(Requests) /\ Streams \subseteq Requests /\ Naming \subseteq Requests
    /\ Prompt \in [Requests -> Seq(STRING)]
    /\ KvSlots \in 1 .. 16 /\ MaxQueue \in Nat /\ MaxChunks \in Nat

VARIABLES
    holders, line, open,   \* the lease
    pc, then,              \* the handler of each request, and where it goes after a write
    slot,                  \* cache_slot of each request, 0 before it is chosen
    got, stats,            \* chunks passed to on_text; the END/STAT that ended the turn
    connected, kaStop,     \* connected, ka_stop of each response
    kaLock,                \* the owner of ka_lock of each response: none, handler, pump
    pump,                  \* the keep-alive thread of each response
    gone, hungUp,          \* connections closed by the client, by the server
    prompts, lastUsed, clock,   \* PrefixSlotRouter
    engine, turn,          \* the engine process: idle, busy, dead; the frame it works on
    stdin, stdout, made,   \* its pipes; chunks it has made of the present answer
    kv                     \* per slot, the last prompt the engine worked on there

lease    == <<holders, line, open>>
handler  == <<pc, then, slot, got, stats>>
response == <<connected, kaStop, kaLock, pump>>
network  == <<gone, hungUp>>
router   == <<prompts, lastUsed, clock>>
process  == <<engine, turn, stdin, stdout, made, kv>>
vars     == <<lease, handler, response, network, router, process>>

Lease == INSTANCE FifoLease

Slots == 1 .. KvSlots
NoStats == [req |-> "none", chunks |-> 0]
Chunk(r, n) == [kind |-> "chunk", req |-> r, n |-> n]
End(r, n)   == [kind |-> "end", req |-> r, n |-> n]

Init ==
    /\ Lease!Init
    /\ pc = [r \in Requests |-> "idle"] /\ then = [r \in Requests |-> "idle"]
    /\ slot = [r \in Requests |-> 0]
    /\ got = [r \in Requests |-> <<>>] /\ stats = [r \in Requests |-> NoStats]
    /\ connected = [r \in Requests |-> TRUE] /\ kaStop = [r \in Requests |-> FALSE]
    /\ kaLock = [r \in Requests |-> "none"] /\ pump = [r \in Requests |-> "off"]
    /\ gone = {} /\ hungUp = {}
    /\ prompts = [s \in Slots |-> <<>>] /\ lastUsed = [s \in Slots |-> 0] /\ clock = 0
    /\ engine = "idle" /\ turn = <<>> /\ stdin = <<>> /\ stdout = <<>> /\ made = 0
    /\ kv = [s \in Slots |-> <<>>]

Goto(r, where) == pc' = [pc EXCEPT ![r] = where]

-----------------------------------------------------------------------------
(* PrefixSlotRouter.select(): lastUsed is 0 exactly where prompts is None *)

Unused == {s \in Slots : lastUsed[s] = 0}

Shared(s, p) == IF s \in Unused THEN -1
                                ELSE Len(LongestCommonPrefix({prompts[s], p}))

Closest(p) == {s \in Slots : \A t \in Slots : Shared(s, p) >= Shared(t, p)}

Continues(p) == \E s \in Slots \ Unused : IsPrefix(prompts[s], p)

\* Mutant of Select: an unrelated slot is preferred to the conversation's own.
SelectEmptyFirst(p) ==
    IF Unused # {} THEN Min(Unused) ELSE CHOOSE s \in Closest(p) : TRUE

\* Mutant of Select: slots counted from 0.
SelectFromZero(p) == (CHOOSE s \in Closest(p) : TRUE) - 1

Select(p) ==
    CHOOSE s \in Slots :
        IF Continues(p) THEN s \in Closest(p) /\ \A t \in Closest(p) : lastUsed[s] >= lastUsed[t]
        ELSE IF Unused # {} THEN s = Min(Unused)
        ELSE s \in Closest(p) /\ \A t \in Closest(p) : lastUsed[s] <= lastUsed[t]

-----------------------------------------------------------------------------
(* Admission *)

Arrive(r) ==
    /\ pc[r] = "idle"
    /\ \/ Lease!GrantAtOnce(r) /\ Goto(r, "leased")
       \/ (holders # {} \/ line # <<>>) /\ Lease!Join(r) /\ Goto(r, "waiting")
       \/ /\ ~open \/ ((holders # {} \/ line # <<>>) /\ Len(line) >= MaxQueue)
          /\ Goto(r, "refused") /\ UNCHANGED lease
    /\ UNCHANGED <<then, slot, got, stats, response, network, router, process>>

Granted(r) ==
    /\ pc[r] = "waiting" /\ Lease!Grant(r)
    /\ Goto(r, "leased")
    /\ UNCHANGED <<then, slot, got, stats, response, network, router, process>>

\* ClientCancelled, queue_timeout or scheduler_closed.
GiveUp(r) ==
    /\ pc[r] = "waiting"
    /\ \E i \in 1 .. Len(line) : line[i] = r /\ Lease!Leave(i)
    /\ Goto(r, "refused")
    /\ UNCHANGED <<then, slot, got, stats, response, network, router, process>>

\* A client may name a slot; otherwise the router does.
ChooseSlot(r) ==
    /\ pc[r] = "leased"
    /\ \E s \in IF r \in Naming THEN Slots ELSE {Select(Prompt[r])} :
           slot' = [slot EXCEPT ![r] = s]
    /\ Goto(r, IF r \in Streams THEN "headers" ELSE "frame")
    /\ UNCHANGED <<lease, then, got, stats, response, network, router, process>>

-----------------------------------------------------------------------------
(* Writing to the client *)

\* The headers and the event with the role go out before there is a pump.  A broken
\* pipe ends the request in silence, a write that timed out with a 500.
SendHeaders(r) ==
    /\ pc[r] = "headers"
    /\ \/ Goto(r, "event") /\ then' = [then EXCEPT ![r] = "startPump"]
       \/ r \in gone /\ (Goto(r, "broken") \/ Goto(r, "error")) /\ UNCHANGED then
    /\ UNCHANGED <<lease, slot, got, stats, response, network, router, process>>

\* event(): nothing is written once connected is FALSE.
EnterEvent(r) ==
    /\ pc[r] = "event"
    /\ Goto(r, IF connected[r] THEN "lock" ELSE then[r])
    /\ UNCHANGED <<lease, then, slot, got, stats, response, network, router, process>>

BeginEvent(r) ==
    /\ pc[r] = "lock" /\ kaLock[r] = "none"
    /\ kaLock' = [kaLock EXCEPT ![r] = "handler"]
    /\ Goto(r, "write")
    /\ UNCHANGED <<lease, then, slot, got, stats, connected, kaStop, pump, network, router, process>>

\* Mutant of EndEvent: a broken pipe is raised to the caller of on_text.
EndEventRaising(r) ==
    /\ pc[r] = "write"
    /\ kaLock' = [kaLock EXCEPT ![r] = "none"]
    /\ \/ Goto(r, then[r])
       \/ r \in gone /\ Goto(r, "broken")
    /\ UNCHANGED <<lease, then, slot, got, stats, connected, kaStop, pump, network, router, process>>

\* OSError is swallowed: the answer is read to its end for a client that has left.
EndEvent(r) ==
    /\ pc[r] = "write"
    /\ kaLock' = [kaLock EXCEPT ![r] = "none"]
    /\ \/ UNCHANGED connected
       \/ r \in gone /\ connected' = [connected EXCEPT ![r] = FALSE]
    /\ Goto(r, then[r])
    /\ UNCHANGED <<lease, then, slot, got, stats, kaStop, pump, network, router, process>>

StartPump(r) ==
    /\ pc[r] = "startPump"
    /\ pump' = [pump EXCEPT ![r] = "wait"]
    /\ Goto(r, "frame")
    /\ UNCHANGED <<lease, then, slot, got, stats, connected, kaStop, kaLock, network, router, process>>

-----------------------------------------------------------------------------
(* Engine.generate() and read_engine_turn() *)

\* generate() refuses a prompt with a NUL byte or over 16 MiB (400), and encode() one with
\* a lone surrogate (500), before either looks at the engine; any prompt may be such a one.
Refuse(r) ==
    /\ pc[r] = "frame"
    /\ Goto(r, "error")
    /\ UNCHANGED <<lease, then, slot, got, stats, response, network, router, process>>

\* The frame is written whole; a dead engine is found out by poll(), or by a broken pipe.
WriteFrame(r) ==
    /\ pc[r] = "frame"
    /\ IF engine = "dead" THEN (Goto(r, "error") \/ Goto(r, "broken")) /\ UNCHANGED stdin
       ELSE stdin' = Append(stdin, [req |-> r, slot |-> slot[r]]) /\ Goto(r, "read")
    /\ UNCHANGED <<lease, then, slot, got, stats, response, network, router,
                   engine, turn, stdout, made, kv>>

ReadChunk(r) ==
    /\ pc[r] = "read" /\ stdout # <<>> /\ Head(stdout).kind = "chunk"
    /\ stdout' = Tail(stdout)
    /\ got' = [got EXCEPT ![r] = Append(@, Head(stdout))]
    /\ IF r \in Streams THEN Goto(r, "event") /\ then' = [then EXCEPT ![r] = "read"]
                        ELSE UNCHANGED <<pc, then>>
    /\ UNCHANGED <<lease, slot, stats, response, network, router, engine, turn, stdin, made, kv>>

ReadEnd(r) ==
    /\ pc[r] = "read" /\ stdout # <<>> /\ Head(stdout).kind = "end"
    /\ stdout' = Tail(stdout)
    /\ stats' = [stats EXCEPT ![r] = [req |-> Head(stdout).req, chunks |-> Head(stdout).n]]
    /\ Goto(r, "record")
    /\ UNCHANGED <<lease, then, slot, got, response, network, router, engine, turn, stdin, made, kv>>

\* End of file: "iliria engine exited unexpectedly".
ReadEof(r) ==
    /\ pc[r] = "read" /\ stdout = <<>> /\ engine = "dead"
    /\ Goto(r, "error")
    /\ UNCHANGED <<lease, then, slot, got, stats, response, network, router, process>>

\* Mutant of Record: only the first conversation of a slot is remembered.
RecordOnce(r) ==
    /\ pc[r] = "record"
    /\ clock' = clock + 1
    /\ prompts' = [prompts EXCEPT ![slot[r]] = IF slot[r] \in Unused THEN Prompt[r] ELSE @]
    /\ lastUsed' = [lastUsed EXCEPT ![slot[r]] = clock + 1]
    /\ Goto(r, IF r \in Streams THEN "stop" ELSE "reply")
    /\ UNCHANGED <<lease, then, slot, got, stats, response, network, process>>

Record(r) ==
    /\ pc[r] = "record"
    /\ clock' = clock + 1
    /\ prompts' = [prompts EXCEPT ![slot[r]] = Prompt[r]]
    /\ lastUsed' = [lastUsed EXCEPT ![slot[r]] = clock + 1]
    /\ Goto(r, IF r \in Streams THEN "stop" ELSE "reply")
    /\ UNCHANGED <<lease, then, slot, got, stats, response, network, process>>

-----------------------------------------------------------------------------
(* The end of a response *)

StopPump(r) ==
    /\ pc[r] = "stop"
    /\ kaStop' = [kaStop EXCEPT ![r] = TRUE]
    /\ Goto(r, "join")
    /\ UNCHANGED <<lease, then, slot, got, stats, connected, kaLock, pump, network, router, process>>

\* Mutant of Join: the pump is not waited for.
JoinNothing(r) ==
    /\ pc[r] = "join"
    /\ Goto(r, "event") /\ then' = [then EXCEPT ![r] = "done"]
    /\ UNCHANGED <<lease, slot, got, stats, response, network, router, process>>

\* Then the event with the finish reason.
Join(r) ==
    /\ pc[r] = "join" /\ pump[r] \in {"off", "write"}
    /\ Goto(r, "event") /\ then' = [then EXCEPT ![r] = "done"]
    /\ UNCHANGED <<lease, slot, got, stats, response, network, router, process>>

\* data: [DONE] is written without ka_lock.
BeginDone(r) ==
    /\ pc[r] = "done"
    /\ Goto(r, IF connected[r] THEN "writeDone" ELSE "release")
    /\ UNCHANGED <<lease, then, slot, got, stats, response, network, router, process>>

EndDone(r) ==
    /\ pc[r] = "writeDone"
    /\ Goto(r, "release")
    /\ UNCHANGED <<lease, then, slot, got, stats, response, network, router, process>>

\* The lease is given back; an exception leaves the `with` block before it is answered.
Release(r) ==
    /\ pc[r] \in {"release", "error", "broken"}
    /\ Lease!Release(r)
    /\ Goto(r, IF pc[r] = "error" THEN "replyError" ELSE "finish")
    /\ UNCHANGED <<then, slot, got, stats, response, network, router, process>>

\* send_json(): an answer that is not streamed, or the error of do_POST, takes no lock.
BeginJson(r) ==
    /\ pc[r] \in {"reply", "replyError"}
    /\ then' = [then EXCEPT ![r] = IF pc[r] = "reply" THEN "release" ELSE "finish"]
    /\ Goto(r, "writeJson")
    /\ UNCHANGED <<lease, slot, got, stats, response, network, router, process>>

EndJson(r) ==
    /\ pc[r] = "writeJson"
    /\ \/ Goto(r, then[r])
       \/ r \in gone /\ then[r] = "release" /\ Goto(r, "error")
    /\ UNCHANGED <<lease, then, slot, got, stats, response, network, router, process>>

\* The connection is closed: at once, or when no further request has come in for 60 s.
HangUp(r) ==
    /\ pc[r] = "finish"
    /\ hungUp' = hungUp \cup {r}
    /\ Goto(r, "over")
    /\ UNCHANGED <<lease, then, slot, got, stats, response, gone, router, process>>

-----------------------------------------------------------------------------
(* _keepalive() *)

\* ka_stop.wait(1.0) timed out and the line has been quiet for KA_GAP.
PumpWakes(r) ==
    /\ pump[r] = "wait" /\ ~kaStop[r] /\ connected[r]
    /\ pump' = [pump EXCEPT ![r] = "lock"]
    /\ UNCHANGED <<lease, handler, connected, kaStop, kaLock, network, router, process>>

PumpStops(r) ==
    /\ pump[r] = "wait" /\ (kaStop[r] \/ ~connected[r])
    /\ pump' = [pump EXCEPT ![r] = "off"]
    /\ UNCHANGED <<lease, handler, connected, kaStop, kaLock, network, router, process>>

\* Mutant of PumpBegins: the pump writes without ka_lock.
PumpBeginsUnlocked(r) ==
    /\ pump[r] = "lock"
    /\ pump' = [pump EXCEPT ![r] = "write"]
    /\ UNCHANGED <<lease, handler, connected, kaStop, kaLock, network, router, process>>

PumpBegins(r) ==
    /\ pump[r] = "lock" /\ kaLock[r] = "none"
    /\ kaLock' = [kaLock EXCEPT ![r] = "pump"]
    /\ pump' = [pump EXCEPT ![r] = "write"]
    /\ UNCHANGED <<lease, handler, connected, kaStop, network, router, process>>

\* Mutant of PumpEnds: a write that failed is forgotten.
PumpNeverDies(r) ==
    /\ pump[r] = "write"
    /\ kaLock' = [kaLock EXCEPT ![r] = "none"]
    /\ pump' = [pump EXCEPT ![r] = "wait"]
    /\ UNCHANGED <<lease, handler, connected, kaStop, network, router, process>>

\* Writing to a connection that the server has closed fails like writing to a client
\* that has left, or its flush raises ValueError, which ends the thread.
PumpEnds(r) ==
    /\ pump[r] = "write"
    /\ kaLock' = [kaLock EXCEPT ![r] = "none"]
    /\ \/ r \notin hungUp /\ pump' = [pump EXCEPT ![r] = "wait"] /\ UNCHANGED connected
       \/ /\ r \in gone \cup hungUp
          /\ pump' = [pump EXCEPT ![r] = "wait"] /\ connected' = [connected EXCEPT ![r] = FALSE]
       \/ r \in hungUp /\ pump' = [pump EXCEPT ![r] = "off"] /\ UNCHANGED connected
    /\ UNCHANGED <<lease, handler, kaStop, network, router, process>>

-----------------------------------------------------------------------------
(* The engine process, as the gateway sees it, the clients, and shutdown *)

TakeFrame ==
    /\ engine = "idle" /\ stdin # <<>>
    /\ engine' = "busy" /\ turn' = Head(stdin) /\ stdin' = Tail(stdin) /\ made' = 0
    /\ kv' = [kv EXCEPT ![Head(stdin).slot] = Prompt[Head(stdin).req]]
    /\ UNCHANGED <<lease, handler, response, network, router, stdout>>

Speak ==
    /\ engine = "busy" /\ Prompt[turn.req] # <<>> /\ made < MaxChunks
    /\ made' = made + 1
    /\ stdout' = Append(stdout, Chunk(turn.req, made + 1))
    /\ UNCHANGED <<lease, handler, response, network, router, engine, turn, stdin, kv>>

EndTurn ==
    /\ engine = "busy"
    /\ stdout' = Append(stdout, End(turn.req, made))
    /\ engine' = "idle"
    /\ UNCHANGED <<lease, handler, response, network, router, turn, stdin, made, kv>>

EngineDies ==
    /\ engine # "dead"
    /\ engine' = "dead"
    /\ UNCHANGED <<lease, handler, response, network, router, turn, stdin, stdout, made, kv>>

Disconnect(r) ==
    /\ pc[r] # "idle" /\ r \notin gone
    /\ gone' = gone \cup {r}
    /\ UNCHANGED <<lease, handler, response, hungUp, router, process>>

\* serve(): scheduler.close(); runtime.close() then ends the engine.
Shutdown ==
    /\ open /\ Lease!Close
    /\ UNCHANGED <<handler, response, network, router, process>>

Handler(r) ==
    \/ Granted(r) \/ ChooseSlot(r) \/ SendHeaders(r) \/ EnterEvent(r) \/ BeginEvent(r) \/ EndEvent(r)
    \/ StartPump(r) \/ Refuse(r) \/ WriteFrame(r) \/ ReadChunk(r) \/ ReadEnd(r) \/ ReadEof(r) \/ Record(r)
    \/ StopPump(r) \/ Join(r) \/ BeginDone(r) \/ EndDone(r) \/ Release(r)
    \/ BeginJson(r) \/ EndJson(r) \/ HangUp(r)

Pump(r) == PumpWakes(r) \/ PumpStops(r) \/ PumpBegins(r) \/ PumpEnds(r)

Engine == TakeFrame \/ Speak \/ EndTurn

Next ==
    \/ \E r \in Requests : Arrive(r) \/ GiveUp(r) \/ Handler(r) \/ Pump(r) \/ Disconnect(r)
    \/ Engine \/ EngineDies \/ Shutdown

Spec == Init /\ [][Next]_vars

\* Threads run, a blocked socket write times out, and the engine ends each turn
\* unless it dies.
FairSpec ==
    /\ Spec /\ WF_vars(Engine)
    /\ \A r \in Requests : WF_vars(Handler(r)) /\ SF_vars(BeginEvent(r)) /\ WF_vars(Pump(r))

-----------------------------------------------------------------------------
(* Properties *)

Writing(r) == pc[r] \in {"write", "writeDone", "writeJson"}

\* Every variable has its type.
TypeOK ==
    /\ holders \subseteq Requests /\ line \in Seq(Requests) /\ open \in BOOLEAN
    /\ pc \in [Requests -> {"idle", "waiting", "refused", "leased", "headers", "event", "lock", "write",
                            "startPump", "frame", "read", "record", "stop", "join", "done",
                            "writeDone", "release", "error", "broken", "reply", "replyError",
                            "writeJson", "finish", "over"}]
    /\ slot \in [Requests -> 0 .. KvSlots]
    /\ \A r \in Requests : slot[r] = 0 <=> pc[r] \in {"idle", "waiting", "refused", "leased"}
    /\ connected \in [Requests -> BOOLEAN] /\ kaStop \in [Requests -> BOOLEAN]
    /\ kaLock \in [Requests -> {"none", "handler", "pump"}]
    /\ pump \in [Requests -> {"off", "wait", "lock", "write"}]
    /\ gone \subseteq Requests /\ hungUp \subseteq Requests
    /\ engine \in {"idle", "busy", "dead"}
    /\ \A r \in Requests : stats[r].chunks \in 0 .. MaxChunks

\* Every chunk and the final status that a request receives belong to its own
\* prompt, in order and without a gap, although all requests share one pair of
\* pipes, clients leave at any time and answers are abandoned by nobody but them.
OwnAnswer ==
    \A r \in Requests :
        /\ \A i \in 1 .. Len(got[r]) : got[r][i] = Chunk(r, i)
        /\ stats[r] # NoStats => stats[r] = [req |-> r, chunks |-> Len(got[r])]

\* When nobody holds the lease, a living engine waits for the next frame with both
\* pipes empty, and the router knows which prompt each KV slot holds.
BetweenTurns ==
    holders = {} /\ engine # "dead" =>
        /\ engine = "idle" /\ stdin = <<>> /\ stdout = <<>>
        /\ prompts = kv

\* A conversation whose KV rows the engine still holds goes back to them: a request
\* that leaves the choice to the router gets the slot whose last prompt, as the engine
\* knows it, is the longest beginning of its own.
GoesBackToItsRows ==
    \A r \in Requests \ Naming :
        pc[r] \in {"headers", "frame"} /\ engine # "dead" =>
            \A s \in Slots :
                IsPrefix(kv[s], Prompt[r]) => Len(LongestCommonPrefix({kv[slot[r]], Prompt[r]})) >= Len(kv[s])

\* No keep-alive gets into another write of its response, of which several take no
\* lock, with one exception: the JSON error that do_POST sends after run_engine() has
\* raised in mid-stream, when nobody has told the pump to stop.  That is never after the
\* end of an answer, and with a living engine only for a prompt that was refused, before
\* anything of an answer came.
OnlyErrorsInterleave ==
    \A r \in Requests :
        Writing(r) /\ pump[r] = "write" =>
            /\ pc[r] = "writeJson" /\ then[r] = "finish"
            /\ stats[r] = NoStats
            /\ engine = "dead" \/ got[r] = <<>>

\* Once data: [DONE] is on its way no keep-alive follows it, in spite of the join
\* that may time out and of the missing lock.
DoneIsLast ==
    \A r \in Requests :
        pc[r] = "writeDone" => pump[r] \notin {"lock", "write"}

\* Whatever becomes of client and engine, each holder gives the lease back and its
\* pump comes to an end.
TurnsEnd ==
    \A r \in Requests :
        pc[r] = "leased" ~> pc[r] = "over" /\ r \notin holders /\ pump[r] = "off"
=============================================================================
