---------------------------- MODULE GatewayProofs ----------------------------
(***************************************************************************)
(* Theorems about Gateway, for any requests, prompts, slots and answers.   *)
(***************************************************************************)
EXTENDS Gateway, SequenceTheorems, WellFoundedInduction, TLAPS

-----------------------------------------------------------------------------
(* Where a request is in its turn with the engine *)

\* In event(), which is called from three places.
Sending == {"event", "lock", "write"}

Before(r) == pc[r] \in {"leased", "headers", "startPump", "frame"} \/ (pc[r] \in Sending /\ then[r] = "startPump")
Reading(r) == pc[r] = "read" \/ (pc[r] \in Sending /\ then[r] = "read")
Ending(r) == pc[r] \in {"stop", "join", "done", "writeDone", "release", "reply"}
                \/ (pc[r] \in Sending /\ then[r] = "done") \/ (pc[r] = "writeJson" /\ then[r] = "release")
Raised(r) == pc[r] \in {"error", "broken"}
Leased(r) == Before(r) \/ Reading(r) \/ pc[r] = "record" \/ Ending(r) \/ Raised(r)

-----------------------------------------------------------------------------
(* The inductive invariant *)

Labels == {"idle", "waiting", "refused", "leased", "headers", "event", "lock", "write",
           "startPump", "frame", "read", "record", "stop", "join", "done",
           "writeDone", "release", "error", "broken", "reply", "replyError",
           "writeJson", "finish", "over"}
Targets    == {"idle", "startPump", "read", "done", "release", "finish"}
Owners     == {"none", "handler", "pump"}
PumpLabels == {"off", "wait", "lock", "write"}

Messages == [kind : {"chunk", "end"}, req : Requests, n : Nat]
Frames   == [req : Requests, slot : Slots]
Text     == Seq(STRING)

Types ==
    /\ TypeOK
    /\ then \in [Requests -> Targets]
    /\ got \in [Requests -> Seq(Messages)]
    /\ stats \in [Requests -> [req : Requests \cup {"none"}, chunks : Nat]]
    /\ prompts \in [Slots -> Text] /\ lastUsed \in [Slots -> Nat] /\ clock \in Nat
    /\ \A s \in Slots : lastUsed[s] <= clock /\ (lastUsed[s] = 0 => prompts[s] = <<>>)
    /\ turn \in Frames \cup {<<>>} /\ (engine = "busy" => turn \in Frames)
    /\ stdin \in Seq(Frames) /\ stdout \in Seq(Messages) /\ made \in 0 .. MaxChunks
    /\ kv \in [Slots -> Text]

\* The lease and the handlers agree.
Leases ==
    /\ \A r \in Requests : r \in holders <=> Leased(r)
    /\ \A r, s \in holders : r = s

\* What event() and send_json() return to.
Returns ==
    \A r \in Requests :
        /\ pc[r] \in Sending => then[r] \in {"startPump", "read", "done"}
        /\ pc[r] = "writeJson" => then[r] \in {"release", "finish"}

\* Nothing in the pipes, the engine waiting: what every turn begins and ends with.
Quiet == stdout = <<>> /\ (engine # "dead" => engine = "idle" /\ stdin = <<>>)

\* The rest of the answer to r is what is in the pipe: chunks, the next one first,
\* and at most one end, the last.
Expected(m, r, k) == m.n <= MaxChunks /\ (m = Chunk(r, k) \/ m = End(r, k - 1))

Answering(r) ==
    /\ \A i \in 1 .. Len(stdout) :
          /\ Expected(stdout[i], r, Len(got[r]) + i)
          /\ stdout[i].kind = "end" => i = Len(stdout) /\ engine # "busy"
    /\ engine = "busy" => /\ turn.req = r /\ stdin = <<>>
                          /\ made = Len(got[r]) + Len(stdout)
    /\ engine = "idle" /\ stdin # <<>> =>
          stdin = <<[req |-> r, slot |-> slot[r]]>> /\ stdout = <<>> /\ got[r] = <<>>

Pipes ==
    /\ (\A r \in Requests : ~Reading(r)) => Quiet
    /\ \A r \in Requests : Reading(r) => Answering(r)

\* Nothing is received before the frame is sent, no status before the end.
Fresh ==
    \A r \in Requests :
        /\ pc[r] \in {"idle", "waiting"} \/ Before(r) => got[r] = <<>> /\ stats[r] = NoStats
        /\ Reading(r) => stats[r] = NoStats

\* The engine has begun the turn of r, and the router does not know yet.
Working(r) == (Reading(r) /\ stdin = <<>>) \/ pc[r] = "record"

\* What the router knows is what the engine holds, but for the prompt at work.
Rows ==
    engine # "dead" =>
        /\ (\A r \in Requests : ~Working(r)) => kv = prompts
        /\ \A r \in Requests : Working(r) => kv = [prompts EXCEPT ![slot[r]] = Prompt[r]]

\* A slot that the router chose stays the right one until the frame is sent.
Chosen ==
    engine # "dead" =>
        \A r \in Requests \ Naming :
            Before(r) /\ pc[r] # "leased" =>
                \A s \in Slots :
                    IsPrefix(kv[s], Prompt[r]) => Len(LongestCommonPrefix({kv[slot[r]], Prompt[r]})) >= Len(kv[s])

\* ka_lock is held by whoever writes under it.
Locked ==
    \A r \in Requests :
        /\ pc[r] = "write" <=> kaLock[r] = "handler"
        /\ pump[r] = "write" <=> kaLock[r] = "pump"

\* There is a pump only for a stream, from StartPump on; after the join it does not
\* begin another write.
Pumps ==
    \A r \in Requests :
        /\ pc[r] \in Sending \cup {"headers", "startPump", "stop", "join", "done", "writeDone"} => r \in Streams
        /\ pc[r] = "reply" \/ (pc[r] = "writeJson" /\ then[r] = "release") => r \notin Streams
        /\ r \notin Streams \/ pc[r] \in {"idle", "waiting", "leased", "headers", "startPump"}
             \/ (pc[r] \in Sending /\ then[r] = "startPump") => pump[r] = "off"
        /\ pc[r] = "join" => kaStop[r]
        /\ pc[r] \in {"done", "writeDone"} \/ (pc[r] \in Sending /\ then[r] = "done") => kaStop[r] /\ pump[r] # "lock"
        /\ pc[r] = "writeDone" \/ (pc[r] = "done" /\ connected[r]) => pump[r] # "write"

\* On its way to a JSON error, or writing it.
Erring(r) == pc[r] \in {"error", "replyError"} \/ (pc[r] = "writeJson" /\ then[r] = "finish")

\* An exception with the pump alive came before any of the answer, or of a dead engine.
Failed ==
    \A r \in Requests :
        Erring(r) /\ pump[r] # "off" => stats[r] = NoStats /\ (engine = "dead" \/ got[r] = <<>>)

IInv == Types /\ Leases /\ Returns /\ Pipes /\ OwnAnswer /\ Fresh /\ Rows /\ Chosen /\ Locked /\ Pumps /\ Failed
-----------------------------------------------------------------------------
(* Sequences *)

\* Removing a place of the line leaves a line.
LEMMA RemoveAtType ==
    ASSUME NEW S, NEW s \in Seq(S), NEW i \in 1 .. Len(s)
    PROVE  Lease!RemoveAt(s, i) \in Seq(S)
<1>1. /\ Len(s) \in Nat /\ \A j \in 1 .. Len(s) : s[j] \in S
    OBVIOUS
<1>2. SubSeq(s, 1, i - 1) \in Seq(S) /\ SubSeq(s, i + 1, Len(s)) \in Seq(S)
    BY <1>1, SubSeqProperties
<1> QED
    BY <1>2 DEF Lease!RemoveAt

\* What is read from a pipe leaves the rest of it.
LEMMA PipeFacts ==
    ASSUME NEW S, NEW s \in Seq(S), s # <<>>
    PROVE  /\ Len(s) \in Nat \ {0} /\ Head(s) = s[1] /\ Head(s) \in S
           /\ Tail(s) \in Seq(S) /\ Len(Tail(s)) = Len(s) - 1
           /\ \A j \in 1 .. Len(s) - 1 : Tail(s)[j] = s[j + 1]
    BY HeadTailProperties, EmptySeq, LenProperties

\* What is written to it comes after what was there.
LEMMA AppendPipeFacts ==
    ASSUME NEW S, NEW s \in Seq(S), NEW e \in S
    PROVE  /\ Append(s, e) \in Seq(S) /\ Len(s) \in Nat /\ Len(Append(s, e)) = Len(s) + 1
           /\ \A j \in 1 .. Len(s) : Append(s, e)[j] = s[j]
           /\ Append(s, e)[Len(s) + 1] = e /\ Append(s, e) # <<>>
    BY AppendProperties

\* Counting along the answer.
LEMMA Sums ==
    \A a, b, c \in Nat : /\ c = a + 1 => a + (b + 1) = c + b
                         /\ c = a + b => c + 1 = a + (b + 1)
                         /\ a + 1 - 1 = a
    OBVIOUS

-----------------------------------------------------------------------------
(* Extremes *)

\* A set of naturals that is not empty has a least element.
LEMMA Least ==
    ASSUME NEW T \in SUBSET Nat, T # {}
    PROVE  \E x \in T : \A y \in T : x <= y
<1> DEFINE R == {pair \in Nat \X Nat : pair[1] < pair[2]}
<1>1. OpToRel(<, Nat) = R
    BY DEF OpToRel
<1>2. IsWellFoundedOn(R, Nat)
    BY <1>1, NatLessThanWellFounded
<1>3. \A x, y \in Nat : y < x => <<y, x>> \in R
    OBVIOUS
<1> HIDE DEF R
<1>4. PICK x \in T : \A y \in T : <<y, x>> \notin R
    <2>1. \E x \in T : \A y \in T : ~ (<<y, x>> \in R)
        BY <1>2, WFMin
    <2> QED
        BY <2>1
<1>5. ASSUME NEW y \in T PROVE x <= y
    <2>1. x \in Nat /\ y \in Nat
        OBVIOUS
    <2>2. ~ (y < x)
        BY <2>1, <1>3, <1>4
    <2> QED
        BY <2>1, <2>2
<1> QED
    BY <1>5

\* One that is bounded has a greatest.
LEMMA Greatest ==
    ASSUME NEW T \in SUBSET Int, T # {}, NEW n \in Int, \A x \in T : x <= n
    PROVE  \E x \in T : \A y \in T : y <= x
<1> DEFINE D == {n - x : x \in T}
<1>1. D \in SUBSET Nat /\ D # {}
    <2>1. \A x \in T : x \in Int /\ n - x \in Nat
        OBVIOUS
    <2>2. PICK x \in T : TRUE
        OBVIOUS
    <2>3. n - x \in D
        OBVIOUS
    <2> QED
        BY <2>1, <2>3
<1>2. PICK d \in D : \A e \in D : d <= e
    <2> HIDE DEF D
    <2> QED
        BY <1>1, Least
<1>3. PICK x \in T : d = n - x
    OBVIOUS
<1>4. ASSUME NEW y \in T PROVE y <= x
    <2>1. n - y \in D
        OBVIOUS
    <2>2. n - x <= n - y
        BY <1>2, <1>3, <2>1
    <2> QED
        BY <2>2
<1> QED
    BY <1>4

\* A function with bounded integer values has its greatest somewhere in a set.
LEMMA GreatestAt ==
    ASSUME NEW S, S # {}, NEW f \in [S -> Int], NEW n \in Int, \A s \in S : f[s] <= n
    PROVE  \E s \in S : \A t \in S : f[s] >= f[t]
<1> DEFINE T == {f[s] : s \in S}
<1>1. T \in SUBSET Int /\ T # {} /\ \A x \in T : x <= n
    OBVIOUS
<1>2. PICK x \in T : \A y \in T : y <= x
    <2> HIDE DEF T
    <2> QED
        BY <1>1, Greatest
<1>3. PICK s \in S : x = f[s]
    OBVIOUS
<1> QED
    BY <1>2, <1>3

\* ... and with natural values its least.
LEMMA LeastAt ==
    ASSUME NEW S, S # {}, NEW f \in [S -> Nat]
    PROVE  \E s \in S : \A t \in S : f[s] <= f[t]
<1> DEFINE T == {f[s] : s \in S}
<1>1. T \in SUBSET Nat /\ T # {}
    OBVIOUS
<1>2. PICK x \in T : \A y \in T : x <= y
    <2> HIDE DEF T
    <2> QED
        BY <1>1, Least
<1>3. PICK s \in S : x = f[s]
    OBVIOUS
<1> QED
    BY <1>2, <1>3

-----------------------------------------------------------------------------
(* PrefixSlotRouter *)

\* The longest common prefix of two texts is one of both, and as long as any other.
LEMMA PrefixFacts ==
    ASSUME NEW a \in Text, NEW b \in Text
    PROVE  LET lcp == LongestCommonPrefix({a, b}) IN
           /\ Len(lcp) \in Nat /\ Len(lcp) <= Len(a) /\ Len(lcp) <= Len(b)
           /\ IsPrefix(a, b) => Len(lcp) = Len(a)
<1> DEFINE C == CommonPrefixes({a, b})
           L == {Len(x) : x \in C}
<1>0. Len(a) \in Nat /\ Len(b) \in Nat
    BY DEF Text
<1>1. \A x \in C : Len(x) \in Nat /\ Len(x) <= Len(a) /\ Len(x) <= Len(b)
    <2> SUFFICES ASSUME NEW x \in C PROVE Len(x) \in Nat /\ Len(x) <= Len(a) /\ Len(x) <= Len(b)
        OBVIOUS
    <2>1. IsPrefix(x, a) /\ IsPrefix(x, b) /\ x \in Prefixes(a) \cup Prefixes(b)
        BY DEF CommonPrefixes
    <2>2. Len(x) <= Len(a) /\ Len(x) <= Len(b)
        BY <2>1 DEF IsPrefix
    <2>3. ASSUME NEW s \in Text, x \in Prefixes(s) PROVE Len(x) \in Nat
        <3>1. PICK l \in 0 .. Len(s) : x = SubSeq(s, 1, l)
            BY <2>3 DEF Prefixes
        <3> QED
            BY <3>1 DEF Text
    <2> QED
        BY <2>1, <2>2, <2>3
<1>2. <<>> \in C
    <2>1. \A s \in Text : SubSeq(s, 1, 0) = <<>>
        BY DEF Text
    <2>2. <<>> \in Prefixes(a)
        BY <1>0, <2>1 DEF Prefixes
    <2>3. \A s \in Text : IsPrefix(<<>>, s)
        BY <2>1 DEF IsPrefix, Text
    <2> QED
        BY <2>2, <2>3 DEF CommonPrefixes
<1>3. PICK n \in L : \A m \in L : m <= n
    <2>1. \A m \in L : m \in Int /\ m <= Len(a)
        <3> HIDE DEF C
        <3> QED
            BY <1>1
    <2>2. Len(<<>>) \in L
        <3> HIDE DEF C
        <3> QED
            BY <1>2
    <2> HIDE DEF L
    <2>3. L \in SUBSET Int /\ L # {}
        BY <2>1, <2>2
    <2> QED
        BY Len(a) \in Int, <1>0, <2>1, <2>3, Greatest
<1>4. \E x \in C : \A y \in C : Len(y) <= Len(x)
    <2> HIDE DEF C
    <2> QED
        BY <1>3
<1> DEFINE lcp == LongestCommonPrefix({a, b})
<1>5. lcp \in C /\ \A y \in C : Len(y) <= Len(lcp)
    <2> HIDE DEF C
    <2> QED
        BY <1>4 DEF LongestCommonPrefix, C
<1>6. ASSUME IsPrefix(a, b) PROVE a \in C
    <2>1. SubSeq(a, 1, Len(a)) = a
        BY DEF Text
    <2>2. a \in Prefixes(a)
        <3>1. Len(a) \in 0 .. Len(a)
            BY <1>0
        <3> QED
            BY <2>1, <3>1 DEF Prefixes
    <2>3. IsPrefix(a, a)
        BY <1>0 DEF IsPrefix
    <2> QED
        BY <1>6, <2>2, <2>3 DEF CommonPrefixes
<1> HIDE DEF C, lcp
<1>7. Len(lcp) \in Nat /\ Len(lcp) <= Len(a) /\ Len(lcp) <= Len(b)
    BY <1>1, <1>5
<1>8. IsPrefix(a, b) => Len(lcp) = Len(a)
    BY <1>0, <1>5, <1>6, <1>7
<1> QED
    BY <1>7, <1>8 DEF lcp

\* What select() returns is a slot, never a worse continuation than another slot.
LEMMA SelectFacts ==
    ASSUME Types, NEW p \in Text
    PROVE  /\ Select(p) \in Slots
           /\ \A s \in Slots :
                 IsPrefix(prompts[s], p) => Len(LongestCommonPrefix({prompts[Select(p)], p})) >= Len(prompts[s])
<1> DEFINE shared == [s \in Slots |-> Shared(s, p)]
           Better(s) == IF Continues(p) THEN s \in Closest(p) /\ \A t \in Closest(p) : lastUsed[s] >= lastUsed[t]
                        ELSE IF Unused # {} THEN s = Min(Unused)
                        ELSE s \in Closest(p) /\ \A t \in Closest(p) : lastUsed[s] <= lastUsed[t]
<1>0. /\ prompts \in [Slots -> Text] /\ lastUsed \in [Slots -> Nat] /\ clock \in Nat
      /\ \A s \in Slots : lastUsed[s] <= clock /\ (lastUsed[s] = 0 => prompts[s] = <<>>)
      /\ Slots # {} /\ Slots \in SUBSET Nat
    <2>1. Slots # {} /\ Slots \in SUBSET Nat
        <3>1. KvSlots \in Nat /\ KvSlots >= 1
            BY GatewayAssumption
        <3>2. 1 \in Slots
            BY <3>1 DEF Slots
        <3> QED
            BY <3>1, <3>2 DEF Slots
    <2> QED
        BY <2>1 DEF Types
<1> DEFINE lcp(s) == LongestCommonPrefix({prompts[s], p})
<1>1. \A s \in Slots : Len(lcp(s)) \in Nat /\ Len(lcp(s)) <= Len(p)
                       /\ (IsPrefix(prompts[s], p) => Len(lcp(s)) = Len(prompts[s]))
    BY <1>0, PrefixFacts
<1>2. Len(p) \in Nat
    BY DEF Text
<1>3. \A s \in Slots : Shared(s, p) = IF s \in Unused THEN -1 ELSE Len(lcp(s))
    BY DEF Shared
<1> HIDE DEF lcp
<1>4. \A s \in Slots : Shared(s, p) \in Int /\ Shared(s, p) <= Len(p)
    BY <1>1, <1>2, <1>3
<1>5. shared \in [Slots -> Int] /\ \A s \in Slots : shared[s] = Shared(s, p)
    BY <1>4
<1>6. Closest(p) # {} /\ Closest(p) \in SUBSET Slots
    <2> HIDE DEF shared
    <2>1. \A s \in Slots : shared[s] <= Len(p)
        BY <1>4, <1>5
    <2>2. Len(p) \in Int
        BY <1>2
    <2>3. \E s \in Slots : \A t \in Slots : shared[s] >= shared[t]
        BY <1>0, <1>5, <2>1, <2>2, GreatestAt
    <2> QED
        BY <1>5, <2>3 DEF Closest
<1>7. \E s \in Closest(p) : \A t \in Closest(p) : lastUsed[s] >= lastUsed[t]
    <2> DEFINE used == [s \in Closest(p) |-> lastUsed[s]]
    <2>1. used \in [Closest(p) -> Int] /\ \A s \in Closest(p) : used[s] = lastUsed[s] /\ used[s] <= clock
        <3>1. \A s \in Closest(p) : lastUsed[s] \in Int /\ lastUsed[s] <= clock
            BY <1>0, <1>6
        <3> QED
            BY <3>1
    <2>2. clock \in Int
        BY <1>0
    <2> HIDE DEF used
    <2>3. \E s \in Closest(p) : \A t \in Closest(p) : used[s] >= used[t]
        BY <1>6, <2>1, <2>2, GreatestAt
    <2> QED
        BY <2>1, <2>3
<1>8. \E s \in Closest(p) : \A t \in Closest(p) : lastUsed[s] <= lastUsed[t]
    <2> DEFINE used == [s \in Closest(p) |-> lastUsed[s]]
    <2>1. used \in [Closest(p) -> Nat] /\ \A s \in Closest(p) : used[s] = lastUsed[s]
        BY <1>0, <1>6
    <2> HIDE DEF used
    <2>2. \E s \in Closest(p) : \A t \in Closest(p) : used[s] <= used[t]
        BY <1>6, <2>1, LeastAt
    <2> QED
        BY <2>1, <2>2
<1>9. Unused # {} => Min(Unused) \in Slots
    <2> SUFFICES ASSUME Unused # {} PROVE Min(Unused) \in Slots
        OBVIOUS
    <2>1. Unused \in SUBSET Nat
        BY <1>0 DEF Unused
    <2>2. \E x \in Unused : \A y \in Unused : x <= y
        BY <2>1, Least
    <2>3. Min(Unused) \in Unused
        BY <2>2 DEF Min
    <2> QED
        BY <2>3 DEF Unused
<1>10. \E s \in Slots : Better(s)
    BY <1>6, <1>7, <1>8, <1>9
<1>11. Select(p) \in Slots /\ Better(Select(p))
    <2>1. Select(p) = CHOOSE s \in Slots : Better(s)
        BY DEF Select
    <2> HIDE DEF Better
    <2> QED
        BY <1>10, <2>1
<1>12. ASSUME NEW s \in Slots, IsPrefix(prompts[s], p) PROVE Len(lcp(Select(p))) >= Len(prompts[s])
    <2>1. CASE s \in Unused
        <3>1. prompts[s] = <<>> /\ Len(<<>>) = 0
            BY <1>0, <2>1 DEF Unused
        <3> QED
            BY <1>1, <1>11, <3>1
    <2>2. CASE s \notin Unused
        <3>1. Select(p) \in Closest(p)
            BY <1>11, <1>12, <2>2 DEF Continues
        <3>2. Shared(Select(p), p) >= Shared(s, p)
            BY <3>1 DEF Closest
        <3>3. Shared(s, p) = Len(prompts[s]) /\ Shared(s, p) \in Nat
            BY <1>1, <1>3, <1>12, <2>2
        <3> HIDE DEF Better
        <3> QED
            BY <1>1, <1>3, <1>11, <3>2, <3>3
    <2> QED
        BY <2>1, <2>2
<1> QED
    BY <1>11, <1>12 DEF lcp

-----------------------------------------------------------------------------
(* What a step leaves alone *)

\* A step of a request's handler, pump or client.
Step(r) == Arrive(r) \/ GiveUp(r) \/ Handler(r) \/ Pump(r) \/ Disconnect(r)

\* The handler and the response of a request are what they were.
Same(q) ==
    /\ pc'[q] = pc[q] /\ then'[q] = then[q] /\ slot'[q] = slot[q]
    /\ got'[q] = got[q] /\ stats'[q] = stats[q]
    /\ connected'[q] = connected[q] /\ kaStop'[q] = kaStop[q] /\ kaLock'[q] = kaLock[q] /\ pump'[q] = pump[q]

\* A request is where it was in its turn.
SameStage(q) ==
    /\ Before(q)' <=> Before(q)
    /\ Reading(q)' <=> Reading(q)
    /\ pc'[q] = "record" <=> pc[q] = "record"
    /\ Ending(q)' <=> Ending(q)
    /\ Raised(q)' <=> Raised(q)

LEMMA Domains ==
    ASSUME Types
    PROVE  /\ pc \in [Requests -> Labels] /\ then \in [Requests -> Targets] /\ slot \in [Requests -> 0 .. KvSlots]
           /\ got \in [Requests -> Seq(Messages)]
           /\ stats \in [Requests -> [req : Requests \cup {"none"}, chunks : Nat]]
           /\ connected \in [Requests -> BOOLEAN] /\ kaStop \in [Requests -> BOOLEAN]
           /\ kaLock \in [Requests -> Owners] /\ pump \in [Requests -> PumpLabels]
<1>1. pc \in [Requests -> Labels]
    BY DEF Types, TypeOK, Labels
<1>2. then \in [Requests -> Targets]
    BY DEF Types, Targets
<1>3. kaLock \in [Requests -> Owners] /\ pump \in [Requests -> PumpLabels]
    BY DEF Types, TypeOK, Owners, PumpLabels
<1>4. /\ slot \in [Requests -> 0 .. KvSlots]
      /\ connected \in [Requests -> BOOLEAN] /\ kaStop \in [Requests -> BOOLEAN]
    BY DEF Types, TypeOK
<1> QED
    BY <1>1, <1>2, <1>3, <1>4 DEF Types

\* The requests share nothing of a handler or a response.
LEMMA Others ==
    ASSUME Types, NEW r \in Requests, Step(r), NEW q \in Requests, q # r
    PROVE  Same(q)
<1> USE Domains DEF handler, response, Goto, Same
<1>1. CASE Arrive(r) \/ GiveUp(r) \/ Granted(r) \/ Release(r) \/ Disconnect(r)
    BY <1>1 DEF Arrive, GiveUp, Granted, Release, Disconnect
<1>2. CASE ChooseSlot(r) \/ SendHeaders(r) \/ EnterEvent(r) \/ BeginEvent(r) \/ EndEvent(r) \/ StartPump(r)
    BY <1>2 DEF ChooseSlot, SendHeaders, EnterEvent, BeginEvent, EndEvent, StartPump
<1>3. CASE Refuse(r) \/ WriteFrame(r) \/ ReadChunk(r) \/ ReadEnd(r) \/ ReadEof(r) \/ Record(r)
    BY <1>3 DEF Refuse, WriteFrame, ReadChunk, ReadEnd, ReadEof, Record
<1>4. CASE StopPump(r) \/ Join(r) \/ BeginDone(r) \/ EndDone(r) \/ BeginJson(r) \/ EndJson(r) \/ HangUp(r)
    BY <1>4 DEF StopPump, Join, BeginDone, EndDone, BeginJson, EndJson, HangUp
<1>5. CASE PumpWakes(r) \/ PumpStops(r) \/ PumpBegins(r) \/ PumpEnds(r)
    BY <1>5 DEF PumpWakes, PumpStops, PumpBegins, PumpEnds
<1> QED
    BY <1>1, <1>2, <1>3, <1>4, <1>5 DEF Step, Handler, Pump

\* An action that the handlers take no part in.
LEMMA Elsewhere ==
    ASSUME UNCHANGED handler, NEW q \in Requests
    PROVE  SameStage(q) /\ pc'[q] = pc[q] /\ then'[q] = then[q] /\ slot'[q] = slot[q]
           /\ got'[q] = got[q] /\ stats'[q] = stats[q]
    BY DEF handler, SameStage, Before, Reading, Ending, Raised

LEMMA SameFacts ==
    ASSUME NEW q \in Requests, Same(q)
    PROVE  SameStage(q)
    BY DEF Same, SameStage, Before, Reading, Ending, Raised

\* The actions of a handler within a stage.
LEMMA Within ==
    ASSUME Types, Returns, NEW r \in Requests,
           \/ ChooseSlot(r) \/ EnterEvent(r) \/ BeginEvent(r) \/ EndEvent(r) \/ StartPump(r) \/ ReadChunk(r)
           \/ StopPump(r) \/ Join(r) \/ BeginDone(r) \/ EndDone(r) \/ BeginJson(r) \/ HangUp(r)
    PROVE  SameStage(r)
<1> USE Domains DEF Goto, SameStage, Before, Reading, Ending, Raised, Sending
<1>1. CASE ChooseSlot(r) \/ StartPump(r) \/ StopPump(r) \/ Join(r) \/ BeginDone(r) \/ EndDone(r) \/ HangUp(r)
    BY <1>1 DEF ChooseSlot, StartPump, StopPump, Join, BeginDone, EndDone, HangUp
<1>2. CASE ReadChunk(r) \/ BeginJson(r)
    BY <1>2 DEF ReadChunk, BeginJson
<1>3. CASE EnterEvent(r) \/ BeginEvent(r) \/ EndEvent(r)
    <2>1. pc[r] \in Sending => then[r] \in {"startPump", "read", "done"}
        BY DEF Returns
    <2> QED
        BY <1>3, <2>1 DEF EnterEvent, BeginEvent, EndEvent
<1> QED
    BY <1>1, <1>2, <1>3

-----------------------------------------------------------------------------
(* Types *)

LEMMA Initially == Init => IInv
<1> SUFFICES ASSUME Init PROVE IInv
    OBVIOUS
<1> USE GatewayAssumption DEF Init
<1>1. Types
    <2>1. TypeOK
        BY DEF TypeOK, Lease!Init, NoStats, Slots
    <2>2. \A S : <<>> \in Seq(S)
        OBVIOUS
    <2>3. /\ then \in [Requests -> Targets]
          /\ got \in [Requests -> Seq(Messages)]
          /\ stats \in [Requests -> [req : Requests \cup {"none"}, chunks : Nat]]
        BY <2>2 DEF Targets, NoStats
    <2>4. /\ prompts \in [Slots -> Text] /\ lastUsed \in [Slots -> Nat] /\ clock \in Nat
          /\ \A s \in Slots : lastUsed[s] <= clock /\ (lastUsed[s] = 0 => prompts[s] = <<>>)
          /\ kv \in [Slots -> Text]
        BY <2>2 DEF Text
    <2>5. /\ turn \in Frames \cup {<<>>} /\ (engine = "busy" => turn \in Frames)
          /\ stdin \in Seq(Frames) /\ stdout \in Seq(Messages) /\ made \in 0 .. MaxChunks
        BY <2>2
    <2> QED
        BY <2>1, <2>3, <2>4, <2>5 DEF Types
<1>2. Leases /\ Returns
    BY DEF Leases, Returns, Lease!Init, Leased, Before, Reading, Ending, Raised, Sending
<1>3. Pipes /\ Fresh
    BY DEF Pipes, Quiet, Fresh, Reading, Sending, Before
<1>4. OwnAnswer
    BY DEF OwnAnswer
<1>5. Rows /\ Chosen
    BY DEF Rows, Chosen, Working, Reading, Before, Sending
<1>6. Locked /\ Pumps
    BY DEF Locked, Pumps, Sending
<1>7. Failed
    BY DEF Failed, Erring
<1> QED
    BY <1>1, <1>2, <1>3, <1>4, <1>5, <1>6, <1>7 DEF IInv

LEMMA LeaseTypeNext ==
    ASSUME Types, Next
    PROVE  holders' \subseteq Requests /\ line' \in Seq(Requests) /\ open' \in BOOLEAN
<1>1. holders \subseteq Requests /\ line \in Seq(Requests) /\ open \in BOOLEAN
    BY DEF Types, TypeOK
<1>2. CASE UNCHANGED lease
    BY <1>1, <1>2 DEF lease
<1>3. ASSUME NEW r \in Requests, Lease!GrantAtOnce(r) \/ Lease!Join(r) \/ Lease!Grant(r) \/ Lease!Release(r)
      PROVE  holders' \subseteq Requests /\ line' \in Seq(Requests) /\ open' \in BOOLEAN
    <2>1. line # <<>> => Tail(line) \in Seq(Requests)
        BY <1>1, PipeFacts
    <2>2. Append(line, r) \in Seq(Requests)
        BY <1>1
    <2> QED
        BY <1>1, <1>3, <2>1, <2>2 DEF Lease!GrantAtOnce, Lease!Join, Lease!Grant, Lease!Release
<1>4. ASSUME NEW i \in 1 .. Len(line), Lease!Leave(i)
      PROVE  holders' \subseteq Requests /\ line' \in Seq(Requests) /\ open' \in BOOLEAN
    BY <1>1, <1>4, RemoveAtType DEF Lease!Leave
<1>5. CASE Lease!Close
    BY <1>1, <1>5 DEF Lease!Close
<1>6. ASSUME NEW r \in Requests, Step(r)
      PROVE  \/ UNCHANGED lease
             \/ Lease!GrantAtOnce(r) \/ Lease!Join(r) \/ Lease!Grant(r) \/ Lease!Release(r)
             \/ \E i \in 1 .. Len(line) : Lease!Leave(i)
    <2>1. CASE Arrive(r) \/ GiveUp(r) \/ Granted(r) \/ Release(r)
        BY <2>1 DEF Arrive, GiveUp, Granted, Release
    <2>2. CASE ChooseSlot(r) \/ SendHeaders(r) \/ EnterEvent(r) \/ BeginEvent(r) \/ EndEvent(r) \/ StartPump(r)
        BY <2>2 DEF ChooseSlot, SendHeaders, EnterEvent, BeginEvent, EndEvent, StartPump
    <2>3. CASE Refuse(r) \/ WriteFrame(r) \/ ReadChunk(r) \/ ReadEnd(r) \/ ReadEof(r) \/ Record(r)
        BY <2>3 DEF Refuse, WriteFrame, ReadChunk, ReadEnd, ReadEof, Record
    <2>4. CASE StopPump(r) \/ Join(r) \/ BeginDone(r) \/ EndDone(r) \/ BeginJson(r) \/ EndJson(r) \/ HangUp(r)
        BY <2>4 DEF StopPump, Join, BeginDone, EndDone, BeginJson, EndJson, HangUp
    <2>5. CASE PumpWakes(r) \/ PumpStops(r) \/ PumpBegins(r) \/ PumpEnds(r) \/ Disconnect(r)
        BY <2>5 DEF PumpWakes, PumpStops, PumpBegins, PumpEnds, Disconnect
    <2> QED
        BY <1>6, <2>1, <2>2, <2>3, <2>4, <2>5 DEF Step, Handler, Pump
<1>7. CASE Engine \/ EngineDies
    BY <1>2, <1>7 DEF Engine, TakeFrame, Speak, EndTurn, EngineDies
<1>8. CASE Shutdown
    BY <1>5, <1>8 DEF Shutdown
<1> QED
    <2>1. ASSUME NEW r \in Requests, Step(r)
          PROVE  holders' \subseteq Requests /\ line' \in Seq(Requests) /\ open' \in BOOLEAN
        BY <1>2, <1>3, <1>4, <1>6, <2>1
    <2> QED
        BY <1>7, <1>8, <2>1 DEF Next, Step

\* Handlers go to places that exist; from ChooseSlot on they have a slot.
LEMMA HandlerTypeNext ==
    ASSUME Types, Returns, Next
    PROVE  /\ pc' \in [Requests -> Labels] /\ then' \in [Requests -> Targets]
           /\ slot' \in [Requests -> 0 .. KvSlots]
           /\ \A r \in Requests : slot'[r] = 0 <=> pc'[r] \in {"idle", "waiting", "refused", "leased"}
<1> DEFINE Goal == /\ pc' \in [Requests -> Labels] /\ then' \in [Requests -> Targets]
                   /\ slot' \in [Requests -> 0 .. KvSlots]
                   /\ \A r \in Requests : slot'[r] = 0 <=> pc'[r] \in {"idle", "waiting", "refused", "leased"}
<1>1. /\ pc \in [Requests -> Labels] /\ then \in [Requests -> Targets]
      /\ slot \in [Requests -> 0 .. KvSlots]
      /\ \A r \in Requests : slot[r] = 0 <=> pc[r] \in {"idle", "waiting", "refused", "leased"}
    BY Domains DEF Types, TypeOK
<1>2. ASSUME UNCHANGED handler PROVE Goal
    BY <1>1, <1>2 DEF handler
<1>3. ASSUME NEW r \in Requests, Step(r) PROVE Goal
    <2> USE <1>1 DEF Goto, Labels, Targets
    <2>1. CASE Arrive(r) \/ GiveUp(r) \/ Granted(r)
        BY <2>1 DEF Arrive, GiveUp, Granted
    <2>2. CASE ChooseSlot(r)
        <3>1. \A s \in Slots : s \in 0 .. KvSlots /\ s # 0
            BY GatewayAssumption DEF Slots
        <3>2. Prompt[r] \in Text
            BY GatewayAssumption DEF Text
        <3>3. \E s \in Slots : slot' = [slot EXCEPT ![r] = s]
            BY <2>2, <3>2, SelectFacts DEF ChooseSlot
        <3>4. pc' = [pc EXCEPT ![r] = IF r \in Streams THEN "headers" ELSE "frame"] /\ then' = then
            BY <2>2 DEF ChooseSlot
        <3> QED
            BY <3>1, <3>3, <3>4
    <2>3. CASE SendHeaders(r) \/ StartPump(r)
        BY <2>3 DEF SendHeaders, StartPump
    <2>4. CASE EnterEvent(r) \/ BeginEvent(r) \/ EndEvent(r) \/ EndJson(r)
        <3>1. /\ pc[r] \in {"event", "lock", "write"} => then[r] \in {"startPump", "read", "done"}
              /\ pc[r] = "writeJson" => then[r] \in {"release", "finish"}
            BY DEF Returns, Sending
        <3> QED
            BY <2>4, <3>1 DEF EnterEvent, BeginEvent, EndEvent, EndJson
    <2>5. CASE Refuse(r) \/ WriteFrame(r) \/ ReadChunk(r)
        <3>1. CASE Refuse(r) \/ WriteFrame(r)
            BY <3>1 DEF Refuse, WriteFrame
        <3>2. CASE ReadChunk(r)
            BY <3>2 DEF ReadChunk
        <3> QED
            BY <2>5, <3>1, <3>2
    <2>6. CASE ReadEnd(r) \/ ReadEof(r) \/ Record(r)
        BY <2>6 DEF ReadEnd, ReadEof, Record
    <2>7. CASE StopPump(r) \/ Join(r) \/ BeginDone(r) \/ EndDone(r)
        BY <2>7 DEF StopPump, Join, BeginDone, EndDone
    <2>8. CASE BeginJson(r) \/ Release(r) \/ HangUp(r)
        BY <2>8 DEF BeginJson, Release, HangUp
    <2>9. CASE PumpWakes(r) \/ PumpStops(r) \/ PumpBegins(r) \/ PumpEnds(r) \/ Disconnect(r)
        BY <1>2, <2>9 DEF PumpWakes, PumpStops, PumpBegins, PumpEnds, Disconnect
    <2> QED
        BY <1>3, <2>1, <2>2, <2>3, <2>4, <2>5, <2>6, <2>7, <2>8, <2>9 DEF Step, Handler, Pump
<1>4. CASE Engine \/ EngineDies \/ Shutdown
    BY <1>2, <1>4 DEF Engine, TakeFrame, Speak, EndTurn, EngineDies, Shutdown
<1> QED
    BY <1>3, <1>4 DEF Next, Step

LEMMA ResponseTypeNext ==
    ASSUME Types, Next
    PROVE  /\ connected' \in [Requests -> BOOLEAN] /\ kaStop' \in [Requests -> BOOLEAN]
           /\ kaLock' \in [Requests -> Owners] /\ pump' \in [Requests -> PumpLabels]
           /\ gone' \subseteq Requests /\ hungUp' \subseteq Requests
<1> DEFINE Goal == /\ connected' \in [Requests -> BOOLEAN] /\ kaStop' \in [Requests -> BOOLEAN]
                   /\ kaLock' \in [Requests -> Owners] /\ pump' \in [Requests -> PumpLabels]
                   /\ gone' \subseteq Requests /\ hungUp' \subseteq Requests
<1>1. /\ connected \in [Requests -> BOOLEAN] /\ kaStop \in [Requests -> BOOLEAN]
      /\ kaLock \in [Requests -> Owners] /\ pump \in [Requests -> PumpLabels]
      /\ gone \subseteq Requests /\ hungUp \subseteq Requests
    BY Domains DEF Types, TypeOK
<1>2. ASSUME UNCHANGED <<response, network>> PROVE Goal
    BY <1>1, <1>2 DEF response, network
<1>3. ASSUME NEW r \in Requests, Step(r) PROVE Goal
    <2>1. CASE \/ Arrive(r) \/ GiveUp(r) \/ Granted(r) \/ ChooseSlot(r) \/ SendHeaders(r) \/ EnterEvent(r)
               \/ Refuse(r) \/ WriteFrame(r) \/ ReadChunk(r) \/ ReadEnd(r) \/ ReadEof(r) \/ Record(r)
        BY <1>2, <2>1 DEF Arrive, GiveUp, Granted, ChooseSlot, SendHeaders, EnterEvent,
                          Refuse, WriteFrame, ReadChunk, ReadEnd, ReadEof, Record
    <2>2. CASE Join(r) \/ BeginDone(r) \/ EndDone(r) \/ Release(r) \/ BeginJson(r) \/ EndJson(r)
        BY <1>2, <2>2 DEF Join, BeginDone, EndDone, Release, BeginJson, EndJson
    <2>3. CASE BeginEvent(r) \/ EndEvent(r) \/ StartPump(r) \/ StopPump(r)
        BY <1>1, <2>3 DEF BeginEvent, EndEvent, StartPump, StopPump, network, Owners, PumpLabels
    <2>4. CASE HangUp(r) \/ Disconnect(r)
        BY <1>1, <2>4 DEF HangUp, Disconnect, response
    <2>5. CASE PumpWakes(r) \/ PumpStops(r) \/ PumpBegins(r) \/ PumpEnds(r)
        BY <1>1, <2>5 DEF PumpWakes, PumpStops, PumpBegins, PumpEnds, network, Owners, PumpLabels
    <2> QED
        BY <1>3, <2>1, <2>2, <2>3, <2>4, <2>5 DEF Step, Handler, Pump
<1>4. CASE Engine \/ EngineDies \/ Shutdown
    BY <1>2, <1>4 DEF Engine, TakeFrame, Speak, EndTurn, EngineDies, Shutdown
<1> QED
    BY <1>3, <1>4 DEF Next, Step

\* What a handler receives is what the pipe holds.
LEMMA AnswerTypeNext ==
    ASSUME Types, Pipes, Next
    PROVE  /\ got' \in [Requests -> Seq(Messages)]
           /\ stats' \in [Requests -> [req : Requests \cup {"none"}, chunks : Nat]]
           /\ \A r \in Requests : stats'[r].chunks \in 0 .. MaxChunks
<1> DEFINE Goal == /\ got' \in [Requests -> Seq(Messages)]
                   /\ stats' \in [Requests -> [req : Requests \cup {"none"}, chunks : Nat]]
                   /\ \A r \in Requests : stats'[r].chunks \in 0 .. MaxChunks
<1>1. /\ got \in [Requests -> Seq(Messages)]
      /\ stats \in [Requests -> [req : Requests \cup {"none"}, chunks : Nat]]
      /\ \A r \in Requests : stats[r].chunks \in 0 .. MaxChunks
      /\ stdout \in Seq(Messages)
    BY DEF Types, TypeOK
<1>2. ASSUME UNCHANGED <<got, stats>> PROVE Goal
    BY <1>1, <1>2
<1>3. ASSUME NEW r \in Requests, Step(r) PROVE Goal
    <2>1. CASE \/ Arrive(r) \/ GiveUp(r) \/ Granted(r) \/ ChooseSlot(r) \/ SendHeaders(r) \/ EnterEvent(r)
               \/ BeginEvent(r) \/ EndEvent(r) \/ StartPump(r) \/ Refuse(r) \/ WriteFrame(r) \/ ReadEof(r) \/ Record(r)
        BY <1>2, <2>1 DEF Arrive, GiveUp, Granted, ChooseSlot, SendHeaders, EnterEvent,
                          BeginEvent, EndEvent, StartPump, Refuse, WriteFrame, ReadEof, Record
    <2>2. CASE \/ StopPump(r) \/ Join(r) \/ BeginDone(r) \/ EndDone(r) \/ Release(r) \/ BeginJson(r)
               \/ EndJson(r) \/ HangUp(r)
        BY <1>2, <2>2 DEF StopPump, Join, BeginDone, EndDone, Release, BeginJson, EndJson, HangUp
    <2>3. CASE PumpWakes(r) \/ PumpStops(r) \/ PumpBegins(r) \/ PumpEnds(r) \/ Disconnect(r)
        BY <1>2, <2>3 DEF PumpWakes, PumpStops, PumpBegins, PumpEnds, Disconnect, handler
    <2>4. CASE ReadChunk(r)
        <3>1. Head(stdout) \in Messages
            BY <1>1, <2>4, PipeFacts DEF ReadChunk
        <3>2. Append(got[r], Head(stdout)) \in Seq(Messages)
            BY <1>1, <3>1
        <3> QED
            BY <1>1, <2>4, <3>2 DEF ReadChunk
    <2>5. CASE ReadEnd(r)
        <3>1. /\ stats' = [stats EXCEPT ![r] = [req |-> Head(stdout).req, chunks |-> Head(stdout).n]]
              /\ got' = got /\ pc[r] = "read" /\ stdout # <<>>
            BY <2>5 DEF ReadEnd
        <3>2. Head(stdout) \in Messages /\ Head(stdout) = stdout[1] /\ 1 \in 1 .. Len(stdout)
            BY <1>1, <3>1, PipeFacts
        <3>3. Head(stdout).req \in Requests /\ Head(stdout).n \in Nat
            BY <3>2 DEF Messages
        <3>4. Head(stdout).n <= MaxChunks
            BY <3>1, <3>2 DEF Pipes, Reading, Answering, Expected
        <3>5. MaxChunks \in Nat
            BY GatewayAssumption
        <3> DEFINE final == [req |-> Head(stdout).req, chunks |-> Head(stdout).n]
        <3>6. final \in [req : Requests \cup {"none"}, chunks : Nat] /\ final.chunks \in 0 .. MaxChunks
            BY <3>3, <3>4, <3>5
        <3>7. stats' = [stats EXCEPT ![r] = final]
            BY <3>1
        <3> HIDE DEF final
        <3> QED
            BY <1>1, <3>1, <3>6, <3>7
    <2> QED
        BY <1>3, <2>1, <2>2, <2>3, <2>4, <2>5 DEF Step, Handler, Pump
<1>4. CASE Engine \/ EngineDies \/ Shutdown
    BY <1>2, <1>4 DEF Engine, TakeFrame, Speak, EndTurn, EngineDies, Shutdown, handler
<1> QED
    BY <1>3, <1>4 DEF Next, Step

\* Only Record changes the router.
LEMMA RouterSteps ==
    ASSUME Next, \A r \in Requests : ~Record(r)
    PROVE  UNCHANGED router
<1>1. ASSUME NEW r \in Requests, Step(r) PROVE UNCHANGED router
    <2>1. CASE \/ Arrive(r) \/ GiveUp(r) \/ Granted(r) \/ ChooseSlot(r) \/ SendHeaders(r) \/ EnterEvent(r)
               \/ BeginEvent(r) \/ EndEvent(r) \/ StartPump(r) \/ Refuse(r) \/ WriteFrame(r) \/ ReadChunk(r) \/ ReadEnd(r)
               \/ ReadEof(r)
        BY <2>1 DEF Arrive, GiveUp, Granted, ChooseSlot, SendHeaders, EnterEvent,
                    BeginEvent, EndEvent, StartPump, Refuse, WriteFrame, ReadChunk, ReadEnd, ReadEof
    <2>2. CASE \/ StopPump(r) \/ Join(r) \/ BeginDone(r) \/ EndDone(r) \/ Release(r) \/ BeginJson(r)
               \/ EndJson(r) \/ HangUp(r)
        BY <2>2 DEF StopPump, Join, BeginDone, EndDone, Release, BeginJson, EndJson, HangUp
    <2>3. CASE PumpWakes(r) \/ PumpStops(r) \/ PumpBegins(r) \/ PumpEnds(r) \/ Disconnect(r)
        BY <2>3 DEF PumpWakes, PumpStops, PumpBegins, PumpEnds, Disconnect
    <2> QED
        BY <1>1, <2>1, <2>2, <2>3 DEF Step, Handler, Pump
<1>2. CASE Engine \/ EngineDies \/ Shutdown
    BY <1>2 DEF Engine, TakeFrame, Speak, EndTurn, EngineDies, Shutdown
<1> QED
    BY <1>1, <1>2 DEF Next, Step

LEMMA RouterTypeNext ==
    ASSUME Types, Next
    PROVE  /\ prompts' \in [Slots -> Text] /\ lastUsed' \in [Slots -> Nat] /\ clock' \in Nat
           /\ \A s \in Slots : lastUsed'[s] <= clock' /\ (lastUsed'[s] = 0 => prompts'[s] = <<>>)
<1>1. /\ prompts \in [Slots -> Text] /\ lastUsed \in [Slots -> Nat] /\ clock \in Nat
      /\ \A s \in Slots : lastUsed[s] <= clock /\ (lastUsed[s] = 0 => prompts[s] = <<>>)
    BY DEF Types
<1>2. ASSUME NEW r \in Requests, Record(r)
      PROVE  /\ prompts' \in [Slots -> Text] /\ lastUsed' \in [Slots -> Nat] /\ clock' \in Nat
             /\ \A s \in Slots : lastUsed'[s] <= clock' /\ (lastUsed'[s] = 0 => prompts'[s] = <<>>)
    <2>1. /\ clock' = clock + 1 /\ prompts' = [prompts EXCEPT ![slot[r]] = Prompt[r]]
          /\ lastUsed' = [lastUsed EXCEPT ![slot[r]] = clock + 1]
        BY <1>2 DEF Record
    <2>2. Prompt[r] \in Text
        BY GatewayAssumption DEF Text
    <2>3. clock + 1 \in Nat /\ clock <= clock + 1 /\ clock + 1 # 0
        BY <1>1
    <2>4. prompts' \in [Slots -> Text] /\ lastUsed' \in [Slots -> Nat]
        BY <1>1, <2>1, <2>2, <2>3
    <2>5. ASSUME NEW s \in Slots PROVE lastUsed'[s] <= clock + 1 /\ (lastUsed'[s] = 0 => prompts'[s] = <<>>)
        <3>1. CASE s = slot[r]
            BY <1>1, <2>1, <2>3, <3>1
        <3>2. CASE s # slot[r]
            <4>1. lastUsed'[s] = lastUsed[s] /\ prompts'[s] = prompts[s]
                BY <1>1, <2>1, <3>2
            <4>2. lastUsed[s] \in Nat /\ lastUsed[s] <= clock /\ (lastUsed[s] = 0 => prompts[s] = <<>>)
                BY <1>1
            <4> QED
                BY <1>1, <4>1, <4>2
        <3> QED
            BY <3>1, <3>2
    <2> QED
        BY <2>1, <2>3, <2>4, <2>5
<1>3. CASE \A r \in Requests : ~Record(r)
    BY <1>1, <1>3, RouterSteps DEF router
<1> QED
    BY <1>2, <1>3

\* A request has a slot from ChooseSlot on.
LEMMA SlotFacts ==
    ASSUME Types, NEW r \in Requests, pc[r] \notin {"idle", "waiting", "refused", "leased"}
    PROVE  slot[r] \in Slots
<1>1. slot[r] \in 0 .. KvSlots /\ slot[r] # 0
    BY DEF Types, TypeOK
<1>2. KvSlots \in Nat
    BY GatewayAssumption
<1> QED
    BY <1>1, <1>2 DEF Slots

\* Only these touch the pipes and the engine.
LEMMA ProcessSteps ==
    ASSUME NEW r \in Requests, Step(r)
    PROVE  WriteFrame(r) \/ ReadChunk(r) \/ ReadEnd(r) \/ UNCHANGED process
<1>1. CASE \/ Arrive(r) \/ GiveUp(r) \/ Granted(r) \/ ChooseSlot(r) \/ SendHeaders(r) \/ EnterEvent(r)
           \/ BeginEvent(r) \/ EndEvent(r) \/ StartPump(r) \/ Refuse(r) \/ ReadEof(r) \/ Record(r)
    BY <1>1 DEF Arrive, GiveUp, Granted, ChooseSlot, SendHeaders, EnterEvent,
                BeginEvent, EndEvent, StartPump, Refuse, ReadEof, Record
<1>2. CASE \/ StopPump(r) \/ Join(r) \/ BeginDone(r) \/ EndDone(r) \/ Release(r) \/ BeginJson(r)
           \/ EndJson(r) \/ HangUp(r)
    BY <1>2 DEF StopPump, Join, BeginDone, EndDone, Release, BeginJson, EndJson, HangUp
<1>3. CASE PumpWakes(r) \/ PumpStops(r) \/ PumpBegins(r) \/ PumpEnds(r) \/ Disconnect(r)
    BY <1>3 DEF PumpWakes, PumpStops, PumpBegins, PumpEnds, Disconnect
<1> QED
    BY <1>1, <1>2, <1>3 DEF Step, Handler, Pump

LEMMA ProcessTypeNext ==
    ASSUME Types, Next
    PROVE  /\ engine' \in {"idle", "busy", "dead"}
           /\ turn' \in Frames \cup {<<>>} /\ (engine' = "busy" => turn' \in Frames)
           /\ stdin' \in Seq(Frames) /\ stdout' \in Seq(Messages) /\ made' \in 0 .. MaxChunks
           /\ kv' \in [Slots -> Text]
<1> DEFINE Goal == /\ engine' \in {"idle", "busy", "dead"}
                   /\ turn' \in Frames \cup {<<>>} /\ (engine' = "busy" => turn' \in Frames)
                   /\ stdin' \in Seq(Frames) /\ stdout' \in Seq(Messages) /\ made' \in 0 .. MaxChunks
                   /\ kv' \in [Slots -> Text]
<1>1. /\ engine \in {"idle", "busy", "dead"}
      /\ turn \in Frames \cup {<<>>} /\ (engine = "busy" => turn \in Frames)
      /\ stdin \in Seq(Frames) /\ stdout \in Seq(Messages) /\ made \in 0 .. MaxChunks
      /\ kv \in [Slots -> Text]
    BY DEF Types, TypeOK
<1>2. MaxChunks \in Nat
    BY GatewayAssumption
<1>3. ASSUME UNCHANGED process PROVE Goal
    BY <1>1, <1>3 DEF process
<1>4. ASSUME NEW r \in Requests, Step(r) PROVE Goal
    <2>1. CASE WriteFrame(r)
        <3>1. slot[r] \in Slots
            BY <2>1, SlotFacts DEF WriteFrame
        <3>2. [req |-> r, slot |-> slot[r]] \in Frames
            BY <3>1 DEF Frames
        <3>3. Append(stdin, [req |-> r, slot |-> slot[r]]) \in Seq(Frames)
            BY <1>1, <3>2
        <3> QED
            BY <1>1, <2>1, <3>3 DEF WriteFrame
    <2>2. CASE ReadChunk(r) \/ ReadEnd(r)
        <3>1. Tail(stdout) \in Seq(Messages)
            BY <1>1, <2>2, PipeFacts DEF ReadChunk, ReadEnd
        <3> QED
            BY <1>1, <2>2, <3>1 DEF ReadChunk, ReadEnd
    <2> QED
        BY <1>3, <1>4, <2>1, <2>2, ProcessSteps
<1>5. CASE TakeFrame
    <2>1. stdin # <<>>
        BY <1>5 DEF TakeFrame
    <2>2. Head(stdin) \in Frames /\ Tail(stdin) \in Seq(Frames)
        BY <1>1, <2>1, PipeFacts
    <2>3. Prompt[Head(stdin).req] \in Text
        BY <2>2, GatewayAssumption DEF Frames, Text
    <2>4. kv' \in [Slots -> Text]
        BY <1>1, <1>5, <2>3 DEF TakeFrame
    <2>5. made' \in 0 .. MaxChunks /\ engine' = "busy" /\ stdout' \in Seq(Messages)
        BY <1>1, <1>2, <1>5 DEF TakeFrame
    <2>6. turn' \in Frames /\ stdin' \in Seq(Frames)
        BY <1>5, <2>2 DEF TakeFrame
    <2> QED
        BY <2>4, <2>5, <2>6
<1>6. CASE Speak \/ EndTurn
    <2>1. turn.req \in Requests
        BY <1>1, <1>6 DEF Speak, EndTurn, Frames
    <2>2. Chunk(turn.req, made + 1) \in Messages /\ End(turn.req, made) \in Messages
        BY <1>1, <1>2, <2>1 DEF Chunk, End, Messages
    <2>3. Append(stdout, Chunk(turn.req, made + 1)) \in Seq(Messages) /\ Append(stdout, End(turn.req, made)) \in Seq(Messages)
        BY <1>1, <2>2
    <2>4. made < MaxChunks => made + 1 \in 0 .. MaxChunks
        BY <1>1, <1>2
    <2> QED
        BY <1>1, <1>6, <2>3, <2>4 DEF Speak, EndTurn
<1>7. CASE EngineDies
    BY <1>1, <1>7 DEF EngineDies
<1>8. CASE Shutdown
    BY <1>3, <1>8 DEF Shutdown
<1> QED
    BY <1>4, <1>5, <1>6, <1>7, <1>8 DEF Next, Step, Engine

LEMMA TypesNext ==
    ASSUME Types, Returns, Pipes, Next
    PROVE  Types'
<1>1. /\ pc' \in [Requests -> Labels] /\ then' \in [Requests -> Targets]
      /\ slot' \in [Requests -> 0 .. KvSlots]
      /\ \A r \in Requests : slot'[r] = 0 <=> pc'[r] \in {"idle", "waiting", "refused", "leased"}
    BY HandlerTypeNext
<1>2. /\ connected' \in [Requests -> BOOLEAN] /\ kaStop' \in [Requests -> BOOLEAN]
      /\ kaLock' \in [Requests -> Owners] /\ pump' \in [Requests -> PumpLabels]
      /\ gone' \subseteq Requests /\ hungUp' \subseteq Requests
    BY ResponseTypeNext
<1>3. TypeOK'
    BY <1>1, <1>2, LeaseTypeNext, AnswerTypeNext, ProcessTypeNext DEF TypeOK, Labels, Owners, PumpLabels
<1>4. /\ got' \in [Requests -> Seq(Messages)]
      /\ stats' \in [Requests -> [req : Requests \cup {"none"}, chunks : Nat]]
    BY AnswerTypeNext
<1> QED
    BY <1>1, <1>3, <1>4, RouterTypeNext, ProcessTypeNext DEF Types

-----------------------------------------------------------------------------
(* Stages and the lease *)

\* A request is in one stage.
LEMMA Exclusive ==
    ASSUME NEW r \in Requests
    PROVE  /\ Before(r) => ~Reading(r) /\ pc[r] # "record" /\ ~Ending(r) /\ ~Raised(r)
           /\ Reading(r) => pc[r] # "record" /\ ~Ending(r) /\ ~Raised(r)
           /\ pc[r] = "record" \/ Ending(r) \/ Raised(r) => ~Before(r) /\ ~Reading(r)
           /\ Ending(r) \/ Raised(r) => pc[r] # "record"
           /\ Before(r)' => ~Reading(r)' /\ pc'[r] # "record" /\ ~Ending(r)' /\ ~Raised(r)'
           /\ Reading(r)' => pc'[r] # "record" /\ ~Ending(r)' /\ ~Raised(r)'
           /\ pc'[r] = "record" \/ Ending(r)' \/ Raised(r)' => ~Before(r)' /\ ~Reading(r)'
           /\ Ending(r)' \/ Raised(r)' => pc'[r] # "record"
    BY DEF Before, Reading, Ending, Raised, Sending

\* The actions that lead from one stage to another.
LEMMA Moves ==
    ASSUME Types, Returns, NEW r \in Requests
    PROVE  /\ Granted(r) \/ (Arrive(r) /\ pc'[r] = "leased") => ~Leased(r) /\ Before(r)'
           /\ GiveUp(r) \/ (Arrive(r) /\ pc'[r] # "leased") => ~Leased(r) /\ ~Leased(r)'
           /\ SendHeaders(r) => Before(r) /\ (Before(r)' \/ Raised(r)')
           /\ Refuse(r) => Before(r) /\ Raised(r)'
           /\ WriteFrame(r) => Before(r) /\ (IF engine = "dead" THEN Raised(r)' ELSE pc'[r] = "read")
           /\ ReadEnd(r) => Reading(r) /\ pc'[r] = "record"
           /\ ReadEof(r) => Reading(r) /\ Raised(r)'
           /\ Record(r) => pc[r] = "record" /\ Ending(r)'
           /\ Release(r) => (Ending(r) \/ Raised(r)) /\ ~Leased(r)'
           /\ EndJson(r) => (Ending(r) /\ (Ending(r)' \/ Raised(r)')) \/ (~Leased(r) /\ ~Leased(r)')
<1>1. pc \in [Requests -> Labels] /\ then \in [Requests -> Targets]
    BY Domains
<1>2. pc[r] = "writeJson" => then[r] \in {"release", "finish"}
    BY DEF Returns
<1> USE <1>1 DEF Goto, Leased, Before, Reading, Ending, Raised, Sending
<1>3. /\ Granted(r) => ~Leased(r) /\ Before(r)'
      /\ Arrive(r) /\ pc'[r] = "leased" => ~Leased(r) /\ Before(r)'
    BY DEF Granted, Arrive
<1>4. GiveUp(r) => ~Leased(r) /\ ~Leased(r)'
    BY DEF GiveUp
<1>5. Arrive(r) /\ pc'[r] # "leased" => ~Leased(r) /\ ~Leased(r)'
    BY DEF Arrive
<1>6. SendHeaders(r) => Before(r) /\ (Before(r)' \/ Raised(r)')
    BY DEF SendHeaders
<1>7. /\ Refuse(r) => Before(r) /\ Raised(r)'
      /\ WriteFrame(r) => Before(r) /\ (IF engine = "dead" THEN Raised(r)' ELSE pc'[r] = "read")
    BY DEF Refuse, WriteFrame
<1>8. /\ ReadEnd(r) => Reading(r) /\ pc'[r] = "record"
      /\ ReadEof(r) => Reading(r) /\ Raised(r)'
      /\ Record(r) => pc[r] = "record" /\ Ending(r)'
    BY DEF ReadEnd, ReadEof, Record
<1>9. Release(r) => (Ending(r) \/ Raised(r)) /\ ~Leased(r)'
    BY DEF Release
<1>10. EndJson(r) => (Ending(r) /\ (Ending(r)' \/ Raised(r)')) \/ (~Leased(r) /\ ~Leased(r)')
    BY <1>2 DEF EndJson
<1> QED
    BY <1>3, <1>4, <1>5, <1>6, <1>7, <1>8, <1>9, <1>10

\* All the others keep it.
LEMMA Stays ==
    ASSUME Types, Returns, NEW r \in Requests, Step(r)
    PROVE  \/ Granted(r) \/ Arrive(r) \/ GiveUp(r) \/ SendHeaders(r) \/ Refuse(r) \/ WriteFrame(r) \/ ReadEnd(r)
           \/ ReadEof(r) \/ Record(r) \/ Release(r) \/ EndJson(r)
           \/ SameStage(r)
<1>1. CASE Pump(r) \/ Disconnect(r)
    <2>1. UNCHANGED handler
        BY <1>1 DEF Pump, PumpWakes, PumpStops, PumpBegins, PumpEnds, Disconnect
    <2> QED
        BY <2>1, Elsewhere
<1> QED
    BY <1>1, Within DEF Step, Handler

\* The lease changes hands with the stages.
LEMMA Holding ==
    ASSUME Types, Returns, NEW r \in Requests, Step(r)
    PROVE  \/ holders' = holders /\ (Leased(r)' <=> Leased(r))
           \/ holders = {} /\ holders' = {r} /\ Leased(r)'
           \/ holders = {r} /\ holders' = {} /\ ~Leased(r)'
<1>1. CASE Granted(r) \/ (Arrive(r) /\ pc'[r] = "leased")
    <2>1. Leased(r)'
        BY <1>1, Moves DEF Leased
    <2>2. CASE Granted(r)
        BY <2>1, <2>2 DEF Granted, Lease!Grant
    <2>3. CASE Arrive(r) /\ pc'[r] = "leased"
        <3>1. pc' = [pc EXCEPT ![r] = pc'[r]] /\ Lease!GrantAtOnce(r)
            BY <2>3, Domains DEF Arrive, Goto
        <3> QED
            BY <2>1, <3>1 DEF Lease!GrantAtOnce
    <2> QED
        BY <1>1, <2>2, <2>3
<1>2. CASE GiveUp(r) \/ (Arrive(r) /\ pc'[r] # "leased")
    <2>1. ~Leased(r) /\ ~Leased(r)'
        BY <1>2, Moves
    <2>2. CASE GiveUp(r)
        BY <2>1, <2>2 DEF GiveUp, Lease!Leave
    <2>3. CASE Arrive(r) /\ pc'[r] # "leased"
        <3>1. holders' = holders
            BY <2>3, Domains DEF Arrive, Goto, Lease!Join, lease
        <3> QED
            BY <2>1, <3>1
    <2> QED
        BY <1>2, <2>2, <2>3
<1>3. CASE SendHeaders(r) \/ Refuse(r) \/ WriteFrame(r)
    <2>1. Before(r) /\ (Before(r)' \/ Raised(r)' \/ pc'[r] = "read") /\ holders' = holders
        BY <1>3, Moves DEF SendHeaders, Refuse, WriteFrame, lease
    <2> QED
        BY <2>1 DEF Leased, Reading
<1>4. CASE ReadEnd(r) \/ ReadEof(r) \/ Record(r)
    <2>1. Leased(r) /\ Leased(r)'
        BY <1>4, Moves DEF Leased
    <2> QED
        BY <1>4, <2>1 DEF ReadEnd, ReadEof, Record, lease
<1>5. CASE Release(r)
    BY <1>5, Moves DEF Release, Lease!Release
<1>6. CASE EndJson(r)
    BY <1>6, Moves DEF EndJson, lease, Leased
<1>7. CASE /\ ~Granted(r) /\ ~Arrive(r) /\ ~GiveUp(r) /\ ~SendHeaders(r) /\ ~Refuse(r) /\ ~WriteFrame(r) /\ ~ReadEnd(r)
           /\ ~ReadEof(r) /\ ~Record(r) /\ ~Release(r) /\ ~EndJson(r)
    <2>1. SameStage(r)
        BY <1>7, Stays
    <2>2. holders' = holders
        <3>1. CASE ChooseSlot(r) \/ EnterEvent(r) \/ BeginEvent(r) \/ EndEvent(r) \/ StartPump(r) \/ ReadChunk(r)
            BY <3>1 DEF ChooseSlot, EnterEvent, BeginEvent, EndEvent, StartPump, ReadChunk, lease
        <3>2. CASE StopPump(r) \/ Join(r) \/ BeginDone(r) \/ EndDone(r) \/ BeginJson(r) \/ HangUp(r)
            BY <3>2 DEF StopPump, Join, BeginDone, EndDone, BeginJson, HangUp, lease
        <3>3. CASE Pump(r) \/ Disconnect(r)
            BY <3>3 DEF Pump, PumpWakes, PumpStops, PumpBegins, PumpEnds, Disconnect, lease
        <3> QED
            BY <1>7, <3>1, <3>2, <3>3 DEF Step, Handler
    <2> QED
        BY <2>1, <2>2 DEF SameStage, Leased
<1> QED
    BY <1>1, <1>2, <1>3, <1>4, <1>5, <1>6, <1>7

LEMMA LeasesNext ==
    ASSUME Types, Returns, Leases, Next
    PROVE  Leases'
<1>1. ASSUME holders' = holders, \A q \in Requests : Leased(q)' <=> Leased(q)
      PROVE  Leases'
    BY <1>1 DEF Leases
<1>2. ASSUME NEW r \in Requests, Step(r) PROVE Leases'
    <2>1. \A q \in Requests : q # r => (Leased(q)' <=> Leased(q))
        BY <1>2, Others, SameFacts DEF SameStage, Leased
    <2>2. holders \subseteq Requests
        BY DEF Types, TypeOK
    <2>3. CASE holders' = holders /\ (Leased(r)' <=> Leased(r))
        BY <1>1, <2>1, <2>3
    <2>4. CASE holders = {} /\ holders' = {r} /\ Leased(r)'
        BY <2>1, <2>4 DEF Leases
    <2>5. CASE holders = {r} /\ holders' = {} /\ ~Leased(r)'
        BY <2>1, <2>5 DEF Leases
    <2> QED
        BY <1>2, <2>3, <2>4, <2>5, Holding
<1>3. CASE Engine \/ EngineDies \/ Shutdown
    <2>1. UNCHANGED handler /\ holders' = holders
        BY <1>3 DEF Engine, TakeFrame, Speak, EndTurn, EngineDies, Shutdown, Lease!Close, lease
    <2>2. \A q \in Requests : Leased(q)' <=> Leased(q)
        BY <2>1, Elsewhere DEF SameStage, Leased
    <2> QED
        BY <1>1, <2>1, <2>2
<1> QED
    BY <1>2, <1>3 DEF Next, Step

-----------------------------------------------------------------------------
(* The response *)

LEMMA ReturnsNext ==
    ASSUME Types, Returns, Next
    PROVE  Returns'
<1> DEFINE Place(q) == /\ pc[q] \in Sending => then[q] \in {"startPump", "read", "done"}
                       /\ pc[q] = "writeJson" => then[q] \in {"release", "finish"}
<1>1. ASSUME NEW q \in Requests, pc'[q] = pc[q], then'[q] = then[q] PROVE Place(q)'
    BY <1>1 DEF Returns
<1>2. ASSUME NEW r \in Requests, Step(r) PROVE Returns'
    <2>1. pc \in [Requests -> Labels] /\ then \in [Requests -> Targets]
        BY Domains
    <2>2. Place(r)'
        <3>1. Place(r)
            BY DEF Returns
        <3> USE <2>1 DEF Goto, Sending
        <3>2. CASE \/ Arrive(r) \/ GiveUp(r) \/ Granted(r) \/ ChooseSlot(r) \/ SendHeaders(r)
                   \/ StartPump(r) \/ Refuse(r) \/ WriteFrame(r)
            BY <3>2 DEF Arrive, GiveUp, Granted, ChooseSlot, SendHeaders, StartPump, Refuse, WriteFrame
        <3>3. CASE EnterEvent(r) \/ BeginEvent(r) \/ EndEvent(r) \/ EndJson(r)
            BY <3>1, <3>3 DEF EnterEvent, BeginEvent, EndEvent, EndJson
        <3>4. CASE ReadChunk(r)
            BY <3>4 DEF ReadChunk
        <3>5. CASE ReadEnd(r) \/ ReadEof(r) \/ Record(r)
            BY <3>5 DEF ReadEnd, ReadEof, Record
        <3>6. CASE StopPump(r) \/ Join(r) \/ BeginDone(r) \/ EndDone(r)
            BY <3>6 DEF StopPump, Join, BeginDone, EndDone
        <3>7. CASE Release(r) \/ BeginJson(r) \/ HangUp(r)
            BY <3>7 DEF Release, BeginJson, HangUp
        <3>8. CASE Pump(r) \/ Disconnect(r)
            BY <3>1, <3>8 DEF Pump, PumpWakes, PumpStops, PumpBegins, PumpEnds, Disconnect, handler
        <3> QED
            BY <1>2, <3>2, <3>3, <3>4, <3>5, <3>6, <3>7, <3>8 DEF Step, Handler
    <2>3. \A q \in Requests : q # r => Place(q)'
        BY <1>1, <1>2, Others DEF Same
    <2> QED
        BY <2>2, <2>3 DEF Returns
<1>3. CASE Engine \/ EngineDies \/ Shutdown
    <2>1. UNCHANGED handler
        BY <1>3 DEF Engine, TakeFrame, Speak, EndTurn, EngineDies, Shutdown
    <2> QED
        BY <1>1, <2>1 DEF Returns, handler
<1> QED
    BY <1>2, <1>3 DEF Next, Step

LEMMA LockedNext ==
    ASSUME Types, Returns, Locked, Pumps, Next
    PROVE  Locked'
<1> DEFINE Lock(q) == /\ pc[q] = "write" <=> kaLock[q] = "handler"
                      /\ pump[q] = "write" <=> kaLock[q] = "pump"
<1>1. ASSUME NEW q \in Requests, pc'[q] = pc[q], kaLock'[q] = kaLock[q], pump'[q] = pump[q] PROVE Lock(q)'
    BY <1>1 DEF Locked
<1>2. ASSUME NEW r \in Requests, Step(r) PROVE Locked'
    <2>1. /\ pc \in [Requests -> Labels] /\ then \in [Requests -> Targets]
          /\ kaLock \in [Requests -> Owners] /\ pump \in [Requests -> PumpLabels]
        BY Domains
    <2>2. Lock(r)'
        <3>1. Lock(r)
            BY DEF Locked
        <3> USE <2>1 DEF Goto
        <3>2. CASE \/ Arrive(r) \/ GiveUp(r) \/ Granted(r) \/ ChooseSlot(r) \/ SendHeaders(r)
                   \/ Refuse(r) \/ WriteFrame(r)
            BY <3>1, <3>2 DEF Arrive, GiveUp, Granted, ChooseSlot, SendHeaders, Refuse, WriteFrame, response
        <3>8. CASE StartPump(r)
            <4>1. pump[r] = "off"
                BY <3>8 DEF StartPump, Pumps
            <4> QED
                BY <3>1, <3>8, <4>1 DEF StartPump
        <3>3. CASE EnterEvent(r) \/ BeginEvent(r) \/ EndEvent(r) \/ EndJson(r)
            <4>1. /\ pc[r] \in {"event", "write"} => then[r] # "write"
                  /\ pc[r] = "writeJson" => then[r] # "write"
                BY DEF Returns, Sending
            <4> QED
                BY <3>1, <3>3, <4>1 DEF EnterEvent, BeginEvent, EndEvent, EndJson, response
        <3>4. CASE ReadChunk(r) \/ ReadEnd(r) \/ ReadEof(r) \/ Record(r)
            BY <3>1, <3>4 DEF ReadChunk, ReadEnd, ReadEof, Record, response
        <3>5. CASE StopPump(r) \/ Join(r) \/ BeginDone(r) \/ EndDone(r)
            BY <3>1, <3>5 DEF StopPump, Join, BeginDone, EndDone, response
        <3>6. CASE Release(r) \/ BeginJson(r) \/ HangUp(r) \/ Disconnect(r)
            BY <3>1, <3>6 DEF Release, BeginJson, HangUp, Disconnect, response, handler
        <3>7. CASE PumpWakes(r) \/ PumpStops(r) \/ PumpBegins(r) \/ PumpEnds(r)
            BY <3>1, <3>7 DEF PumpWakes, PumpStops, PumpBegins, PumpEnds, handler
        <3> QED
            BY <1>2, <3>2, <3>3, <3>4, <3>5, <3>6, <3>7, <3>8 DEF Step, Handler, Pump
    <2>3. \A q \in Requests : q # r => Lock(q)'
        BY <1>1, <1>2, Others DEF Same
    <2> QED
        BY <2>2, <2>3 DEF Locked
<1>3. CASE Engine \/ EngineDies \/ Shutdown
    <2>1. UNCHANGED <<handler, response>>
        BY <1>3 DEF Engine, TakeFrame, Speak, EndTurn, EngineDies, Shutdown
    <2> QED
        BY <1>1, <2>1 DEF Locked, handler, response
<1> QED
    BY <1>2, <1>3 DEF Next, Step

LEMMA PumpsNext ==
    ASSUME Types, Returns, Locked, Pumps, Next
    PROVE  Pumps'
<1> DEFINE Quieted(q) ==
        /\ pc[q] \in Sending \cup {"headers", "startPump", "stop", "join", "done", "writeDone"} => q \in Streams
        /\ pc[q] = "reply" \/ (pc[q] = "writeJson" /\ then[q] = "release") => q \notin Streams
        /\ q \notin Streams \/ pc[q] \in {"idle", "waiting", "leased", "headers", "startPump"}
             \/ (pc[q] \in Sending /\ then[q] = "startPump") => pump[q] = "off"
        /\ pc[q] = "join" => kaStop[q]
        /\ pc[q] \in {"done", "writeDone"} \/ (pc[q] \in Sending /\ then[q] = "done") => kaStop[q] /\ pump[q] # "lock"
        /\ pc[q] = "writeDone" \/ (pc[q] = "done" /\ connected[q]) => pump[q] # "write"
<1>0. Pumps = \A q \in Requests : Quieted(q)
    BY DEF Pumps
<1>1. ASSUME NEW q \in Requests, pc'[q] = pc[q], then'[q] = then[q], kaStop'[q] = kaStop[q],
             connected'[q] = connected[q], pump'[q] = pump[q]
      PROVE  Quieted(q)'
    BY <1>1 DEF Pumps
<1>2. ASSUME NEW r \in Requests, Step(r) PROVE Pumps'
    <2>1. /\ pc \in [Requests -> Labels] /\ then \in [Requests -> Targets]
          /\ connected \in [Requests -> BOOLEAN] /\ kaStop \in [Requests -> BOOLEAN]
          /\ kaLock \in [Requests -> Owners] /\ pump \in [Requests -> PumpLabels]
        BY Domains
    <2>2. Quieted(r)'
        <3>1. Quieted(r)
            BY DEF Pumps
        <3> USE <2>1 DEF Goto, Sending
        <3>2. CASE Arrive(r) \/ GiveUp(r) \/ Granted(r)
            BY <3>1, <3>2 DEF Arrive, GiveUp, Granted, response
        <3>3. CASE ChooseSlot(r) \/ SendHeaders(r)
            BY <3>1, <3>3 DEF ChooseSlot, SendHeaders, response
        <3>4. CASE EnterEvent(r)
            <4>1. then[r] \in {"startPump", "read", "done"}
                BY <3>4 DEF EnterEvent, Returns
            <4> QED
                BY <3>1, <3>4, <4>1 DEF EnterEvent, response
        <3>5. CASE BeginEvent(r)
            BY <3>1, <3>5 DEF BeginEvent
        <3>6. CASE EndEvent(r)
            <4>1. then[r] \in {"startPump", "read", "done"}
                BY <3>6 DEF EndEvent, Returns
            <4>2. pump[r] # "write"
                BY <3>6 DEF EndEvent, Locked
            <4> QED
                BY <3>1, <3>6, <4>1, <4>2 DEF EndEvent
        <3>7. CASE StartPump(r) \/ Refuse(r) \/ WriteFrame(r)
            BY <3>1, <3>7 DEF StartPump, Refuse, WriteFrame, response
        <3>8. CASE ReadChunk(r) \/ ReadEnd(r) \/ ReadEof(r) \/ Record(r)
            BY <3>1, <3>8 DEF ReadChunk, ReadEnd, ReadEof, Record, response
        <3>9. CASE StopPump(r)
            BY <3>1, <3>9 DEF StopPump
        <3>10. CASE Join(r)
            BY <3>1, <3>10 DEF Join, response
        <3>11. CASE BeginDone(r) \/ EndDone(r)
            BY <3>1, <3>11 DEF BeginDone, EndDone, response
        <3>12. CASE Release(r) \/ HangUp(r) \/ Disconnect(r)
            BY <3>1, <3>12 DEF Release, HangUp, Disconnect, response, handler
        <3>13. CASE BeginJson(r) \/ EndJson(r)
            <4>1. pc[r] = "writeJson" => then[r] \in {"release", "finish"}
                BY DEF Returns
            <4> QED
                BY <3>1, <3>13, <4>1 DEF BeginJson, EndJson, response
        <3>14. CASE PumpWakes(r) \/ PumpStops(r)
            BY <3>1, <3>14 DEF PumpWakes, PumpStops, handler
        <3>15. CASE PumpBegins(r)
            BY <3>1, <3>15 DEF PumpBegins, handler
        <3>16. CASE PumpEnds(r)
            BY <3>1, <3>16 DEF PumpEnds, handler
        <3> QED
            BY <1>2, <3>2, <3>3, <3>4, <3>5, <3>6, <3>7, <3>8, <3>9, <3>10, <3>11, <3>12, <3>13, <3>14,
               <3>15, <3>16 DEF Step, Handler, Pump
    <2>3. \A q \in Requests : q # r => Quieted(q)'
        BY <1>1, <1>2, Others DEF Same
    <2> QED
        BY <2>2, <2>3 DEF Pumps
<1>3. CASE Engine \/ EngineDies \/ Shutdown
    <2>1. UNCHANGED <<handler, response>>
        BY <1>3 DEF Engine, TakeFrame, Speak, EndTurn, EngineDies, Shutdown
    <2> QED
        BY <1>1, <2>1 DEF Pumps, handler, response
<1> QED
    BY <1>2, <1>3 DEF Next, Step

-----------------------------------------------------------------------------
(* The pipes and the answer *)

\* Two requests in a turn are one.
LEMMA Alone ==
    ASSUME Leases, NEW r \in Requests, NEW q \in Requests, Leased(r), Leased(q)
    PROVE  q = r
    BY DEF Leases

\* How a request comes to be where it is.
LEMMA Passage ==
    ASSUME Types, Returns, NEW r \in Requests, Step(r)
    PROVE  /\ Before(r)' \/ pc'[r] \in {"idle", "waiting"} => Before(r) \/ pc[r] \in {"idle", "waiting"}
           /\ Before(r)' /\ pc'[r] # "leased" => Before(r) /\ (pc[r] # "leased" \/ ChooseSlot(r))
           /\ Reading(r)' => Reading(r) \/ (WriteFrame(r) /\ engine # "dead")
           /\ Reading(r) => Reading(r)' \/ ReadEnd(r) \/ ReadEof(r)
           /\ pc'[r] = "record" => pc[r] = "record" \/ ReadEnd(r)
           /\ pc[r] = "record" => pc'[r] = "record" \/ Record(r)
<1>1. pc \in [Requests -> Labels] /\ then \in [Requests -> Targets]
    BY Domains
<1>2. /\ pc[r] \in Sending => then[r] \in {"startPump", "read", "done"}
      /\ pc[r] = "writeJson" => then[r] \in {"release", "finish"}
    BY DEF Returns
<1> USE <1>1 DEF Goto, Before, Reading, Sending
<1>3. CASE Arrive(r) \/ GiveUp(r) \/ Granted(r) \/ SendHeaders(r)
    BY <1>3 DEF Arrive, GiveUp, Granted, SendHeaders
<1>4. CASE ChooseSlot(r) \/ StartPump(r)
    BY <1>4 DEF ChooseSlot, StartPump
<1>5. CASE EnterEvent(r) \/ BeginEvent(r) \/ EndEvent(r) \/ EndJson(r)
    BY <1>2, <1>5 DEF EnterEvent, BeginEvent, EndEvent, EndJson
<1>6. CASE Refuse(r) \/ WriteFrame(r) \/ ReadChunk(r) \/ ReadEnd(r) \/ ReadEof(r) \/ Record(r)
    BY <1>6 DEF Refuse, WriteFrame, ReadChunk, ReadEnd, ReadEof, Record
<1>7. CASE StopPump(r) \/ Join(r) \/ BeginDone(r) \/ EndDone(r)
    BY <1>7 DEF StopPump, Join, BeginDone, EndDone
<1>8. CASE Release(r) \/ BeginJson(r) \/ HangUp(r)
    BY <1>8 DEF Release, BeginJson, HangUp
<1>9. CASE Pump(r) \/ Disconnect(r)
    BY <1>9 DEF Pump, PumpWakes, PumpStops, PumpBegins, PumpEnds, Disconnect, handler
<1> QED
    BY <1>3, <1>4, <1>5, <1>6, <1>7, <1>8, <1>9 DEF Step, Handler

\* What only one action changes.
LEMMA Kept ==
    ASSUME NEW r \in Requests, Step(r)
    PROVE  /\ slot' = slot \/ ChooseSlot(r)
           /\ got' = got \/ ReadChunk(r)
           /\ stats' = stats \/ ReadEnd(r)
<1>1. CASE \/ Arrive(r) \/ GiveUp(r) \/ Granted(r) \/ ChooseSlot(r) \/ SendHeaders(r) \/ EnterEvent(r)
           \/ BeginEvent(r) \/ EndEvent(r) \/ StartPump(r)
    BY <1>1 DEF Arrive, GiveUp, Granted, ChooseSlot, SendHeaders, EnterEvent, BeginEvent, EndEvent, StartPump
<1>2. CASE Refuse(r) \/ WriteFrame(r) \/ ReadChunk(r) \/ ReadEnd(r) \/ ReadEof(r) \/ Record(r)
    BY <1>2 DEF Refuse, WriteFrame, ReadChunk, ReadEnd, ReadEof, Record
<1>3. CASE \/ StopPump(r) \/ Join(r) \/ BeginDone(r) \/ EndDone(r) \/ Release(r) \/ BeginJson(r)
           \/ EndJson(r) \/ HangUp(r)
    BY <1>3 DEF StopPump, Join, BeginDone, EndDone, Release, BeginJson, EndJson, HangUp
<1>4. CASE Pump(r) \/ Disconnect(r)
    BY <1>4 DEF Pump, PumpWakes, PumpStops, PumpBegins, PumpEnds, Disconnect, handler
<1> QED
    BY <1>1, <1>2, <1>3, <1>4 DEF Step, Handler

LEMMA FreshNext ==
    ASSUME Types, Returns, Fresh, Next
    PROVE  Fresh'
<1> DEFINE New(q) == /\ pc[q] \in {"idle", "waiting"} \/ Before(q) => got[q] = <<>> /\ stats[q] = NoStats
                     /\ Reading(q) => stats[q] = NoStats
<1>1. ASSUME NEW r \in Requests, Step(r) PROVE Fresh'
    <2>1. New(r)'
        <3>1. CASE ReadChunk(r)
            <4>1. Reading(r) /\ SameStage(r) /\ stats' = stats
                BY <1>1, <3>1, Within DEF ReadChunk, Reading
            <4>2. pc'[r] \notin {"idle", "waiting"}
                BY <1>1, <3>1, Passage, Exclusive, <4>1 DEF ReadChunk
            <4> QED
                BY <4>1, <4>2, Exclusive DEF Fresh, SameStage
        <3>2. CASE ReadEnd(r)
            <4>1. pc'[r] = "record"
                BY <3>2, Moves
            <4> QED
                BY <4>1, Exclusive
        <3>3. CASE ~ReadChunk(r) /\ ~ReadEnd(r)
            <4>1. got' = got /\ stats' = stats
                BY <1>1, <3>3, Kept
            <4>2. WriteFrame(r) => Before(r)
                BY Moves
            <4> QED
                BY <1>1, <4>1, <4>2, Passage DEF Fresh
        <3> QED
            BY <3>1, <3>2, <3>3
    <2>2. \A q \in Requests : q # r => New(q)'
        BY <1>1, Others, SameFacts DEF Same, SameStage, Fresh
    <2> QED
        BY <2>1, <2>2 DEF Fresh
<1>2. CASE Engine \/ EngineDies \/ Shutdown
    <2>1. UNCHANGED handler
        BY <1>2 DEF Engine, TakeFrame, Speak, EndTurn, EngineDies, Shutdown
    <2> QED
        BY <2>1, Elsewhere DEF Fresh, SameStage
<1> QED
    BY <1>1, <1>2 DEF Next, Step

\* The next thing in the pipe, for the request that reads.
LEMMA NextInPipe ==
    ASSUME Types, Pipes, NEW r \in Requests, pc[r] = "read", stdout # <<>>
    PROVE  /\ Answering(r) /\ Len(stdout) \in Nat \ {0} /\ Len(got[r]) \in Nat
           /\ Head(stdout).kind = "chunk" => Head(stdout) = Chunk(r, Len(got[r]) + 1)
           /\ Head(stdout).kind = "end" => /\ Head(stdout) = End(r, Len(got[r]))
                                           /\ Tail(stdout) = <<>> /\ engine # "busy" /\ (engine = "idle" => stdin = <<>>)
<1>1. Answering(r)
    BY DEF Pipes, Reading
<1>2. /\ Len(stdout) \in Nat \ {0} /\ Head(stdout) = stdout[1] /\ Len(got[r]) \in Nat
      /\ Tail(stdout) \in Seq(Messages) /\ Len(Tail(stdout)) = Len(stdout) - 1
    BY PipeFacts DEF Types
<1>3. 1 \in 1 .. Len(stdout)
    BY <1>2
<1>5. \A n : Chunk(r, n).kind = "chunk" /\ End(r, n).kind = "end"
    BY DEF Chunk, End
<1>4. \/ stdout[1] = Chunk(r, Len(got[r]) + 1)
      \/ Len(stdout) = 1 /\ stdout[1] = End(r, Len(got[r])) /\ engine # "busy"
    <2>1. /\ stdout[1] = Chunk(r, Len(got[r]) + 1) \/ stdout[1] = End(r, Len(got[r]) + 1 - 1)
          /\ stdout[1].kind = "end" => 1 = Len(stdout) /\ engine # "busy"
        <3>1. Expected(stdout[1], r, Len(got[r]) + 1) /\ (stdout[1].kind = "end" => 1 = Len(stdout) /\ engine # "busy")
            BY <1>1, <1>3 DEF Answering
        <3> QED
            BY <3>1 DEF Expected
    <2>2. Len(got[r]) + 1 - 1 = Len(got[r])
        BY <1>2, Sums
    <2> QED
        BY <1>5, <2>1, <2>2
<1>6. Len(stdout) = 1 => Tail(stdout) = <<>>
    <2>1. \A s \in Seq(Messages) : Len(s) = 0 => s = <<>>
        BY EmptySeq
    <2>2. Tail(stdout) \in Seq(Messages) /\ Len(stdout) = 1 => Len(Tail(stdout)) = 0
        BY <1>2
    <2>3. Tail(stdout) \in Seq(Messages)
        BY <1>2
    <2> QED
        BY <2>1, <2>2, <2>3
<1>7. engine = "idle" => stdin = <<>>
    BY <1>1 DEF Answering
<1> QED
    BY <1>1, <1>2, <1>4, <1>5, <1>6, <1>7

LEMMA OwnAnswerNext ==
    ASSUME Types, Returns, Pipes, Fresh, OwnAnswer, Next
    PROVE  OwnAnswer'
<1> DEFINE Own(q) == /\ \A i \in 1 .. Len(got[q]) : got[q][i] = Chunk(q, i)
                     /\ stats[q] # NoStats => stats[q] = [req |-> q, chunks |-> Len(got[q])]
<1>1. ASSUME NEW r \in Requests, Step(r) PROVE OwnAnswer'
    <2>1. Own(r)
        BY DEF OwnAnswer
    <2>2. Own(r)'
        <3>1. CASE ReadChunk(r)
            <4>1. /\ pc[r] = "read" /\ stdout # <<>> /\ Head(stdout).kind = "chunk" /\ stats' = stats
                  /\ got' = [got EXCEPT ![r] = Append(@, Head(stdout))]
                BY <3>1 DEF ReadChunk
            <4>2. Head(stdout) = Chunk(r, Len(got[r]) + 1) /\ Head(stdout) \in Messages
                BY <4>1, NextInPipe, PipeFacts DEF Types
            <4>3. got \in [Requests -> Seq(Messages)]
                BY DEF Types
            <4>4. got'[r] = Append(got[r], Head(stdout))
                BY <4>1, <4>3
            <4>5. Len(got[r]) \in Nat /\ Len(got'[r]) = Len(got[r]) + 1
                BY <4>2, <4>3, <4>4
            <4>6. ASSUME NEW i \in 1 .. Len(got'[r]) PROVE got'[r][i] = Chunk(r, i)
                <5>1. CASE i = Len(got[r]) + 1
                    BY <4>2, <4>3, <4>4, <4>5, <5>1
                <5>2. CASE i \in 1 .. Len(got[r])
                    <6>1. got'[r][i] = got[r][i]
                        BY <4>2, <4>3, <4>4, <5>2
                    <6> QED
                        BY <2>1, <5>2, <6>1
                <5> QED
                    BY <4>5, <4>6, <5>1, <5>2
            <4>7. stats'[r] = NoStats
                BY <4>1 DEF Fresh, Reading
            <4> QED
                BY <4>6, <4>7 DEF NoStats
        <3>2. CASE ReadEnd(r)
            <4>1. /\ pc[r] = "read" /\ stdout # <<>> /\ Head(stdout).kind = "end" /\ got' = got
                  /\ stats' = [stats EXCEPT ![r] = [req |-> Head(stdout).req, chunks |-> Head(stdout).n]]
                BY <3>2 DEF ReadEnd
            <4>2. Head(stdout) = End(r, Len(got[r]))
                BY <4>1, NextInPipe
            <4>3. Head(stdout).req = r /\ Head(stdout).n = Len(got[r])
                BY <4>2 DEF End
            <4>4. stats'[r] = [req |-> r, chunks |-> Len(got[r])]
                BY <4>1, <4>3, Domains
            <4> QED
                BY <2>1, <4>1, <4>4
        <3>3. CASE ~ReadChunk(r) /\ ~ReadEnd(r)
            BY <1>1, <2>1, <3>3, Kept
        <3> QED
            BY <3>1, <3>2, <3>3
    <2>3. ASSUME NEW q \in Requests, q # r PROVE Own(q)'
        <3>1. got'[q] = got[q] /\ stats'[q] = stats[q]
            BY <1>1, <2>3, Others DEF Same
        <3> QED
            BY <3>1 DEF OwnAnswer
    <2> QED
        BY <2>2, <2>3 DEF OwnAnswer, NoStats
<1>2. CASE Engine \/ EngineDies \/ Shutdown
    <2>1. UNCHANGED <<got, stats>>
        BY <1>2 DEF Engine, TakeFrame, Speak, EndTurn, EngineDies, Shutdown, handler
    <2> QED
        BY <2>1 DEF OwnAnswer, NoStats
<1> QED
    BY <1>1, <1>2 DEF Next, Step

\* A step of a request that leaves the pipes alone and does not end its reading.
LEMMA PipesKept ==
    ASSUME Types, Pipes, UNCHANGED <<engine, turn, stdin, stdout, made>>,
           \A q \in Requests : /\ Reading(q)' <=> Reading(q)
                               /\ Reading(q) => got'[q] = got[q] /\ slot'[q] = slot[q]
    PROVE  Pipes'
<1>1. (\A q \in Requests : ~Reading(q)') => Quiet'
    BY DEF Pipes, Quiet
<1>2. ASSUME NEW q \in Requests, Reading(q)' PROVE Answering(q)'
    <2>1. Answering(q) /\ got'[q] = got[q] /\ slot'[q] = slot[q]
        BY <1>2 DEF Pipes
    <2> QED
        BY <2>1 DEF Answering
<1> QED
    BY <1>1, <1>2 DEF Pipes

LEMMA PipesNext ==
    ASSUME Types, Returns, Leases, Fresh, Pipes, Next
    PROVE  Pipes'
<1>0. /\ stdout \in Seq(Messages) /\ Len(stdout) \in Nat /\ \A q \in Requests : Len(got[q]) \in Nat
      /\ MaxChunks \in Nat /\ made \in Nat
    BY GatewayAssumption DEF Types
<1>1. ASSUME NEW r \in Requests, Step(r) PROVE Pipes'
    <2>1. \A q \in Requests : q # r => Same(q) /\ SameStage(q)
        BY <1>1, Others, SameFacts
    <2>2. \A q \in Requests : q # r /\ Leased(r) => ~Reading(q) /\ ~Reading(q)'
        BY <2>1, Alone DEF SameStage, Leased
    <2>3. CASE WriteFrame(r) /\ engine # "dead"
        <3>1. Before(r) /\ pc'[r] = "read" /\ got' = got /\ slot' = slot
            BY <1>1, <2>3, Moves DEF WriteFrame
        <3>2. \A q \in Requests : ~Reading(q)
            BY <2>2, <3>1, Exclusive DEF Leased
        <3>3. engine = "idle" /\ stdin = <<>> /\ stdout = <<>>
            BY <2>3, <3>2 DEF Pipes, Quiet
        <3>4. stdin' = <<[req |-> r, slot |-> slot[r]]>> /\ engine' = "idle" /\ stdout' = <<>> /\ got'[r] = <<>>
            <4>1. got[r] = <<>>
                BY <3>1 DEF Fresh
            <4>2. stdin' = Append(<<>>, [req |-> r, slot |-> slot[r]])
                BY <2>3, <3>3 DEF WriteFrame
            <4> QED
                BY <2>3, <3>1, <3>3, <4>1, <4>2 DEF WriteFrame
        <3>5. Answering(r)'
            BY <3>1, <3>4 DEF Answering
        <3>6. \A q \in Requests : Reading(q)' => q = r
            BY <2>2, <3>1 DEF Leased
        <3>7. Reading(r)'
            BY <3>1 DEF Reading
        <3> QED
            BY <3>5, <3>6, <3>7 DEF Pipes
    <2>4. CASE WriteFrame(r) /\ engine = "dead"
        <3>1. Before(r) /\ Raised(r)' /\ UNCHANGED <<engine, turn, stdin, stdout, made, got, slot>>
            BY <1>1, <2>4, Moves DEF WriteFrame
        <3>2. \A q \in Requests : Reading(q)' <=> Reading(q)
            BY <2>1, <3>1, Exclusive DEF SameStage
        <3> QED
            BY <3>1, <3>2, PipesKept
    <2>5. CASE ReadChunk(r)
        <3>1. /\ pc[r] = "read" /\ stdout # <<>> /\ Head(stdout).kind = "chunk" /\ stdout' = Tail(stdout)
              /\ got' = [got EXCEPT ![r] = Append(@, Head(stdout))]
              /\ UNCHANGED <<engine, turn, stdin, made, slot>>
            BY <2>5 DEF ReadChunk
        <3>2. Reading(r) /\ Reading(r)' /\ Answering(r)
            BY <1>1, <2>5, <3>1, Within, NextInPipe DEF SameStage, Reading
        <3>3. /\ Head(stdout) \in Messages /\ Len(stdout) \in Nat \ {0} /\ Len(stdout') = Len(stdout) - 1
              /\ \A i \in 1 .. Len(stdout) - 1 : stdout'[i] = stdout[i + 1]
            BY <1>0, <3>1, PipeFacts
        <3>4. got'[r] = Append(got[r], Head(stdout)) /\ Len(got'[r]) = Len(got[r]) + 1
            BY <3>1, <3>3 DEF Types
        <3>5. ASSUME NEW i \in 1 .. Len(stdout')
              PROVE  /\ Expected(stdout'[i], r, Len(got'[r]) + i)
                     /\ stdout'[i].kind = "end" => i = Len(stdout') /\ engine' # "busy"
            <4>0. Len(got[r]) \in Nat /\ Len(stdout') \in Nat
                BY <1>0, <3>3
            <4>1. i \in Nat /\ i + 1 \in 1 .. Len(stdout) /\ stdout'[i] = stdout[i + 1]
                BY <3>3, <3>5, <4>0
            <4>2. /\ Expected(stdout[i + 1], r, Len(got[r]) + (i + 1))
                  /\ stdout[i + 1].kind = "end" => i + 1 = Len(stdout) /\ engine # "busy"
                BY <3>2, <4>1 DEF Answering
            <4>3. Len(got[r]) + (i + 1) = Len(got'[r]) + i
                <5> DEFINE g == Len(got[r])
                           h == Len(got'[r])
                <5>1. g \in Nat /\ h = g + 1
                    BY <3>4, <4>0
                <5>2. h \in Nat
                    BY <5>1
                <5> HIDE DEF g, h
                <5>3. g + (i + 1) = h + i
                    BY <4>1, <5>1, <5>2, Sums
                <5> QED
                    BY <5>3 DEF g, h
            <4>4. i + 1 = Len(stdout) => i = Len(stdout')
                BY <3>3, <4>1
            <4> QED
                BY <3>1, <4>1, <4>2, <4>3, <4>4
        <3>6. engine = "busy" => /\ turn.req = r /\ stdin = <<>>
                                 /\ made = Len(got'[r]) + Len(stdout')
            <4>1. engine = "busy" => turn.req = r /\ stdin = <<>> /\ made = Len(got[r]) + Len(stdout)
                BY <3>2 DEF Answering
            <4>2. Len(got[r]) \in Nat
                BY <1>0
            <4>3. Len(got[r]) + Len(stdout) = Len(got'[r]) + Len(stdout')
                BY <3>3, <3>4, <4>2
            <4> QED
                BY <4>1, <4>3
        <3>7. engine = "idle" => stdin = <<>>
            BY <3>1, <3>2 DEF Answering
        <3>8. Answering(r)'
            BY <3>1, <3>5, <3>6, <3>7 DEF Answering
        <3>9. \A q \in Requests : Reading(q)' => q = r
            BY <2>2, <3>2 DEF Leased
        <3> QED
            BY <3>2, <3>8, <3>9 DEF Pipes
    <2>6. CASE ReadEnd(r)
        <3>1. /\ pc[r] = "read" /\ stdout # <<>> /\ Head(stdout).kind = "end" /\ stdout' = Tail(stdout)
              /\ UNCHANGED <<engine, stdin>> /\ pc'[r] = "record"
            BY <2>6, Moves DEF ReadEnd
        <3>2. Quiet'
            BY <3>1, NextInPipe DEF Quiet, Types, TypeOK
        <3>3. \A q \in Requests : ~Reading(q)'
            BY <2>2, <3>1, Exclusive DEF Leased, Reading
        <3> QED
            BY <3>2, <3>3 DEF Pipes
    <2>7. CASE ReadEof(r)
        <3>1. Reading(r) /\ Raised(r)' /\ engine' = "dead" /\ stdout' = <<>>
            BY <2>7, Moves DEF ReadEof, process
        <3>2. \A q \in Requests : ~Reading(q)'
            BY <2>2, <3>1, Exclusive DEF Leased
        <3> QED
            BY <3>1, <3>2 DEF Pipes, Quiet
    <2>8. CASE ~WriteFrame(r) /\ ~ReadChunk(r) /\ ~ReadEnd(r) /\ ~ReadEof(r)
        <3>1. UNCHANGED <<engine, turn, stdin, stdout, made>> /\ got' = got
            BY <1>1, <2>8, ProcessSteps, Kept DEF process
        <3>2. Reading(r)' <=> Reading(r)
            BY <1>1, <2>8, Passage
        <3>3. Reading(r) => slot' = slot
            <4>1. ChooseSlot(r) => Before(r)
                BY DEF ChooseSlot, Before
            <4> QED
                BY <1>1, <4>1, Kept, Exclusive
        <3>4. ASSUME NEW q \in Requests
              PROVE  /\ Reading(q)' <=> Reading(q)
                     /\ Reading(q) => got'[q] = got[q] /\ slot'[q] = slot[q]
            BY <2>1, <3>1, <3>2, <3>3 DEF SameStage, Same
        <3> QED
            BY <3>1, <3>4, PipesKept
    <2> QED
        BY <2>3, <2>4, <2>5, <2>6, <2>7, <2>8
<1>2. ASSUME UNCHANGED handler
      PROVE  \A q \in Requests : (Reading(q)' <=> Reading(q)) /\ got'[q] = got[q] /\ slot'[q] = slot[q]
    BY <1>2, Elsewhere DEF SameStage
<1>3. CASE TakeFrame
    <2>1. /\ engine = "idle" /\ stdin # <<>> /\ engine' = "busy" /\ turn' = Head(stdin) /\ stdin' = Tail(stdin)
          /\ made' = 0 /\ stdout' = stdout /\ UNCHANGED handler
        BY <1>3 DEF TakeFrame
    <2>2. ASSUME NEW q \in Requests, Reading(q) PROVE Answering(q)'
        <3>1. stdin = <<[req |-> q, slot |-> slot[q]]>> /\ stdout = <<>> /\ got[q] = <<>>
            BY <2>1, <2>2 DEF Pipes, Answering
        <3>2. Head(stdin) = [req |-> q, slot |-> slot[q]] /\ Tail(stdin) = <<>>
            BY <3>1
        <3>3. turn'.req = q /\ stdin' = <<>> /\ stdout' = <<>> /\ got'[q] = <<>>
            BY <1>2, <2>1, <3>1, <3>2
        <3> QED
            BY <2>1, <3>3 DEF Answering
    <2>3. \E q \in Requests : Reading(q)
        BY <2>1 DEF Pipes, Quiet
    <2> QED
        BY <1>2, <2>1, <2>2, <2>3 DEF Pipes
<1>4. CASE Speak \/ EndTurn
    <2>1. engine = "busy" /\ UNCHANGED handler /\ UNCHANGED <<turn, stdin>>
        BY <1>4 DEF Speak, EndTurn
    <2>2. ASSUME NEW q \in Requests, Reading(q) PROVE Answering(q)'
        <3>0. Len(got[q]) \in Nat /\ Len(stdout) \in Nat /\ made \in Nat
            BY <1>0
        <3>1. /\ turn.req = q /\ stdin = <<>> /\ made = Len(got[q]) + Len(stdout)
              /\ \A i \in 1 .. Len(stdout) : Expected(stdout[i], q, Len(got[q]) + i) /\ stdout[i].kind # "end"
            BY <2>1, <2>2 DEF Pipes, Answering
        <3>2. got'[q] = got[q]
            BY <1>2, <2>1
        <3>3. ASSUME NEW e \in Messages, stdout' = Append(stdout, e), Expected(e, q, Len(got[q]) + (Len(stdout) + 1))
              PROVE  /\ Len(stdout') = Len(stdout) + 1
                     /\ \A i \in 1 .. Len(stdout') : /\ Expected(stdout'[i], q, Len(got'[q]) + i)
                                                     /\ stdout'[i].kind = "end" => i = Len(stdout') /\ e.kind = "end"
            <4>1. /\ Len(stdout') = Len(stdout) + 1 /\ stdout'[Len(stdout) + 1] = e
                  /\ \A i \in 1 .. Len(stdout) : stdout'[i] = stdout[i]
                BY <1>0, <3>3, AppendPipeFacts
            <4>2. \A i \in 1 .. Len(stdout') : i = Len(stdout) + 1 \/ i \in 1 .. Len(stdout)
                BY <3>0, <4>1
            <4>3. ASSUME NEW i \in 1 .. Len(stdout'), i = Len(stdout) + 1
                  PROVE  stdout'[i] = e /\ Expected(e, q, Len(got'[q]) + i) /\ i = Len(stdout')
                BY <3>2, <3>3, <4>1, <4>3
            <4> QED
                BY <3>1, <3>2, <4>1, <4>2, <4>3
        <3>6. made + 1 = Len(got[q]) + (Len(stdout) + 1)
            <4> DEFINE g == Len(got[q])
                       l == Len(stdout)
            <4>1. g \in Nat /\ l \in Nat /\ made \in Nat /\ made = g + l
                BY <3>0, <3>1
            <4> HIDE DEF g, l
            <4>2. made + 1 = g + (l + 1)
                BY <4>1, Sums
            <4> QED
                BY <4>2 DEF g, l
        <3>4. CASE Speak
            <4> DEFINE e == Chunk(q, made + 1)
            <4>1. e \in Messages /\ e.n <= MaxChunks /\ e.kind = "chunk"
                BY <1>0, <3>0, <3>4 DEF Chunk, Messages, Speak
            <4>2. stdout' = Append(stdout, e) /\ made' = made + 1 /\ engine' = "busy"
                BY <2>1, <3>1, <3>4 DEF Speak
            <4>3. made + 1 = Len(got[q]) + (Len(stdout) + 1)
                BY <3>6
            <4>4. Expected(e, q, Len(got[q]) + (Len(stdout) + 1))
                BY <4>1, <4>3 DEF Expected
            <4> HIDE DEF e
            <4>5. made' = Len(got'[q]) + Len(stdout')
                BY <3>2, <3>3, <4>1, <4>2, <4>3, <4>4
            <4>6. \A i \in 1 .. Len(stdout') : /\ Expected(stdout'[i], q, Len(got'[q]) + i)
                                               /\ stdout'[i].kind # "end"
                BY <3>3, <4>1, <4>2, <4>4
            <4> QED
                BY <2>1, <3>1, <4>2, <4>5, <4>6 DEF Answering
        <3>5. CASE EndTurn
            <4> DEFINE e == End(q, made)
            <4>1. e \in Messages /\ e.n <= MaxChunks
                <5>1. made <= MaxChunks
                    BY <1>0 DEF Types
                <5> QED
                    BY <3>0, <5>1 DEF End, Messages
            <4>2. stdout' = Append(stdout, e) /\ engine' = "idle" /\ stdin' = <<>>
                BY <2>1, <3>1, <3>5 DEF EndTurn
            <4> DEFINE k == Len(got[q]) + (Len(stdout) + 1)
            <4>3. k = made + 1
                BY <3>6
            <4> HIDE DEF k
            <4>4. Expected(e, q, k)
                <5>1. made = k - 1
                    BY <3>0, <4>3
                <5> QED
                    BY <4>1, <5>1 DEF Expected
            <4> HIDE DEF e
            <4>5. \A i \in 1 .. Len(stdout') : /\ Expected(stdout'[i], q, Len(got'[q]) + i)
                                               /\ stdout'[i].kind = "end" => i = Len(stdout')
                BY <3>3, <4>1, <4>2, <4>4 DEF k
            <4> QED
                BY <4>2, <4>5 DEF Answering
        <3> QED
            BY <1>4, <3>4, <3>5
    <2>3. \E q \in Requests : Reading(q)
        BY <2>1 DEF Pipes, Quiet
    <2> QED
        BY <1>2, <2>1, <2>2, <2>3 DEF Pipes
<1>5. CASE EngineDies
    <2>1. engine' = "dead" /\ UNCHANGED <<turn, stdin, stdout, made>> /\ UNCHANGED handler
        BY <1>5 DEF EngineDies
    <2>2. ASSUME NEW q \in Requests, Reading(q) PROVE Answering(q)'
        <3>1. Answering(q) /\ got'[q] = got[q]
            BY <1>2, <2>1, <2>2 DEF Pipes
        <3> QED
            BY <2>1, <3>1 DEF Answering
    <2> QED
        BY <1>2, <2>1, <2>2 DEF Pipes, Quiet
<1>6. CASE Shutdown
    BY <1>2, <1>6, PipesKept DEF Shutdown, process
<1> QED
    BY <1>1, <1>3, <1>4, <1>5, <1>6 DEF Next, Step, Engine

-----------------------------------------------------------------------------
(* The router and the KV rows *)

\* A dead engine stays dead.
LEMMA DeathIsFinal ==
    ASSUME Next, engine' # "dead"
    PROVE  engine # "dead"
<1>1. ASSUME NEW r \in Requests, Step(r) PROVE engine' = engine
    BY <1>1, ProcessSteps DEF WriteFrame, ReadChunk, ReadEnd, process
<1>2. CASE Engine \/ EngineDies \/ Shutdown
    BY <1>2 DEF Engine, TakeFrame, Speak, EndTurn, EngineDies, Shutdown, process
<1> QED
    BY <1>1, <1>2 DEF Next, Step

\* The lease is exclusive, so that only its holder works.
LEMMA OnlyWorker ==
    ASSUME Leases, NEW r \in Requests, Leased(r), NEW q \in Requests, q # r
    PROVE  ~Reading(q) /\ pc[q] # "record" /\ ~Working(q)
    BY Alone DEF Leased, Working

LEMMA RowsNext ==
    ASSUME Types, Returns, Leases, Pipes, Rows, Next
    PROVE  Rows'
<1> SUFFICES ASSUME engine' # "dead"
             PROVE  /\ (\A q \in Requests : ~Working(q)') => kv' = prompts'
                    /\ \A q \in Requests : Working(q)' => kv' = [prompts' EXCEPT ![slot'[q]] = Prompt[q]]
    BY DEF Rows
<1>0. /\ engine # "dead"
      /\ (\A q \in Requests : ~Working(q)) => kv = prompts
      /\ \A q \in Requests : Working(q) => kv = [prompts EXCEPT ![slot[q]] = Prompt[q]]
    BY DeathIsFinal DEF Rows
<1> DEFINE Goal == /\ (\A q \in Requests : ~Working(q)') => kv' = prompts'
                   /\ \A q \in Requests : Working(q)' => kv' = [prompts' EXCEPT ![slot'[q]] = Prompt[q]]
<1>1. ASSUME UNCHANGED <<kv, prompts>>,
             \A q \in Requests : (Working(q)' <=> Working(q)) /\ (Working(q) => slot'[q] = slot[q])
      PROVE  Goal
    BY <1>0, <1>1
<1>2. ASSUME NEW r \in Requests, Step(r) PROVE Goal
    <2>1. ASSUME NEW q \in Requests, q # r
          PROVE  /\ Reading(q)' <=> Reading(q)
                 /\ pc'[q] = pc[q] /\ slot'[q] = slot[q]
        BY <1>2, <2>1, Others, SameFacts DEF Same, SameStage
    <2>2. CASE Record(r)
        <3>1. pc[r] = "record" /\ kv' = kv /\ prompts' = [prompts EXCEPT ![slot[r]] = Prompt[r]] /\ Ending(r)'
            BY <2>2, Moves DEF Record, process
        <3>2. Working(r) /\ Leased(r) /\ ~Working(r)'
            BY <3>1, Exclusive DEF Working, Leased
        <3>3. \A q \in Requests : ~Working(q)'
            BY <2>1, <3>2, OnlyWorker DEF Working
        <3> QED
            BY <1>0, <3>1, <3>2, <3>3
    <2>3. CASE WriteFrame(r)
        <3>1. /\ Before(r) /\ Leased(r) /\ pc'[r] = "read" /\ UNCHANGED <<kv, prompts>>
              /\ stdin' = Append(stdin, [req |-> r, slot |-> slot[r]])
            BY <1>0, <2>3, Moves DEF WriteFrame, Leased, router
        <3>2. slot[r] \in Slots
            BY <2>3, SlotFacts DEF WriteFrame
        <3>3. stdin' # <<>>
            <4>1. stdin \in Seq(Frames) /\ [req |-> r, slot |-> slot[r]] \in Frames
                BY <3>2 DEF Types, Frames
            <4> QED
                BY <3>1, <4>1, AppendPipeFacts
        <3>4. \A q \in Requests : ~Working(q)
            BY <3>1, OnlyWorker, Exclusive DEF Working
        <3>5. \A q \in Requests : ~Working(q)'
            BY <2>1, <3>1, <3>3, OnlyWorker DEF Working
        <3> QED
            BY <1>1, <3>1, <3>4, <3>5
    <2>4. CASE ReadEnd(r)
        <3>1. /\ pc[r] = "read" /\ stdout # <<>> /\ Head(stdout).kind = "end" /\ pc'[r] = "record"
              /\ UNCHANGED <<kv, prompts, slot>>
            BY <2>4, Moves DEF ReadEnd, router
        <3>2. stdin = <<>>
            BY <1>0, <3>1, NextInPipe DEF Types, TypeOK
        <3>3. Working(r) /\ Working(r)' /\ Leased(r)
            BY <3>1, <3>2 DEF Working, Reading, Leased
        <3>4. \A q \in Requests : q # r => ~Working(q) /\ ~Working(q)'
            BY <2>1, <3>3, OnlyWorker DEF Working
        <3> QED
            BY <1>1, <3>1, <3>3, <3>4
    <2>5. CASE ReadEof(r)
        BY <1>0, <2>5 DEF ReadEof
    <2>6. CASE ~Record(r) /\ ~WriteFrame(r) /\ ~ReadEnd(r) /\ ~ReadEof(r)
        <3>1. stdin' = stdin /\ kv' = kv
            BY <1>2, <2>6, ProcessSteps DEF ReadChunk, process
        <3>2. prompts' = prompts
            <4>1. UNCHANGED router
                <5>1. CASE Arrive(r) \/ GiveUp(r) \/ Granted(r) \/ ChooseSlot(r) \/ SendHeaders(r) \/ EnterEvent(r)
                    BY <5>1 DEF Arrive, GiveUp, Granted, ChooseSlot, SendHeaders, EnterEvent
                <5>2. CASE BeginEvent(r) \/ EndEvent(r) \/ StartPump(r) \/ Refuse(r) \/ ReadChunk(r)
                    BY <5>2 DEF BeginEvent, EndEvent, StartPump, Refuse, ReadChunk
                <5>3. CASE \/ StopPump(r) \/ Join(r) \/ BeginDone(r) \/ EndDone(r) \/ Release(r) \/ BeginJson(r)
                           \/ EndJson(r) \/ HangUp(r)
                    BY <5>3 DEF StopPump, Join, BeginDone, EndDone, Release, BeginJson, EndJson, HangUp
                <5>4. CASE Pump(r) \/ Disconnect(r)
                    BY <5>4 DEF Pump, PumpWakes, PumpStops, PumpBegins, PumpEnds, Disconnect
                <5> QED
                    BY <1>2, <2>6, <5>1, <5>2, <5>3, <5>4 DEF Step, Handler
            <4> QED
                BY <4>1 DEF router
        <3>3. (Reading(r)' <=> Reading(r)) /\ (pc'[r] = "record" <=> pc[r] = "record")
            BY <1>2, <2>6, Passage
        <3>4. Working(r) => slot' = slot
            <4>1. ChooseSlot(r) => Before(r)
                BY DEF ChooseSlot, Before
            <4> QED
                BY <1>2, <4>1, Kept, Exclusive DEF Working
        <3>5. ASSUME NEW q \in Requests
              PROVE  (Working(q)' <=> Working(q)) /\ (Working(q) => slot'[q] = slot[q])
            BY <2>1, <3>1, <3>3, <3>4 DEF Working
        <3> QED
            BY <1>1, <3>1, <3>2, <3>5
    <2> QED
        BY <2>2, <2>3, <2>4, <2>5, <2>6
<1>3. CASE TakeFrame
    <2>1. /\ engine = "idle" /\ stdin # <<>> /\ stdin' = Tail(stdin) /\ UNCHANGED handler /\ prompts' = prompts
          /\ kv' = [kv EXCEPT ![Head(stdin).slot] = Prompt[Head(stdin).req]]
        BY <1>3 DEF TakeFrame, router
    <2>2. PICK r \in Requests : Reading(r)
        BY <2>1 DEF Pipes, Quiet
    <2>3. stdin = <<[req |-> r, slot |-> slot[r]]>>
        BY <2>1, <2>2 DEF Pipes, Answering
    <2>4. Head(stdin) = [req |-> r, slot |-> slot[r]] /\ Tail(stdin) = <<>>
        BY <2>3
    <2>5. kv' = [kv EXCEPT ![slot[r]] = Prompt[r]]
        <3>1. Head(stdin).slot = slot[r] /\ Head(stdin).req = r
            BY <2>4
        <3> QED
            BY <2>1, <3>1
    <2>6. \A q \in Requests : ~Working(q)
        BY <2>1, <2>2, OnlyWorker, Exclusive DEF Working, Leased
    <2>7. Working(r)' /\ slot'[r] = slot[r]
        BY <2>1, <2>2, <2>4, Elsewhere DEF SameStage, Working
    <2>8. \A q \in Requests : q # r => ~Working(q)'
        BY <2>1, <2>2, OnlyWorker, Elsewhere DEF Working, SameStage, Leased
    <2> QED
        BY <1>0, <2>1, <2>5, <2>6, <2>7, <2>8
<1>4. CASE Speak \/ EndTurn \/ Shutdown
    <2>1. UNCHANGED <<kv, prompts>> /\ stdin' = stdin /\ UNCHANGED handler
        BY <1>4 DEF Speak, EndTurn, Shutdown, router, process
    <2>2. ASSUME NEW q \in Requests
          PROVE  (Working(q)' <=> Working(q)) /\ slot'[q] = slot[q]
        BY <2>1, Elsewhere DEF SameStage, Working
    <2> QED
        BY <1>1, <2>1, <2>2
<1>5. CASE EngineDies
    BY <1>5 DEF EngineDies
<1> QED
    BY <1>2, <1>3, <1>4, <1>5 DEF Next, Step, Engine

LEMMA ChosenNext ==
    ASSUME Types, Returns, Leases, Pipes, Rows, Chosen, Next
    PROVE  Chosen'
<1> DEFINE Best(q, rows, s) ==
        \A t \in Slots : IsPrefix(rows[t], Prompt[q]) => Len(LongestCommonPrefix({rows[s], Prompt[q]})) >= Len(rows[t])
<1> SUFFICES ASSUME engine' # "dead", NEW q \in Requests \ Naming, Before(q)', pc'[q] # "leased"
             PROVE  Best(q, kv', slot'[q])
    BY DEF Chosen
<1>0. engine # "dead"
    BY DeathIsFinal
<1>1. ASSUME Before(q), pc[q] # "leased", kv' = kv, slot'[q] = slot[q] PROVE Best(q, kv', slot'[q])
    BY <1>0, <1>1 DEF Chosen
<1>2. ASSUME NEW r \in Requests, Step(r) PROVE Best(q, kv', slot'[q])
    <2>1. kv' = kv
        BY <1>2, ProcessSteps DEF WriteFrame, ReadChunk, ReadEnd, process
    <2>2. CASE q # r
        <3>1. Before(q) /\ pc[q] # "leased" /\ slot'[q] = slot[q]
            BY <1>2, <2>2, Others, SameFacts DEF Same, SameStage
        <3> QED
            BY <1>1, <2>1, <3>1
    <2>3. CASE q = r /\ ~ChooseSlot(r)
        <3>1. Before(q) /\ pc[q] # "leased" /\ slot'[q] = slot[q]
            BY <1>2, <2>3, Passage, Kept
        <3> QED
            BY <1>1, <2>1, <3>1
    <2>4. CASE q = r /\ ChooseSlot(r)
        <3>1. pc[q] = "leased" /\ slot' = [slot EXCEPT ![q] = Select(Prompt[q])]
            BY <2>4 DEF ChooseSlot
        <3>2. Before(q) /\ Leased(q)
            BY <3>1 DEF Before, Leased
        <3>3. kv = prompts
            <4>1. \A p \in Requests : ~Working(p)
                BY <3>2, OnlyWorker, Exclusive DEF Working
            <4> QED
                BY <1>0, <4>1 DEF Rows
        <3>4. slot'[q] = Select(Prompt[q])
            BY <3>1, Domains
        <3>5. Prompt[q] \in Text
            BY GatewayAssumption DEF Text
        <3> QED
            BY <2>1, <3>3, <3>4, <3>5, SelectFacts
    <2> QED
        BY <2>2, <2>3, <2>4
<1>3. ASSUME UNCHANGED handler PROVE Before(q) /\ pc[q] # "leased" /\ slot'[q] = slot[q]
    BY <1>3, Elsewhere DEF SameStage
<1>4. CASE TakeFrame
    <2>1. engine = "idle" /\ stdin # <<>> /\ UNCHANGED handler
        BY <1>4 DEF TakeFrame
    <2>2. PICK r \in Requests : Reading(r)
        BY <2>1 DEF Pipes, Quiet
    <2>3. Leased(r) /\ Leased(q)
        BY <1>3, <2>1, <2>2 DEF Leased
    <2>4. q = r
        BY <2>3, Alone
    <2> QED
        BY <1>3, <2>1, <2>2, <2>4, Exclusive
<1>5. CASE Speak \/ EndTurn \/ Shutdown
    <2>1. kv' = kv /\ UNCHANGED handler
        BY <1>5 DEF Speak, EndTurn, Shutdown, process
    <2> QED
        BY <1>1, <1>3, <2>1
<1>6. CASE EngineDies
    BY <1>6 DEF EngineDies
<1> QED
    BY <1>2, <1>4, <1>5, <1>6 DEF Next, Step, Engine

\* How a request comes to an error, or keeps on its way to one.
LEMMA Errs ==
    ASSUME Types, Returns, Pumps, NEW r \in Requests, Step(r), Erring(r)', pump'[r] # "off"
    PROVE  /\ SendHeaders(r) \/ Refuse(r) \/ WriteFrame(r) \/ ReadEof(r)
                \/ (Erring(r) /\ pump[r] # "off")
           /\ stats' = stats /\ got' = got
<1>1. /\ pc \in [Requests -> Labels] /\ then \in [Requests -> Targets] /\ pump \in [Requests -> PumpLabels]
    BY Domains
<1>2. pc[r] \in Sending => then[r] \in {"startPump", "read", "done"}
    BY DEF Returns
<1> USE <1>1 DEF Goto, Erring
<1>3. CASE Arrive(r) \/ GiveUp(r) \/ Granted(r) \/ ChooseSlot(r) \/ StartPump(r)
    BY <1>3 DEF Arrive, GiveUp, Granted, ChooseSlot, StartPump
<1>4. CASE EnterEvent(r) \/ BeginEvent(r) \/ EndEvent(r)
    BY <1>2, <1>4 DEF EnterEvent, BeginEvent, EndEvent, Sending
<1>5. CASE ReadChunk(r) \/ ReadEnd(r) \/ Record(r)
    BY <1>5 DEF ReadChunk, ReadEnd, Record
<1>6. CASE StopPump(r) \/ Join(r) \/ BeginDone(r) \/ EndDone(r) \/ HangUp(r)
    BY <1>6 DEF StopPump, Join, BeginDone, EndDone, HangUp
<1>7. CASE Release(r) \/ BeginJson(r)
    BY <1>7 DEF Release, BeginJson, response
<1>8. CASE EndJson(r)
    <2>1. pc[r] = "writeJson" /\ pump'[r] = pump[r] /\ (pc'[r] = then[r] \/ then[r] = "release")
        BY <1>8 DEF EndJson, response
    <2>2. then[r] # "release"
        BY <2>1 DEF Pumps
    <2>3. pc'[r] = then[r] /\ then'[r] = then[r]
        BY <1>8, <2>1, <2>2 DEF EndJson
    <2>4. then[r] = "finish"
        BY <2>1, <2>2 DEF Returns
    <2>5. ~Erring(r)'
        BY <2>3, <2>4
    <2> QED
        BY <2>5
<1>9. CASE SendHeaders(r) \/ Refuse(r) \/ WriteFrame(r) \/ ReadEof(r)
    <2>1. stats' = stats /\ got' = got
        BY <1>9 DEF SendHeaders, Refuse, WriteFrame, ReadEof
    <2> QED
        BY <1>9, <2>1
<1>10. CASE Pump(r) \/ Disconnect(r)
    BY <1>10 DEF Pump, PumpWakes, PumpStops, PumpBegins, PumpEnds, Disconnect, handler, response
<1> QED
    BY <1>3, <1>4, <1>5, <1>6, <1>7, <1>8, <1>9, <1>10 DEF Step, Handler

LEMMA FailedNext ==
    ASSUME Types, Returns, Fresh, Pumps, Failed, Next
    PROVE  Failed'
<1> DEFINE Early(q) == Erring(q) /\ pump[q] # "off" => stats[q] = NoStats /\ (engine = "dead" \/ got[q] = <<>>)
<1>0. engine = "dead" => engine' = "dead"
    BY DeathIsFinal
<1>1. ASSUME NEW r \in Requests, Step(r) PROVE Failed'
    <2>1. Early(r)'
        <3> SUFFICES ASSUME Erring(r)', pump'[r] # "off"
                     PROVE  stats'[r] = NoStats /\ (engine' = "dead" \/ got'[r] = <<>>)
            BY DEF NoStats
        <3>1. /\ SendHeaders(r) \/ Refuse(r) \/ WriteFrame(r) \/ ReadEof(r) \/ (Erring(r) /\ pump[r] # "off")
              /\ stats' = stats /\ got' = got
            BY <1>1, Errs
        <3>2. CASE SendHeaders(r) \/ Refuse(r) \/ WriteFrame(r)
            <4>1. Before(r)
                BY <3>2, Moves
            <4> QED
                BY <3>1, <4>1 DEF Fresh
        <3>3. CASE ReadEof(r)
            <4>1. Reading(r) /\ engine = "dead"
                BY <3>3, Moves DEF ReadEof
            <4> QED
                BY <1>0, <3>1, <4>1 DEF Fresh
        <3>4. CASE Erring(r) /\ pump[r] # "off"
            BY <1>0, <3>1, <3>4 DEF Failed
        <3> QED
            BY <3>1, <3>2, <3>3, <3>4
    <2>2. \A q \in Requests : q # r => Early(q)'
        BY <1>0, <1>1, Others DEF Same, Failed, Erring, NoStats
    <2> QED
        BY <2>1, <2>2 DEF Failed
<1>2. CASE Engine \/ EngineDies \/ Shutdown
    <2>1. UNCHANGED <<handler, response>>
        BY <1>2 DEF Engine, TakeFrame, Speak, EndTurn, EngineDies, Shutdown
    <2> QED
        BY <1>0, <2>1 DEF Failed, Erring, handler, response, NoStats
<1> QED
    BY <1>1, <1>2 DEF Next, Step

-----------------------------------------------------------------------------
(* The theorems *)

LEMMA Inductive == IInv /\ [Next]_vars => IInv'
<1> SUFFICES ASSUME IInv, [Next]_vars PROVE IInv'
    OBVIOUS
<1>1. CASE Next
    BY <1>1, TypesNext, LeasesNext, ReturnsNext, PipesNext, OwnAnswerNext, FreshNext, RowsNext, ChosenNext,
       LockedNext, PumpsNext, FailedNext DEF IInv
<1>2. CASE UNCHANGED vars
    <2> USE <1>2 DEF vars, lease, handler, response, network, router, process
    <2>1. Types'
        BY DEF IInv, Types, TypeOK
    <2>2. \A q \in Requests : SameStage(q)
        BY Elsewhere
    <2>3. Leases' /\ Returns'
        BY <2>2 DEF IInv, Leases, Returns, SameStage, Leased
    <2>4. Pipes'
        BY <2>2, PipesKept DEF IInv, SameStage
    <2>5. OwnAnswer'
        BY DEF IInv, OwnAnswer
    <2>6. Fresh'
        BY <2>2 DEF IInv, Fresh, SameStage
    <2>7. Rows'
        BY <2>2 DEF IInv, Rows, Working, SameStage
    <2>8. Chosen'
        BY <2>2 DEF IInv, Chosen, SameStage
    <2>9. Locked' /\ Pumps'
        BY DEF IInv, Locked, Pumps
    <2>10. Failed'
        BY DEF IInv, Failed, Erring
    <2> QED
        BY <2>1, <2>3, <2>4, <2>5, <2>6, <2>7, <2>8, <2>9, <2>10 DEF IInv
<1> QED
    BY <1>1, <1>2

LEMMA SpecIInv == Spec => []IInv
    BY Initially, Inductive, PTL DEF Spec

\* Every variable has its type, in every run of the gateway.
THEOREM SpecTypeOK == Spec => []TypeOK
<1>1. IInv => TypeOK
    BY DEF IInv, Types
<1> QED
    BY <1>1, SpecIInv, PTL

\* Each request receives the chunks and the status of its own prompt, in order and
\* without a gap, for any number of requests that share the engine's pipes.
THEOREM SpecOwnAnswer == Spec => []OwnAnswer
<1>1. IInv => OwnAnswer
    BY DEF IInv
<1> QED
    BY <1>1, SpecIInv, PTL

\* While nobody holds the lease, a living engine waits with empty pipes, and the
\* router knows what each KV slot holds.
THEOREM SpecBetweenTurns == Spec => []BetweenTurns
<1>1. IInv => BetweenTurns
    <2> SUFFICES ASSUME IInv, holders = {}, engine # "dead"
                 PROVE  engine = "idle" /\ stdin = <<>> /\ stdout = <<>> /\ prompts = kv
        BY DEF BetweenTurns
    <2>1. \A q \in Requests : ~Reading(q) /\ ~Working(q)
        BY DEF IInv, Leases, Leased, Working
    <2> QED
        BY <2>1 DEF IInv, Pipes, Quiet, Rows
<1> QED
    BY <1>1, SpecIInv, PTL

\* A request for which the router chose is sent to a slot whose rows begin it no worse
\* than those of any slot that holds a beginning of it, for any prompts and slots.
THEOREM SpecGoesBackToItsRows == Spec => []GoesBackToItsRows
<1>1. IInv => GoesBackToItsRows
    BY DEF IInv, GoesBackToItsRows, Chosen, Before
<1> QED
    BY <1>1, SpecIInv, PTL

\* A keep-alive gets into a write of its response only when that is the JSON error of an
\* exception before the end of the answer: of a dead engine, or of a prompt refused before
\* anything of an answer came.
THEOREM SpecOnlyErrorsInterleave == Spec => []OnlyErrorsInterleave
<1>1. IInv => OnlyErrorsInterleave
    <2> SUFFICES ASSUME IInv, NEW r \in Requests, Writing(r), pump[r] = "write"
                 PROVE  /\ pc[r] = "writeJson" /\ then[r] = "finish"
                        /\ stats[r] = NoStats
                        /\ engine = "dead" \/ got[r] = <<>>
        BY DEF OnlyErrorsInterleave
    <2>1. pc[r] # "write"
        BY DEF IInv, Locked
    <2>2. pc[r] # "writeDone"
        BY DEF IInv, Pumps
    <2>3. pc[r] = "writeJson" => then[r] = "finish"
        BY DEF IInv, Pumps, Returns
    <2>4. pc[r] = "writeJson" /\ then[r] = "finish"
        BY <2>1, <2>2, <2>3 DEF Writing
    <2>5. Erring(r) /\ pump[r] # "off"
        BY <2>4 DEF Erring
    <2> QED
        BY <2>4, <2>5 DEF IInv, Failed
<1> QED
    BY <1>1, SpecIInv, PTL

\* No keep-alive follows data: [DONE].
THEOREM SpecDoneIsLast == Spec => []DoneIsLast
<1>1. IInv => DoneIsLast
    BY DEF IInv, DoneIsLast, Pumps
<1> QED
    BY <1>1, SpecIInv, PTL
=============================================================================
