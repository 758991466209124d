------------------------------ MODULE FifoLease ------------------------------
(***************************************************************************)
(* What GenerationScheduler (c/openai_server.py) promises its callers: one *)
(* exclusive lease on the engine, handed to the members of a bounded line  *)
(* strictly in the order they joined it, and handed to nobody once the     *)
(* lease has been closed.  How a waiter learns that its turn has come      *)
(* (condition variable, polling, deadlines) is left to Scheduler.          *)
(***************************************************************************)
EXTENDS Naturals, Sequences, SequencesExt

CONSTANTS Requests,  \* the generation requests
          MaxQueue   \* how many of them may stand in line

VARIABLES holders,   \* the requests that hold the lease: none or one
          line,      \* those that wait for it, oldest first
          open       \* whether the lease is still being handed out

vars == <<holders, line, open>>

Init == holders = {} /\ line = <<>> /\ open = TRUE

Join(r) ==
    /\ open
    /\ Len(line) < MaxQueue
    /\ r \notin holders /\ ~Contains(line, r)
    /\ line' = Append(line, r)
    /\ UNCHANGED <<holders, open>>

\* The oldest member of the line takes a free lease.
Grant(r) ==
    /\ open
    /\ holders = {}
    /\ line # <<>> /\ r = Head(line)
    /\ holders' = {r}
    /\ line' = Tail(line)
    /\ UNCHANGED open

\* Nobody holds the lease and nobody waits: a newcomer need not stand in line.
GrantAtOnce(r) ==
    /\ open
    /\ holders = {} /\ line = <<>>
    /\ holders' = {r}
    /\ UNCHANGED <<line, open>>

\* A member gives up its place: timeout, disconnect or shutdown.
Leave(i) ==
    /\ line' = RemoveAt(line, i)
    /\ UNCHANGED <<holders, open>>

Release(r) ==
    /\ holders = {r}
    /\ holders' = {}
    /\ UNCHANGED <<line, open>>

Close == open' = FALSE /\ UNCHANGED <<holders, line>>

Next ==
    \/ \E r \in Requests : Join(r) \/ Grant(r) \/ GrantAtOnce(r) \/ Release(r)
    \/ \E i \in 1 .. Len(line) : Leave(i)
    \/ Close

Spec == Init /\ [][Next]_vars
=============================================================================
