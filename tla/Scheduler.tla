------------------------------ MODULE Scheduler ------------------------------
(***************************************************************************)
(* GenerationScheduler of c/openai_server.py: bounded FIFO admission of    *)
(* HTTP handler threads to the engine's single mutable KV context.         *)
(*                                                                         *)
(* Every handler thread that calls admit() holds the condition's lock from *)
(* one return of condition.wait() to the next, so each pass through the    *)
(* loop of admit() is one action.  condition.wait(min(remaining, 0.25)) is *)
(* kept as it is: a waiter sleeps (asleep) until notify_all() or the timer *)
(* (Wake) lets it run the loop again.  Wall-clock time is abstracted to    *)
(* the set of requests whose deadline has passed, the socket to the set of *)
(* requests whose client is gone.                                          *)
(***************************************************************************)
EXTENDS Integers, Sequences, FiniteSets, SequencesExt

CONSTANTS Requests,  \* calls of admit(), each made by a thread of its own
          MaxQueue   \* max_queue

ASSUME SchedulerAssumption == IsFiniteSet(Requests) /\ MaxQueue \in Nat

VARIABLES
    pc,         \* where each call is, or how it ended
    queue,      \* self.queue, tickets identified with their requests
    asleep,     \* the waiters inside condition.wait()
    active,     \* self.active
    closed,     \* self.closed
    stats,      \* self.admitted, completed, rejected, timed_out, cancelled
    gone,       \* requests whose client has closed its socket
    expired,    \* waiting requests past their deadline
    tickets,    \* history: how many tickets were appended to the queue so far
    joined      \* history: the number of each request's ticket, 0 for none

vars == <<pc, queue, asleep, active, closed, stats, gone, expired, tickets, joined>>

Outcomes == {"served", "closed", "full", "cancelled", "timeout"}
Counters == {"admitted", "completed", "rejected", "timed_out", "cancelled"}

Waiting == {r \in Requests : pc[r] = "waiting"}
Running == {r \in Requests : pc[r] = "running"}

\* Those that close() found in the queue.
TurnedAway == {r \in Requests : pc[r] = "closed" /\ joined[r] > 0}

Init ==
    /\ pc = [r \in Requests |-> "idle"]
    /\ queue = <<>>
    /\ asleep = {}
    /\ active = FALSE
    /\ closed = FALSE
    /\ stats = [c \in Counters |-> 0]
    /\ gone = {}
    /\ expired = {}
    /\ tickets = 0
    /\ joined = [r \in Requests |-> 0]

-----------------------------------------------------------------------------
(* Helpers *)

Goto(r, where) == pc' = [pc EXCEPT ![r] = where]

Count(c) == stats' = [stats EXCEPT ![c] = @ + 1]

\* condition.notify_all(), issued by a thread that is not itself in the wait.
NotifyAll == asleep' = {}

\* self.queue.append(ticket), as far as the history of arrivals goes.
TakeTicket(r) == /\ tickets' = tickets + 1
                 /\ joined' = [joined EXCEPT ![r] = tickets + 1]

\* self.queue.remove(ticket)
RemoveTicket(r) == \E i \in 1 .. Len(queue) :
                      queue[i] = r /\ queue' = RemoveAt(queue, i)

IsHead(r) == queue # <<>> /\ Head(queue) = r

\* (self.active or self.queue) and len(self.queue) >= self.max_queue
Full == (active \/ queue # <<>>) /\ Len(queue) >= MaxQueue

-----------------------------------------------------------------------------
(* admit(): entry, up to the first condition.wait() *)

RefuseClosed(r) ==
    /\ pc[r] = "idle" /\ closed
    /\ Goto(r, "closed")
    /\ UNCHANGED <<queue, asleep, active, closed, stats, gone, expired, tickets, joined>>

RefuseFull(r) ==
    /\ pc[r] = "idle" /\ ~closed /\ Full
    /\ Count("rejected")
    /\ Goto(r, "full")
    /\ UNCHANGED <<queue, asleep, active, closed, gone, expired, tickets, joined>>

\* Mutant of AdmitAtOnce: an idle engine is enough, whoever waits.
BargeIn(r) ==
    /\ pc[r] = "idle" /\ ~closed /\ ~Full
    /\ ~active
    /\ active' = TRUE
    /\ Count("admitted")
    /\ Goto(r, "running")
    /\ TakeTicket(r)
    /\ UNCHANGED <<queue, asleep, closed, gone, expired>>

\* The ticket is appended and popped in the same critical section.
AdmitAtOnce(r) ==
    /\ pc[r] = "idle" /\ ~closed /\ ~Full
    /\ ~active /\ queue = <<>>
    /\ active' = TRUE
    /\ Count("admitted")
    /\ Goto(r, "running")
    /\ TakeTicket(r)
    /\ UNCHANGED <<queue, asleep, closed, gone, expired>>

\* The ticket is appended and removed in the same critical section.
CancelAtOnce(r) ==
    /\ pc[r] = "idle" /\ ~closed /\ ~Full
    /\ active \/ queue # <<>>
    /\ r \in gone
    /\ Count("cancelled")
    /\ NotifyAll
    /\ Goto(r, "cancelled")
    /\ TakeTicket(r)
    /\ UNCHANGED <<queue, active, closed, gone, expired>>

Enqueue(r) ==
    /\ pc[r] = "idle" /\ ~closed /\ ~Full
    /\ active \/ queue # <<>>
    /\ r \notin gone
    /\ queue' = Append(queue, r)
    /\ asleep' = asleep \cup {r}
    /\ Goto(r, "waiting")
    /\ TakeTicket(r)
    /\ UNCHANGED <<active, closed, stats, gone, expired>>

-----------------------------------------------------------------------------
(* admit(): one pass of the loop after a wake-up *)

Awake(r) == pc[r] = "waiting" /\ r \notin asleep

\* condition.wait() times out after at most 0.25 s.
Wake(r) ==
    /\ r \in asleep
    /\ asleep' = asleep \ {r}
    /\ UNCHANGED <<pc, queue, active, closed, stats, gone, expired, tickets, joined>>

LeaveClosed(r) ==
    /\ Awake(r) /\ closed
    /\ RemoveTicket(r)
    /\ NotifyAll
    /\ Goto(r, "closed")
    /\ UNCHANGED <<active, closed, stats, gone, expired, tickets, joined>>

\* Mutant of MayGo: whoever wakes first.
AnyoneMayGo(r) == ~active

MayGo(r) == ~active /\ IsHead(r)

AdmitHead(r) ==
    /\ Awake(r) /\ ~closed /\ MayGo(r)
    /\ queue' = Tail(queue)
    /\ active' = TRUE
    /\ Count("admitted")
    /\ Goto(r, "running")
    /\ UNCHANGED <<asleep, closed, gone, expired, tickets, joined>>

\* Mutant of LeaveCancelled: the cancellation is not counted.
LeaveUncounted(r) ==
    /\ Awake(r) /\ ~closed /\ ~MayGo(r)
    /\ r \in gone
    /\ RemoveTicket(r)
    /\ NotifyAll
    /\ Goto(r, "cancelled")
    /\ UNCHANGED <<active, closed, stats, gone, expired, tickets, joined>>

LeaveCancelled(r) ==
    /\ Awake(r) /\ ~closed /\ ~MayGo(r)
    /\ r \in gone
    /\ RemoveTicket(r)
    /\ Count("cancelled")
    /\ NotifyAll
    /\ Goto(r, "cancelled")
    /\ UNCHANGED <<active, closed, gone, expired, tickets, joined>>

\* Mutant of LeaveTimedOut: the deadline is only looked at while the engine is free.
LeaveWhenFree(r) ==
    /\ Awake(r) /\ ~closed /\ ~active /\ ~IsHead(r)
    /\ r \notin gone /\ r \in expired
    /\ RemoveTicket(r)
    /\ Count("timed_out")
    /\ NotifyAll
    /\ Goto(r, "timeout")
    /\ UNCHANGED <<active, closed, gone, expired, tickets, joined>>

LeaveTimedOut(r) ==
    /\ Awake(r) /\ ~closed /\ ~MayGo(r)
    /\ r \notin gone /\ r \in expired
    /\ RemoveTicket(r)
    /\ Count("timed_out")
    /\ NotifyAll
    /\ Goto(r, "timeout")
    /\ UNCHANGED <<active, closed, gone, expired, tickets, joined>>

WaitAgain(r) ==
    /\ Awake(r) /\ ~closed /\ ~MayGo(r)
    /\ r \notin gone /\ r \notin expired
    /\ asleep' = asleep \cup {r}
    /\ UNCHANGED <<pc, queue, active, closed, stats, gone, expired, tickets, joined>>

Evaluate(r) == \/ LeaveClosed(r) \/ AdmitHead(r) \/ LeaveCancelled(r)
               \/ LeaveTimedOut(r) \/ WaitAgain(r)

-----------------------------------------------------------------------------
(* The holder's finally clause, shutdown, and the environment *)

\* Mutants of Release: no notify_all(); the flag is left set.
ReleaseSilently(r) ==
    /\ pc[r] = "running"
    /\ active' = FALSE
    /\ Count("completed")
    /\ Goto(r, "served")
    /\ UNCHANGED <<queue, asleep, closed, gone, expired, tickets, joined>>

ReleaseNothing(r) ==
    /\ pc[r] = "running"
    /\ Count("completed")
    /\ NotifyAll
    /\ Goto(r, "served")
    /\ UNCHANGED <<queue, active, closed, gone, expired, tickets, joined>>

Release(r) ==
    /\ pc[r] = "running"
    /\ active' = FALSE
    /\ Count("completed")
    /\ NotifyAll
    /\ Goto(r, "served")
    /\ UNCHANGED <<queue, closed, gone, expired, tickets, joined>>

Close ==
    /\ ~closed
    /\ closed' = TRUE
    /\ NotifyAll
    /\ UNCHANGED <<pc, queue, active, stats, gone, expired, tickets, joined>>

\* The scheduler looks at the socket only while the request waits.
Disconnect(r) ==
    /\ pc[r] \in {"idle", "waiting"} /\ r \notin gone
    /\ gone' = gone \cup {r}
    /\ UNCHANGED <<pc, queue, asleep, active, closed, stats, expired, tickets, joined>>

\* Time passes the deadline of a waiting request.
Expire(r) ==
    /\ pc[r] = "waiting" /\ r \notin expired
    /\ expired' = expired \cup {r}
    /\ UNCHANGED <<pc, queue, asleep, active, closed, stats, gone, tickets, joined>>

Admit(r) == \/ RefuseClosed(r) \/ RefuseFull(r) \/ AdmitAtOnce(r)
            \/ CancelAtOnce(r) \/ Enqueue(r)

Next ==
    \/ \E r \in Requests :
          Admit(r) \/ Wake(r) \/ Evaluate(r) \/ Release(r) \/ Disconnect(r) \/ Expire(r)
    \/ Close

Spec == Init /\ [][Next]_vars

\* condition.wait() always returns (0.25 s) and the lock is always handed on.
\* Nothing is assumed of the engine, of the deadlines or of the clients.
FairSpec == Spec /\ \A r \in Requests : WF_vars(Wake(r)) /\ WF_vars(Evaluate(r))

-----------------------------------------------------------------------------
(* Properties *)

\* Every variable has its type: positions, tickets, counters.
TypeOK ==
    /\ pc \in [Requests -> {"idle", "waiting", "running"} \cup Outcomes]
    /\ queue \in Seq(Requests)
    /\ asleep \subseteq Requests
    /\ active \in BOOLEAN
    /\ closed \in BOOLEAN
    /\ stats \in [Counters -> Nat]
    /\ gone \subseteq Requests
    /\ expired \subseteq Requests
    /\ tickets \in Nat
    /\ joined \in [Requests -> Nat]

\* The flag self.active and the threads inside the `with admit()` body agree,
\* and there is never more than one of them: the engine's KV context has one user.
OneGeneration ==
    /\ active <=> Running # {}
    /\ \A r, s \in Running : r = s

\* A ticket is in the deque exactly while its thread waits, and only once,
\* whatever way each thread leaves the loop.
TicketsAreWaiters ==
    /\ \A r \in Requests : pc[r] = "waiting" <=> \E i \in 1 .. Len(queue) : queue[i] = r
    /\ \A i, j \in 1 .. Len(queue) : queue[i] = queue[j] => i = j

\* len(self.queue) <= max_queue whenever the lock is free, for max_queue = 0 too,
\* where a request may be admitted but never wait.
QueueBound == Len(queue) <= MaxQueue

\* Admission is FIFO: the deque is in arrival order, and whoever holds the
\* engine arrived before everybody who still waits for it.
NoOvertaking ==
    /\ \A i, j \in 1 .. Len(queue) : i < j => joined[queue[i]] < joined[queue[j]]
    /\ \A r \in Running : \A i \in 1 .. Len(queue) : joined[r] < joined[queue[i]]

\* No wake-up is lost: when the engine is free the head of the queue is not
\* inside condition.wait(), and after close() nobody is, so that neither an
\* admission nor a shutdown is delayed until the 0.25 s poll.
NoLostWakeup ==
    /\ ~active /\ queue # <<>> => Head(queue) \notin asleep
    /\ closed => asleep = {}

\* Auxiliary: every admission is completed or is the active one.
AdmissionsAddUp == stats["admitted"] = stats["completed"] + (IF active THEN 1 ELSE 0)

\* The counters of /health tell the truth: every admission is completed or is
\* the active one, and every ticket that was ever issued was admitted, timed
\* out, cancelled, turned away by close(), or still waits.
Conservation ==
    /\ AdmissionsAddUp
    /\ tickets = stats["admitted"] + stats["timed_out"] + stats["cancelled"]
                   + Len(queue) + Cardinality(TurnedAway)

\* Auxiliary: tickets are numbered in the order they are issued.
TicketsOrdered ==
    /\ \A i \in 1 .. Len(queue) : joined[queue[i]] <= tickets
    /\ \A r \in Running : joined[r] <= tickets

\* Auxiliary: only waiters sleep.
AsleepWait == asleep \subseteq Waiting

\* The inductive invariant from which the safety theorems follow.
Inductive ==
    /\ TypeOK
    /\ OneGeneration
    /\ TicketsAreWaiters
    /\ QueueBound
    /\ TicketsOrdered
    /\ NoOvertaking
    /\ AsleepWait
    /\ NoLostWakeup
    /\ AdmissionsAddUp

\* After close() nobody is admitted, not even the head of the queue that finds
\* the engine free on its next wake-up.
NoAdmissionAfterClose == [][closed => stats'["admitted"] = stats["admitted"]]_vars

\* A request waits once at most, so that none waits for ever iff again and again
\* there is a moment at which none waits.
WaitersLeave == []<>(\A r \in Requests : pc[r] # "waiting")

\* Even if the engine never finishes its current turn, every thread that waits
\* leaves the queue: deadlines are honoured without any help from the holder.
HungEngineIsSurvived == WF_vars(\E r \in Requests : Expire(r)) => WaitersLeave

\* Even if no deadline ever passes, every thread that waits leaves the queue,
\* provided that each turn ends: the line keeps moving.
LineMoves == WF_vars(\E r \in Requests : Release(r)) => WaitersLeave

\* The scheduler implements the abstract lease.
Lease == INSTANCE FifoLease WITH holders <- Running, line <- queue, open <- ~closed

LeaseSpec == Lease!Spec
=============================================================================
