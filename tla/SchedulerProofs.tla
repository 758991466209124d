--------------------------- MODULE SchedulerProofs ---------------------------
(***************************************************************************)
(* Theorems about GenerationScheduler for any number of handler threads    *)
(* and any queue bound.                                                    *)
(***************************************************************************)
EXTENDS Scheduler, SequenceTheorems, FiniteSetTheorems, TLAPS

-----------------------------------------------------------------------------
(* Sequences *)

\* Removing one place of a queue shifts the later places and nothing else.
LEMMA RemoveAtFacts ==
    ASSUME NEW S, NEW s \in Seq(S), NEW i \in 1 .. Len(s)
    PROVE  /\ RemoveAt(s, i) \in Seq(S)
           /\ Len(RemoveAt(s, i)) = Len(s) - 1
           /\ \A j \in 1 .. Len(s) - 1 :
                 RemoveAt(s, i)[j] = IF j < i THEN s[j] ELSE s[j + 1]
<1> DEFINE left  == SubSeq(s, 1, i - 1)
           right == SubSeq(s, i + 1, Len(s))
<1>0. Len(s) \in Nat
  BY LenProperties
<1>1. /\ left \in Seq(S) /\ Len(left) = i - 1
      /\ \A j \in 1 .. i - 1 : left[j] = s[j]
  <2>1. \A j \in 1 .. i - 1 : s[j] \in S
    BY <1>0, ElementOfSeq
  <2> HIDE DEF left
  <2> QED
    BY <1>0, <2>1, SubSeqProperties, i - 1 \in Int, 1 \in Int DEF left
<1>2. /\ right \in Seq(S) /\ Len(right) = Len(s) - i
      /\ \A j \in 1 .. Len(s) - i : right[j] = s[i + j]
  <2>1. \A j \in i + 1 .. Len(s) : s[j] \in S
    BY <1>0, ElementOfSeq
  <2> HIDE DEF right
  <2> QED
    BY <1>0, <2>1, SubSeqProperties, i + 1 \in Int, Len(s) \in Int DEF right
<1>3. /\ left \o right \in Seq(S)
      /\ Len(left \o right) = Len(left) + Len(right)
      /\ \A j \in 1 .. Len(left) + Len(right) :
            (left \o right)[j] = IF j <= Len(left) THEN left[j] ELSE right[j - Len(left)]
  <2> HIDE DEF left, right
  <2> QED
    BY <1>1, <1>2, ConcatProperties
<1>4. RemoveAt(s, i) = left \o right
  BY DEF RemoveAt
<1> HIDE DEF left, right
<1>5. ASSUME NEW j \in 1 .. Len(s) - 1
      PROVE  (left \o right)[j] = IF j < i THEN s[j] ELSE s[j + 1]
  <2>1. CASE j < i
    BY <1>0, <1>1, <1>2, <1>3, <2>1
  <2>2. CASE ~(j < i)
    <3>1. j - Len(left) \in 1 .. Len(s) - i /\ j \in 1 .. Len(left) + Len(right) /\ ~(j <= Len(left))
      BY <1>0, <1>1, <1>2, <2>2
    <3>2. (left \o right)[j] = right[j - Len(left)]
      BY <1>3, <3>1
    <3>3. right[j - Len(left)] = s[j + 1]
      BY <1>0, <1>1, <1>2, <2>2, <3>1
    <3> QED
      BY <2>2, <3>2, <3>3
  <2> QED
    BY <2>1, <2>2
<1>6. Len(left \o right) = Len(s) - 1
  BY <1>0, <1>1, <1>2, <1>3
<1> QED
  BY <1>3, <1>4, <1>5, <1>6

\* Appending leaves the earlier places alone.
LEMMA AppendFacts ==
    ASSUME NEW S, NEW s \in Seq(S), NEW e \in S
    PROVE  /\ Append(s, e) \in Seq(S)
           /\ Len(Append(s, e)) = Len(s) + 1
           /\ \A j \in 1 .. Len(s) : Append(s, e)[j] = s[j]
           /\ Append(s, e)[Len(s) + 1] = e
  OBVIOUS

\* A queue that is not empty has a head, its first place; popping it shifts the rest.
LEMMA HeadTailFacts ==
    ASSUME NEW S, NEW s \in Seq(S), s # <<>>
    PROVE  /\ Len(s) \in Nat \ {0}
           /\ Head(s) = s[1]
           /\ Tail(s) \in Seq(S)
           /\ Len(Tail(s)) = Len(s) - 1
           /\ \A j \in 1 .. Len(s) - 1 : Tail(s)[j] = s[j + 1]
  BY HeadTailProperties, EmptySeq, LenProperties

-----------------------------------------------------------------------------
(* The inductive invariant *)

\* Initially there is nothing to order.
LEMMA InitInductive == Init => Inductive
<1> SUFFICES ASSUME Init PROVE Inductive
  OBVIOUS
<1> USE SchedulerAssumption DEF Init
<1>1. TypeOK
  <2>1. queue \in Seq(Requests)
    BY EmptySeq
  <2> QED
    BY <2>1 DEF TypeOK
<1>2. Running = {} /\ Waiting = {} /\ Len(queue) = 0
  BY DEF Running, Waiting
<1>3. OneGeneration /\ TicketsAreWaiters /\ QueueBound
  BY <1>2 DEF OneGeneration, TicketsAreWaiters, QueueBound
<1>4. TicketsOrdered /\ NoOvertaking
  BY <1>2 DEF TicketsOrdered, NoOvertaking
<1>5. AsleepWait /\ NoLostWakeup
  BY DEF AsleepWait, NoLostWakeup
<1>6. AdmissionsAddUp
  BY DEF AdmissionsAddUp, Counters
<1> QED
  BY <1>1, <1>3, <1>4, <1>5, <1>6 DEF Inductive

\* Steps that leave the queue and every thread's place alone.
LEMMA QuietSteps ==
    ASSUME Inductive, NEW r \in Requests,
           Wake(r) \/ WaitAgain(r) \/ Disconnect(r) \/ Expire(r)
    PROVE  Inductive'
<1>1. TypeOK'
  BY DEF Inductive, TypeOK, Wake, WaitAgain, Disconnect, Expire, Awake
<1>2. UNCHANGED <<pc, queue, active, stats, tickets, joined>>
  BY DEF Wake, WaitAgain, Disconnect, Expire
<1>3. (AsleepWait /\ NoLostWakeup)'
  <2>1. CASE Wake(r)
    BY <2>1 DEF Inductive, TypeOK, AsleepWait, NoLostWakeup, Wake, Waiting
  <2>2. CASE WaitAgain(r)
    BY <2>2 DEF Inductive, TypeOK, AsleepWait, NoLostWakeup, WaitAgain, Awake, MayGo, IsHead, Waiting
  <2>3. CASE Disconnect(r) \/ Expire(r)
    BY <2>3 DEF Inductive, TypeOK, AsleepWait, NoLostWakeup, Disconnect, Expire, Waiting
  <2> QED
    BY <2>1, <2>2, <2>3
<1> QED
  BY <1>1, <1>2, <1>3
  DEF Inductive, OneGeneration, TicketsAreWaiters, QueueBound, NoOvertaking, TicketsOrdered,
      AdmissionsAddUp, Running

\* close() wakes everybody.
LEMMA CloseStep == ASSUME Inductive, Close PROVE Inductive'
  BY DEF Close, NotifyAll, Inductive, TypeOK, OneGeneration, TicketsAreWaiters, QueueBound,
         NoOvertaking, TicketsOrdered, AsleepWait, NoLostWakeup, AdmissionsAddUp, Running, Waiting

\* Steps by which a newcomer is turned away before it has a ticket.
LEMMA RefusalSteps ==
    ASSUME Inductive, NEW r \in Requests, RefuseClosed(r) \/ RefuseFull(r)
    PROVE  Inductive'
<1> USE SchedulerAssumption
<1>1. /\ UNCHANGED <<queue, asleep, active, closed, tickets, joined>>
      /\ pc[r] = "idle"
      /\ \E o \in {"closed", "full"} : pc' = [pc EXCEPT ![r] = o]
  BY DEF RefuseClosed, RefuseFull, Goto
<1>2. /\ \A s \in Requests : pc'[s] = "running" <=> pc[s] = "running"
      /\ \A s \in Requests : pc'[s] = "waiting" <=> pc[s] = "waiting"
  BY <1>1 DEF Inductive, TypeOK
<1>3. Running' = Running /\ Waiting' = Waiting
  BY <1>2 DEF Running, Waiting
<1>4. TypeOK'
  BY <1>1 DEF Inductive, TypeOK, Outcomes, RefuseClosed, RefuseFull, Count, Counters
<1>5. AdmissionsAddUp'
  BY <1>1 DEF Inductive, TypeOK, AdmissionsAddUp, RefuseClosed, RefuseFull, Count, Counters
<1> QED
  BY <1>1, <1>2, <1>3, <1>4, <1>5
  DEF Inductive, OneGeneration, TicketsAreWaiters, QueueBound, NoOvertaking, TicketsOrdered,
      AsleepWait, NoLostWakeup

\* An idle engine and an empty queue: the newcomer is admitted at once.
LEMMA AdmitAtOnceStep ==
    ASSUME Inductive, NEW r \in Requests, AdmitAtOnce(r)
    PROVE  Inductive'
<1> USE SchedulerAssumption
<1> USE DEF AdmitAtOnce, Goto
<1>1. TypeOK'
  BY DEF Inductive, TypeOK, Outcomes, Count, Counters, TakeTicket
<1>2. Running = {} /\ Running' = {r} /\ Len(queue) = 0
  BY DEF Inductive, TypeOK, OneGeneration, Running
<1>3. OneGeneration' /\ QueueBound'
  BY <1>2 DEF Inductive, OneGeneration, QueueBound
<1>4. TicketsAreWaiters' /\ AsleepWait'
  BY <1>2 DEF Inductive, TypeOK, TicketsAreWaiters, AsleepWait, Waiting
<1>5. TicketsOrdered' /\ NoOvertaking'
  BY <1>2 DEF Inductive, TypeOK, TicketsOrdered, NoOvertaking, TakeTicket
<1>6. NoLostWakeup' /\ AdmissionsAddUp'
  BY DEF Inductive, TypeOK, NoLostWakeup, AdmissionsAddUp, Count, Counters
<1> QED
  BY <1>1, <1>3, <1>4, <1>5, <1>6 DEF Inductive

\* A newcomer whose client is already gone leaves no trace in the queue.
LEMMA CancelAtOnceStep ==
    ASSUME Inductive, NEW r \in Requests, CancelAtOnce(r)
    PROVE  Inductive'
<1> USE SchedulerAssumption
<1> USE DEF CancelAtOnce, Goto
<1>1. TypeOK'
  BY DEF Inductive, TypeOK, Outcomes, Count, Counters, TakeTicket, NotifyAll
<1>2. Running' = Running /\ Waiting' = Waiting /\ r \notin Running \cup Waiting
  BY DEF Inductive, TypeOK, Running, Waiting
<1>3. \A i \in 1 .. Len(queue) : queue[i] \in Waiting
  <2>1. \A i \in 1 .. Len(queue) : queue[i] \in Requests
    BY ElementOfSeq DEF Inductive, TypeOK
  <2> QED
    BY <2>1 DEF Inductive, TicketsAreWaiters, Waiting
<1>4. OneGeneration' /\ QueueBound'
  BY <1>2 DEF Inductive, OneGeneration, QueueBound
<1>5. TicketsAreWaiters'
  BY <1>2 DEF Inductive, TypeOK, TicketsAreWaiters, Waiting
<1>6. \A s \in Running \cup Waiting : joined'[s] = joined[s]
  BY <1>2 DEF Inductive, TypeOK, TakeTicket, Running, Waiting
<1>7. TicketsOrdered' /\ NoOvertaking'
  <2>1. \A s \in Running \cup Waiting : joined[s] \in Nat
    BY DEF Inductive, TypeOK, Running, Waiting
  <2> QED
    BY <1>2, <1>3, <1>6, <2>1 DEF Inductive, TypeOK, TicketsOrdered, NoOvertaking, TakeTicket
<1>8. AsleepWait' /\ NoLostWakeup' /\ AdmissionsAddUp'
  BY DEF Inductive, TypeOK, AsleepWait, NoLostWakeup, AdmissionsAddUp, Count, Counters, NotifyAll
<1> QED
  BY <1>1, <1>4, <1>5, <1>7, <1>8 DEF Inductive

\* The places of the queue hold requests that wait.
LEMMA PlacesWait ==
    ASSUME Inductive
    PROVE  /\ Len(queue) \in Nat
           /\ \A i \in 1 .. Len(queue) : queue[i] \in Requests /\ queue[i] \in Waiting
<1>1. Len(queue) \in Nat /\ \A i \in 1 .. Len(queue) : queue[i] \in Requests
  BY ElementOfSeq, LenProperties DEF Inductive, TypeOK
<1> QED
  BY <1>1 DEF Inductive, TicketsAreWaiters, Waiting

\* A newcomer joins the end of the queue and goes to sleep.
LEMMA EnqueueStep ==
    ASSUME Inductive, NEW r \in Requests, Enqueue(r)
    PROVE  Inductive'
<1> USE SchedulerAssumption
<1> USE DEF Enqueue, Goto
<1> DEFINE n == Len(queue)
<1>1. TypeOK'
  BY DEF Inductive, TypeOK, Outcomes, TakeTicket
<1>2. /\ n \in Nat /\ Len(queue') = n + 1 /\ queue'[n + 1] = r
      /\ \A i \in 1 .. n : queue'[i] = queue[i]
      /\ \A i \in 1 .. n : queue[i] \in Requests /\ queue[i] \in Waiting
  BY AppendFacts, PlacesWait DEF Inductive, TypeOK
<1>3. Running' = Running /\ Waiting' = Waiting \cup {r} /\ r \notin Running \cup Waiting
  BY DEF Inductive, TypeOK, Running, Waiting
<1> HIDE DEF n
<1>4. OneGeneration'
  BY <1>3 DEF Inductive, OneGeneration
<1>5. QueueBound'
  BY <1>2 DEF Inductive, QueueBound, Full, n
<1>6. TicketsAreWaiters'
  <2>1. \A s \in Requests : pc'[s] = "waiting" <=> (pc[s] = "waiting" \/ s = r)
    BY DEF Inductive, TypeOK
  <2>2. \A i \in 1 .. n : queue'[i] # r
    BY <1>2, <1>3
  <2>3. \A s \in Requests : (\E i \in 1 .. n : queue[i] = s) <=> pc[s] = "waiting"
    BY DEF Inductive, TicketsAreWaiters, n
  <2>4. \A s \in Requests : (\E i \in 1 .. n + 1 : queue'[i] = s)
                               <=> ((\E i \in 1 .. n : queue[i] = s) \/ s = r)
    BY <1>2
  <2>5. \A i, j \in 1 .. n + 1 : queue'[i] = queue'[j] => i = j
    <3>1. \A i, j \in 1 .. n : queue[i] = queue[j] => i = j
      BY DEF Inductive, TicketsAreWaiters, n
    <3> QED
      BY <1>2, <2>2, <3>1
  <2> QED
    BY <1>2, <2>1, <2>3, <2>4, <2>5 DEF TicketsAreWaiters
<1>7. TicketsOrdered' /\ NoOvertaking'
  <2>1. /\ tickets \in Nat /\ tickets' = tickets + 1 /\ joined'[r] = tickets + 1
        /\ \A s \in Running \cup Waiting : joined'[s] = joined[s] /\ joined[s] \in Nat
    BY <1>3 DEF Inductive, TypeOK, TakeTicket, Running, Waiting
  <2>2. \A i \in 1 .. n : joined[queue[i]] <= tickets
    BY DEF Inductive, TicketsOrdered, n
  <2>3. \A s \in Running : joined[s] <= tickets
    BY DEF Inductive, TicketsOrdered
  <2>4. \A i \in 1 .. n : joined'[queue'[i]] = joined[queue[i]] /\ joined[queue[i]] \in Nat
    BY <1>2, <2>1
  <2>5. TicketsOrdered'
    BY <1>2, <1>3, <2>1, <2>2, <2>3, <2>4 DEF TicketsOrdered
  <2>6. \A i, j \in 1 .. n + 1 : i < j => joined'[queue'[i]] < joined'[queue'[j]]
    <3>1. \A i, j \in 1 .. n : i < j => joined[queue[i]] < joined[queue[j]]
      BY DEF Inductive, NoOvertaking, n
    <3>2. \A i \in 1 .. n : joined'[queue'[i]] < joined'[queue'[n + 1]]
      BY <1>2, <2>1, <2>2, <2>4
    <3>3. ASSUME NEW i \in 1 .. n + 1, NEW j \in 1 .. n + 1, i < j
          PROVE  joined'[queue'[i]] < joined'[queue'[j]]
      <4>1. i \in 1 .. n
        BY <1>2, <3>3
      <4>2. CASE j = n + 1
        BY <3>2, <4>1, <4>2
      <4>3. CASE j \in 1 .. n
        BY <2>4, <3>1, <3>3, <4>1, <4>3
      <4> QED
        BY <1>2, <4>2, <4>3
    <3> QED
      BY <3>3
  <2>7. \A s \in Running : \A i \in 1 .. n + 1 : joined'[s] < joined'[queue'[i]]
    <3>1. \A s \in Running : \A i \in 1 .. n : joined[s] < joined[queue[i]]
      BY DEF Inductive, NoOvertaking, n
    <3> QED
      BY <1>2, <2>1, <2>3, <2>4, <3>1
  <2> QED
    BY <1>2, <1>3, <2>5, <2>6, <2>7 DEF NoOvertaking
<1>8. AsleepWait'
  BY <1>3 DEF Inductive, AsleepWait
<1>9. NoLostWakeup'
  <2>1. CASE n = 0
    BY <2>1 DEF Inductive, TypeOK, NoLostWakeup, n
  <2>2. CASE n # 0
    <3>1. queue # <<>> /\ queue' # <<>> /\ Head(queue') = queue'[1] /\ Head(queue) = queue[1]
      BY <1>2, <2>2, <1>1, HeadTailFacts DEF Inductive, TypeOK, n
    <3>2. queue'[1] = queue[1] /\ queue[1] # r
      BY <1>2, <1>3, <2>2
    <3> QED
      BY <3>1, <3>2 DEF Inductive, NoLostWakeup
  <2> QED
    BY <2>1, <2>2
<1>10. AdmissionsAddUp'
  BY DEF Inductive, AdmissionsAddUp
<1> QED
  BY <1>1, <1>4, <1>5, <1>6, <1>7, <1>8, <1>9, <1>10 DEF Inductive

\* A place that is given up, first or not: everybody behind it moves up.
LEMMA QueueShrinks ==
    ASSUME Inductive, NEW i \in 1 .. Len(queue),
           queue' \in Seq(Requests), Len(queue') = Len(queue) - 1,
           \A j \in 1 .. Len(queue) - 1 :
              queue'[j] = IF j < i THEN queue[j] ELSE queue[j + 1],
           UNCHANGED <<tickets, joined>>,
           \A s \in Requests : pc'[s] = "waiting" <=> (pc[s] = "waiting" /\ s # queue[i])
    PROVE  /\ TicketsAreWaiters'
           /\ QueueBound'
           /\ \A j \in 1 .. Len(queue') : joined'[queue'[j]] <= tickets'
           /\ \A j, k \in 1 .. Len(queue') : j < k => joined'[queue'[j]] < joined'[queue'[k]]
<1> USE SchedulerAssumption
<1> DEFINE n == Len(queue)
           Old(j) == IF j < i THEN j ELSE j + 1   \* where place j was before
<1>1. n \in Nat /\ n >= 1 /\ Len(queue') = n - 1
  BY PlacesWait
<1>2. \A j \in 1 .. n - 1 : Old(j) \in 1 .. n /\ Old(j) # i /\ queue'[j] = queue[Old(j)]
  BY <1>1
<1>3. \A j, k \in 1 .. n - 1 : j < k => Old(j) < Old(k)
  BY <1>1
<1>4. \A m \in 1 .. n : m # i => \E j \in 1 .. n - 1 : Old(j) = m
  <2> SUFFICES ASSUME NEW m \in 1 .. n, m # i
               PROVE  \E j \in 1 .. n - 1 : Old(j) = m
    OBVIOUS
  <2>1. CASE m < i
    <3>1. m \in 1 .. n - 1 /\ Old(m) = m
      BY <1>1, <2>1
    <3> QED
      BY <3>1
  <2>2. CASE m > i
    <3>1. m - 1 \in 1 .. n - 1 /\ Old(m - 1) = m
      BY <1>1, <2>2
    <3> QED
      BY <3>1
  <2> QED
    BY <1>1, <2>1, <2>2
<1>5. \A j, k \in 1 .. n : queue[j] = queue[k] => j = k
  BY DEF Inductive, TicketsAreWaiters
<1> HIDE DEF Old, n
<1>6. QueueBound'
  BY <1>1 DEF Inductive, QueueBound, n
<1>7. TicketsAreWaiters'
  <2>1. \A s \in Requests : (\E m \in 1 .. n : queue[m] = s) <=> pc[s] = "waiting"
    BY DEF Inductive, TicketsAreWaiters, n
  <2>2. \A s \in Requests : (\E j \in 1 .. n - 1 : queue'[j] = s)
                               <=> (\E m \in 1 .. n : m # i /\ queue[m] = s)
    BY <1>2, <1>4
  <2>3. \A s \in Requests : (\E m \in 1 .. n : m # i /\ queue[m] = s)
                               <=> ((\E m \in 1 .. n : queue[m] = s) /\ s # queue[i])
    BY <1>5, <1>1 DEF n
  <2>4. \A j, k \in 1 .. n - 1 : queue'[j] = queue'[k] => j = k
    <3> SUFFICES ASSUME NEW j \in 1 .. n - 1, NEW k \in 1 .. n - 1, queue'[j] = queue'[k]
                 PROVE  j = k
      OBVIOUS
    <3>1. Old(j) = Old(k) /\ Old(k) \in Nat
      BY <1>1, <1>2, <1>5
    <3>2. ~(j < k) /\ ~(k < j)
      BY <1>3, <3>1
    <3> QED
      BY <1>1, <3>2
  <2>5. \A s \in Requests : pc'[s] = "waiting" <=> \E j \in 1 .. n - 1 : queue'[j] = s
    BY <2>1, <2>2, <2>3
  <2> QED
    BY <1>1, <2>4, <2>5 DEF TicketsAreWaiters
<1>8. \A j \in 1 .. Len(queue') : joined'[queue'[j]] <= tickets'
  BY <1>1, <1>2 DEF Inductive, TicketsOrdered, n
<1>9. \A j, k \in 1 .. Len(queue') : j < k => joined'[queue'[j]] < joined'[queue'[k]]
  <2>1. \A l, m \in 1 .. n : l < m => joined[queue[l]] < joined[queue[m]]
    BY DEF Inductive, NoOvertaking, n
  <2>2. joined' = joined
    OBVIOUS
  <2> SUFFICES ASSUME NEW j \in 1 .. n - 1, NEW k \in 1 .. n - 1, j < k
               PROVE  joined[queue'[j]] < joined[queue'[k]]
    BY <1>1, <2>2
  <2>3. Old(j) \in 1 .. n /\ Old(k) \in 1 .. n /\ Old(j) < Old(k)
    BY <1>2, <1>3
  <2> QED
    BY <1>2, <2>1, <2>3
<1> QED
  BY <1>6, <1>7, <1>8, <1>9

\* A waiter gives up its place: shutdown, disconnect or deadline.
LEMMA LeaveSteps ==
    ASSUME Inductive, NEW r \in Requests,
           LeaveClosed(r) \/ LeaveCancelled(r) \/ LeaveTimedOut(r)
    PROVE  Inductive'
<1> USE SchedulerAssumption
<1>1. /\ RemoveTicket(r)
      /\ asleep' = {}
      /\ pc[r] = "waiting"
      /\ \E o \in {"closed", "cancelled", "timeout"} : pc' = [pc EXCEPT ![r] = o]
      /\ UNCHANGED <<active, closed, tickets, joined>>
      /\ UNCHANGED <<gone, expired>>
      /\ stats' \in [Counters -> Nat]
      /\ stats'["admitted"] = stats["admitted"] /\ stats'["completed"] = stats["completed"]
  BY DEF LeaveClosed, LeaveCancelled, LeaveTimedOut, NotifyAll, Goto, Awake, Count,
         Inductive, TypeOK, Counters
<1>2. PICK i \in 1 .. Len(queue) : queue[i] = r /\ queue' = RemoveAt(queue, i)
  BY <1>1 DEF RemoveTicket
<1>3. /\ queue' \in Seq(Requests) /\ Len(queue') = Len(queue) - 1
      /\ \A j \in 1 .. Len(queue) - 1 : queue'[j] = IF j < i THEN queue[j] ELSE queue[j + 1]
  BY <1>2, RemoveAtFacts DEF Inductive, TypeOK
<1>4. \A s \in Requests : pc'[s] = "waiting" <=> (pc[s] = "waiting" /\ s # r)
  BY <1>1 DEF Inductive, TypeOK
<1>5. Running' = Running
  BY <1>1 DEF Inductive, TypeOK, Running
<1>6. TypeOK'
  BY <1>1, <1>3 DEF Inductive, TypeOK, Outcomes
<1>7. /\ TicketsAreWaiters' /\ QueueBound'
      /\ \A j \in 1 .. Len(queue') : joined'[queue'[j]] <= tickets'
      /\ \A j, k \in 1 .. Len(queue') : j < k => joined'[queue'[j]] < joined'[queue'[k]]
  BY <1>1, <1>2, <1>3, <1>4, QueueShrinks
<1>8. TicketsOrdered'
  BY <1>1, <1>5, <1>7 DEF Inductive, TicketsOrdered
<1>9. NoOvertaking'
  <2>1. \A s \in Running : \A j \in 1 .. Len(queue) - 1 : joined[s] < joined[queue'[j]]
    BY <1>3, PlacesWait DEF Inductive, NoOvertaking
  <2> QED
    BY <1>1, <1>3, <1>5, <1>7, <2>1 DEF NoOvertaking
<1>10. OneGeneration'
  BY <1>1, <1>5 DEF Inductive, OneGeneration
<1>11. AsleepWait' /\ NoLostWakeup' /\ AdmissionsAddUp'
  BY <1>1 DEF Inductive, AsleepWait, NoLostWakeup, AdmissionsAddUp
<1> QED
  BY <1>6, <1>7, <1>8, <1>9, <1>10, <1>11 DEF Inductive

\* The head of the queue takes the free engine.
LEMMA AdmitHeadStep ==
    ASSUME Inductive, NEW r \in Requests, AdmitHead(r)
    PROVE  Inductive'
<1> USE SchedulerAssumption
<1> USE DEF AdmitHead, Awake, MayGo, IsHead, Goto
<1>1. /\ Len(queue) \in Nat \ {0} /\ queue[1] = r
      /\ queue' \in Seq(Requests) /\ Len(queue') = Len(queue) - 1
      /\ \A j \in 1 .. Len(queue) - 1 : queue'[j] = queue[j + 1]
  BY HeadTailFacts DEF Inductive, TypeOK
<1>2. TypeOK'
  <2>1. stats' \in [Counters -> Nat]
    BY DEF Inductive, TypeOK, Count, Counters
  <2>2. pc' \in [Requests -> {"idle", "waiting", "running"} \cup Outcomes]
    BY DEF Inductive, TypeOK
  <2> QED
    BY <1>1, <2>1, <2>2 DEF Inductive, TypeOK
<1>3. \A s \in Requests : pc'[s] = "waiting" <=> (pc[s] = "waiting" /\ s # r)
  BY DEF Inductive, TypeOK
<1>4. Running = {} /\ Running' = {r} /\ Waiting' = Waiting \ {r}
  BY DEF Inductive, TypeOK, OneGeneration, Running, Waiting
<1>5. 1 \in 1 .. Len(queue)
      /\ \A j \in 1 .. Len(queue) - 1 : queue'[j] = IF j < 1 THEN queue[j] ELSE queue[j + 1]
  BY <1>1
<1>6. /\ TicketsAreWaiters' /\ QueueBound'
      /\ \A j \in 1 .. Len(queue') : joined'[queue'[j]] <= tickets'
      /\ \A j, k \in 1 .. Len(queue') : j < k => joined'[queue'[j]] < joined'[queue'[k]]
  <2>1. UNCHANGED <<tickets, joined>>
    OBVIOUS
  <2> QED
    BY <1>1, <1>3, <1>5, <2>1, QueueShrinks
<1>7. TicketsOrdered'
  BY <1>1, <1>4, <1>6 DEF Inductive, TicketsOrdered
<1>8. NoOvertaking'
  <2>1. \A j \in 1 .. Len(queue) - 1 : joined[r] < joined[queue'[j]]
    BY <1>1 DEF Inductive, NoOvertaking
  <2> QED
    BY <1>1, <1>4, <1>6, <2>1 DEF NoOvertaking
<1>9. OneGeneration'
  BY <1>4 DEF OneGeneration
<1>10. AsleepWait' /\ NoLostWakeup'
  BY <1>4 DEF Inductive, AsleepWait, NoLostWakeup
<1>11. AdmissionsAddUp'
  BY DEF Inductive, TypeOK, AdmissionsAddUp, Count, Counters
<1> QED
  BY <1>2, <1>6, <1>7, <1>8, <1>9, <1>10, <1>11 DEF Inductive

\* The finally clause of the holder.
LEMMA ReleaseStep ==
    ASSUME Inductive, NEW r \in Requests, Release(r)
    PROVE  Inductive'
<1> USE SchedulerAssumption
<1> USE DEF Release, Goto, NotifyAll
<1>1. TypeOK'
  <2>1. stats' \in [Counters -> Nat]
    BY DEF Inductive, TypeOK, Count, Counters
  <2>2. pc' \in [Requests -> {"idle", "waiting", "running"} \cup Outcomes]
    BY DEF Inductive, TypeOK, Outcomes
  <2> QED
    BY <2>1, <2>2 DEF Inductive, TypeOK
<1>2. r \in Running /\ Running' = {} /\ Waiting' = Waiting
  BY DEF Inductive, TypeOK, OneGeneration, Running, Waiting
<1>3. OneGeneration' /\ QueueBound'
  BY <1>2 DEF Inductive, OneGeneration, QueueBound
<1>4. TicketsAreWaiters'
  <2>1. \A s \in Requests : pc'[s] = "waiting" <=> pc[s] = "waiting"
    BY DEF Inductive, TypeOK
  <2> QED
    BY <2>1 DEF Inductive, TicketsAreWaiters
<1>5. TicketsOrdered' /\ NoOvertaking'
  BY <1>2 DEF Inductive, TicketsOrdered, NoOvertaking
<1>6. AsleepWait' /\ NoLostWakeup'
  BY DEF AsleepWait, NoLostWakeup
<1>7. AdmissionsAddUp'
  BY <1>2 DEF Inductive, TypeOK, OneGeneration, AdmissionsAddUp, Count, Counters
<1> QED
  BY <1>1, <1>3, <1>4, <1>5, <1>6, <1>7 DEF Inductive

-----------------------------------------------------------------------------
(* Theorems *)

\* Every step of the scheduler, or of its environment, keeps the invariant.
LEMMA NextInductive == Inductive /\ [Next]_vars => Inductive'
<1> SUFFICES ASSUME Inductive, [Next]_vars PROVE Inductive'
  OBVIOUS
<1>1. ASSUME NEW r \in Requests, Admit(r) PROVE Inductive'
  BY <1>1, RefusalSteps, AdmitAtOnceStep, CancelAtOnceStep, EnqueueStep DEF Admit
<1>2. ASSUME NEW r \in Requests, Evaluate(r) PROVE Inductive'
  BY <1>2, LeaveSteps, AdmitHeadStep, QuietSteps DEF Evaluate
<1>3. ASSUME NEW r \in Requests, Wake(r) \/ Disconnect(r) \/ Expire(r) PROVE Inductive'
  BY <1>3, QuietSteps
<1>4. ASSUME NEW r \in Requests, Release(r) PROVE Inductive'
  BY <1>4, ReleaseStep
<1>5. ASSUME Close PROVE Inductive'
  BY <1>5, CloseStep
<1>6. CASE UNCHANGED vars
  BY <1>6
  DEF vars, Inductive, TypeOK, OneGeneration, TicketsAreWaiters, QueueBound, TicketsOrdered,
      NoOvertaking, AsleepWait, NoLostWakeup, AdmissionsAddUp, Running, Waiting
<1> QED
  BY <1>1, <1>2, <1>3, <1>4, <1>5, <1>6 DEF Next

\* The invariant holds in every reachable state.
THEOREM SpecInductive == Spec => []Inductive
  BY InitInductive, NextInductive, PTL DEF Spec

\* GenerationScheduler keeps its types: the type invariant.
THEOREM SpecTypeOK == Spec => []TypeOK
  BY SpecInductive, PTL DEF Inductive

\* admit() is mutual exclusion: never two generations on the engine's KV
\* context, and self.active tells whether there is one.
THEOREM SpecOneGeneration == Spec => []OneGeneration
  BY SpecInductive, PTL DEF Inductive

\* The deque holds exactly the tickets of the threads that wait, each once.
THEOREM SpecTicketsAreWaiters == Spec => []TicketsAreWaiters
  BY SpecInductive, PTL DEF Inductive

\* The deque never holds more than max_queue tickets, whatever max_queue is.
THEOREM SpecQueueBound == Spec => []QueueBound
  BY SpecInductive, PTL DEF Inductive

\* Admission is first come, first served.
THEOREM SpecNoOvertaking == Spec => []NoOvertaking
  BY SpecInductive, PTL DEF Inductive

\* A free engine never waits for the 0.25 s poll of the head of its queue, nor
\* close() for that of any waiter.
THEOREM SpecNoLostWakeup == Spec => []NoLostWakeup
  BY SpecInductive, PTL DEF Inductive

\* After close() nobody is admitted.
THEOREM SpecNoAdmissionAfterClose == Spec => NoAdmissionAfterClose
<1>1. TypeOK /\ [Next]_vars => [closed => stats'["admitted"] = stats["admitted"]]_vars
  <2> SUFFICES ASSUME TypeOK, Next, closed
               PROVE  stats'["admitted"] = stats["admitted"]
    BY DEF vars
  <2>1. ASSUME NEW r \in Requests, Admit(r) \/ Evaluate(r)
        PROVE  stats'["admitted"] = stats["admitted"]
    BY <2>1
    DEF Admit, Evaluate, RefuseClosed, RefuseFull, AdmitAtOnce, CancelAtOnce, Enqueue,
        LeaveClosed, AdmitHead, LeaveCancelled, LeaveTimedOut, WaitAgain
  <2>2. ASSUME NEW r \in Requests, Wake(r) \/ Release(r) \/ Disconnect(r) \/ Expire(r)
        PROVE  stats'["admitted"] = stats["admitted"]
    BY <2>2 DEF TypeOK, Counters, Wake, Release, Disconnect, Expire, Count
  <2>3. CASE Close
    BY <2>3 DEF Close
  <2> QED
    BY <2>1, <2>2, <2>3 DEF Next
<1> QED
  BY <1>1, SpecTypeOK, PTL DEF Spec, NoAdmissionAfterClose

-----------------------------------------------------------------------------
(* No ticket is lost by the counters *)

\* A thread has no ticket before it asks for one, and has one while it waits:
\* so that one refused by a closed scheduler is not counted as turned away.
Numbered == \A r \in Requests : /\ pc[r] = "idle" => joined[r] = 0
                                /\ pc[r] = "waiting" => joined[r] > 0

\* The sum of five counts.
Total(a, b, c, n, k) == a + b + c + n + k

\* How many tickets the counters, the deque and close() account for.
Accounted == Total(stats["admitted"], stats["timed_out"], stats["cancelled"],
                   Len(queue), Cardinality(TurnedAway))

\* Every ticket is accounted for, by numbers that are numbers.
LEMMA AccountTypes ==
    ASSUME TypeOK
    PROVE  /\ \A c \in Counters : stats[c] \in Nat
           /\ {"admitted", "timed_out", "cancelled"} \subseteq Counters
           /\ Len(queue) \in Nat
           /\ IsFiniteSet(TurnedAway) /\ Cardinality(TurnedAway) \in Nat
           /\ TurnedAway = {r \in Requests : pc[r] = "closed" /\ joined[r] > 0}
<1>1. TurnedAway \subseteq Requests
  BY DEF TurnedAway
<1>2. IsFiniteSet(TurnedAway)
  BY <1>1, FS_Subset, SchedulerAssumption
<1>3. Cardinality(TurnedAway) \in Nat
  BY <1>2, FS_CardinalityType
<1> QED
  BY <1>2, <1>3, LenProperties DEF TypeOK, Counters, TurnedAway

\* One more in any place is one more in the sum.
LEMMA TotalSteps ==
    ASSUME NEW a \in Nat, NEW b \in Nat, NEW c \in Nat, NEW n \in Nat, NEW k \in Nat
    PROVE  /\ Total(a + 1, b, c, n, k) = Total(a, b, c, n, k) + 1
           /\ Total(a, b, c + 1, n, k) = Total(a, b, c, n, k) + 1
           /\ Total(a, b, c, n + 1, k) = Total(a, b, c, n, k) + 1
           /\ Total(a + 1, b, c, n - 1, k) = Total(a, b, c, n, k)
           /\ Total(a, b + 1, c, n - 1, k) = Total(a, b, c, n, k)
           /\ Total(a, b, c + 1, n - 1, k) = Total(a, b, c, n, k)
           /\ Total(a, b, c, n - 1, k + 1) = Total(a, b, c, n, k)
  BY DEF Total

\* Tickets are given out in one critical section with the place they pay for.
LEMMA NumberedNext ==
    ASSUME Inductive, Numbered, [Next]_vars
    PROVE  Numbered'
<1> USE DEF Numbered
<1>1. /\ pc \in [Requests -> {"idle", "waiting", "running"} \cup Outcomes]
      /\ joined \in [Requests -> Nat] /\ tickets \in Nat
  BY DEF Inductive, TypeOK
<1>2. ASSUME NEW r \in Requests, AdmitAtOnce(r) \/ CancelAtOnce(r) \/ Enqueue(r)
      PROVE  Numbered'
  <2>1. /\ joined' = [joined EXCEPT ![r] = tickets + 1]
        /\ \E o \in {"running", "cancelled", "waiting"} : pc' = [pc EXCEPT ![r] = o]
    BY <1>2 DEF AdmitAtOnce, CancelAtOnce, Enqueue, TakeTicket, Goto
  <2> QED
    BY <1>1, <2>1
<1>3. ASSUME NEW r \in Requests,
             RefuseClosed(r) \/ RefuseFull(r) \/ Evaluate(r) \/ Release(r)
      PROVE  Numbered'
  <2>1. /\ joined' = joined
        /\ \/ pc' = pc
           \/ \E o \in Outcomes \cup {"running"} : pc' = [pc EXCEPT ![r] = o]
    BY <1>3 DEF RefuseClosed, RefuseFull, Evaluate, LeaveClosed, AdmitHead, LeaveCancelled,
                LeaveTimedOut, WaitAgain, Release, Goto, Outcomes
  <2> QED
    BY <1>1, <2>1 DEF Outcomes
<1>4. ASSUME NEW r \in Requests, Wake(r) \/ Disconnect(r) \/ Expire(r) PROVE Numbered'
  BY <1>4 DEF Wake, Disconnect, Expire
<1>5. CASE Close \/ UNCHANGED vars
  BY <1>5 DEF Close, vars
<1> QED
  BY <1>2, <1>3, <1>4, <1>5 DEF Next, Admit

\* A newcomer's ticket is admitted, cancelled or put in the deque.
LEMMA TicketTaken ==
    ASSUME Inductive, NEW r \in Requests, AdmitAtOnce(r) \/ CancelAtOnce(r) \/ Enqueue(r)
    PROVE  tickets' = tickets + 1 /\ Accounted' = Accounted + 1
<1> DEFINE a == stats["admitted"]
           b == stats["timed_out"]
           c == stats["cancelled"]
           n == Len(queue)
           k == Cardinality(TurnedAway)
<1>0. /\ a \in Nat /\ b \in Nat /\ c \in Nat /\ n \in Nat /\ k \in Nat
      /\ Accounted = Total(a, b, c, n, k)
  BY AccountTypes DEF Inductive, Accounted
<1>1. TypeOK /\ tickets' = tickets + 1
  BY DEF Inductive, AdmitAtOnce, CancelAtOnce, Enqueue, TakeTicket
<1>2. TurnedAway' = TurnedAway
  <2>1. /\ joined' = [joined EXCEPT ![r] = tickets + 1] /\ pc[r] = "idle"
        /\ \E o \in {"running", "cancelled", "waiting"} : pc' = [pc EXCEPT ![r] = o]
    BY DEF AdmitAtOnce, CancelAtOnce, Enqueue, TakeTicket, Goto
  <2>2. \A q \in Requests : (pc'[q] = "closed" /\ joined'[q] > 0)
                                <=> (pc[q] = "closed" /\ joined[q] > 0)
    BY <1>1, <2>1 DEF TypeOK
  <2> QED
    BY <2>2 DEF TurnedAway
<1>3. CASE AdmitAtOnce(r)
  <2>1. /\ stats' = [stats EXCEPT !["admitted"] = @ + 1] /\ queue' = queue
    BY <1>3 DEF AdmitAtOnce, Count
  <2>2. /\ stats'["admitted"] = stats["admitted"] + 1
        /\ stats'["timed_out"] = stats["timed_out"] /\ stats'["cancelled"] = stats["cancelled"]
    BY <1>1, <2>1 DEF TypeOK, Counters
  <2>8. Accounted' = Total(a + 1, b, c, n, k)
    BY <1>1, <1>2, <2>1, <2>2 DEF Accounted
  <2> HIDE DEF a, b, c, n, k
  <2> QED
    BY <1>0, <1>1, <2>8, TotalSteps
<1>4. CASE CancelAtOnce(r)
  <2>1. /\ stats' = [stats EXCEPT !["cancelled"] = @ + 1] /\ queue' = queue
    BY <1>4 DEF CancelAtOnce, Count
  <2>2. /\ stats'["cancelled"] = stats["cancelled"] + 1
        /\ stats'["timed_out"] = stats["timed_out"] /\ stats'["admitted"] = stats["admitted"]
    BY <1>1, <2>1 DEF TypeOK, Counters
  <2>8. Accounted' = Total(a, b, c + 1, n, k)
    BY <1>1, <1>2, <2>1, <2>2 DEF Accounted
  <2> HIDE DEF a, b, c, n, k
  <2> QED
    BY <1>0, <1>1, <2>8, TotalSteps
<1>5. CASE Enqueue(r)
  <2>1. stats' = stats /\ Len(queue') = Len(queue) + 1
    BY <1>1, <1>5, AppendFacts DEF Enqueue, TypeOK
  <2>8. Accounted' = Total(a, b, c, n + 1, k)
    BY <1>1, <1>2, <2>1 DEF Accounted
  <2> HIDE DEF a, b, c, n, k
  <2> QED
    BY <1>0, <1>1, <2>8, TotalSteps
<1> QED
  BY <1>1, <1>3, <1>4, <1>5

\* Whoever leaves the deque is admitted, cancelled, timed out or turned away.
LEMMA PlaceLeft ==
    ASSUME Inductive, Numbered, NEW r \in Requests,
           LeaveClosed(r) \/ AdmitHead(r) \/ LeaveCancelled(r) \/ LeaveTimedOut(r)
    PROVE  tickets' = tickets /\ Accounted' = Accounted
<1> DEFINE a == stats["admitted"]
           b == stats["timed_out"]
           c == stats["cancelled"]
           n == Len(queue)
           k == Cardinality(TurnedAway)
<1>0. /\ a \in Nat /\ b \in Nat /\ c \in Nat /\ n \in Nat /\ k \in Nat
      /\ Accounted = Total(a, b, c, n, k)
  BY AccountTypes DEF Inductive, Accounted
<1>1. TypeOK /\ tickets' = tickets /\ joined' = joined /\ pc[r] = "waiting" /\ joined[r] > 0
  BY DEF Inductive, Numbered, LeaveClosed, AdmitHead, LeaveCancelled, LeaveTimedOut, Awake
<1>2. Len(queue') = Len(queue) - 1
  <2>1. CASE AdmitHead(r)
    BY <1>1, <2>1, HeadTailFacts DEF AdmitHead, MayGo, IsHead, TypeOK
  <2>2. CASE RemoveTicket(r)
    BY <1>1, <2>2, RemoveAtFacts DEF RemoveTicket, TypeOK
  <2> QED
    BY <2>1, <2>2 DEF LeaveClosed, LeaveCancelled, LeaveTimedOut
<1>3. CASE LeaveClosed(r)
  <2>1. pc' = [pc EXCEPT ![r] = "closed"] /\ stats' = stats
    BY <1>3 DEF LeaveClosed, Goto
  <2>2. \A q \in Requests : (pc'[q] = "closed" /\ joined'[q] > 0)
                                <=> ((pc[q] = "closed" /\ joined[q] > 0) \/ q = r)
    BY <1>1, <2>1 DEF TypeOK
  <2>3. TurnedAway' = TurnedAway \cup {r} /\ r \notin TurnedAway
    BY <1>1, <2>2 DEF TurnedAway
  <2>4. Cardinality(TurnedAway') = Cardinality(TurnedAway) + 1
    BY <1>1, <2>3, AccountTypes, FS_AddElement
  <2>8. Accounted' = Total(a, b, c, n - 1, k + 1)
    BY <1>1, <1>2, <2>1, <2>4 DEF Accounted
  <2> HIDE DEF a, b, c, n, k
  <2> QED
    BY <1>0, <1>1, <2>8, TotalSteps
<1>4. ASSUME NEW o \in {"running", "cancelled", "timeout"}, pc' = [pc EXCEPT ![r] = o]
      PROVE  TurnedAway' = TurnedAway
  <2>1. \A q \in Requests : (pc'[q] = "closed" /\ joined'[q] > 0)
                                <=> (pc[q] = "closed" /\ joined[q] > 0)
    BY <1>1, <1>4 DEF TypeOK
  <2> QED
    BY <2>1 DEF TurnedAway
<1>5. ASSUME NEW d \in {"admitted", "timed_out", "cancelled"},
             stats' = [stats EXCEPT ![d] = @ + 1], TurnedAway' = TurnedAway
      PROVE  Accounted' = Accounted
  <2>1. /\ stats'["admitted"] = IF d = "admitted" THEN a + 1 ELSE a
        /\ stats'["timed_out"] = IF d = "timed_out" THEN b + 1 ELSE b
        /\ stats'["cancelled"] = IF d = "cancelled" THEN c + 1 ELSE c
    BY <1>1, <1>5 DEF TypeOK, Counters
  <2> DEFINE up(e, m) == IF d = e THEN m + 1 ELSE m
  <2>2. Accounted' = Total(up("admitted", a), up("timed_out", b), up("cancelled", c), n - 1, k)
    BY <1>2, <1>5, <2>1 DEF Accounted
  <2> HIDE DEF a, b, c, n, k
  <2>3. CASE d = "admitted"
    BY <1>0, <2>2, <2>3, TotalSteps
  <2>4. CASE d = "timed_out"
    BY <1>0, <2>2, <2>4, TotalSteps
  <2>5. CASE d = "cancelled"
    BY <1>0, <2>2, <2>5, TotalSteps
  <2> QED
    BY <2>3, <2>4, <2>5
<1>6. CASE AdmitHead(r)
  BY <1>1, <1>4, <1>5, <1>6 DEF AdmitHead, Goto, Count
<1>7. CASE LeaveCancelled(r)
  BY <1>1, <1>4, <1>5, <1>7 DEF LeaveCancelled, Goto, Count
<1>8. CASE LeaveTimedOut(r)
  BY <1>1, <1>4, <1>5, <1>8 DEF LeaveTimedOut, Goto, Count
<1> QED
  BY <1>1, <1>3, <1>6, <1>7, <1>8

\* Nothing else touches a ticket, or a counter of tickets.
LEMMA NothingCounted ==
    ASSUME Inductive, Numbered, NEW r \in Requests,
           \/ RefuseClosed(r) \/ RefuseFull(r) \/ Wake(r) \/ WaitAgain(r)
           \/ Release(r) \/ Disconnect(r) \/ Expire(r)
    PROVE  tickets' = tickets /\ Accounted' = Accounted
<1>1. /\ UNCHANGED <<queue, tickets, joined>>
      /\ \/ stats' = stats
         \/ \E c \in {"rejected", "completed"} : stats' = [stats EXCEPT ![c] = @ + 1]
      /\ \/ pc' = pc
         \/ pc[r] = "idle" /\ pc' = [pc EXCEPT ![r] = "closed"]
         \/ pc[r] = "idle" /\ pc' = [pc EXCEPT ![r] = "full"]
         \/ pc[r] = "running" /\ pc' = [pc EXCEPT ![r] = "served"]
  BY DEF RefuseClosed, RefuseFull, Wake, WaitAgain, Release, Disconnect, Expire, Goto, Count
<1>2. \A q \in Requests : (pc'[q] = "closed" /\ joined'[q] > 0)
                              <=> (pc[q] = "closed" /\ joined[q] > 0)
  BY <1>1 DEF Inductive, TypeOK, Numbered
<1>3. TurnedAway' = TurnedAway
  BY <1>2 DEF TurnedAway
<1>4. \A d \in {"admitted", "cancelled", "timed_out"} : stats'[d] = stats[d]
  BY <1>1 DEF Inductive, TypeOK, Counters
<1> QED
  BY <1>1, <1>3, <1>4 DEF Accounted

\* The counters of /health add up, for any number of threads: every ticket that
\* was ever issued is in one of the three counters, in the deque, or was turned
\* away by close(), and every admission is completed or is the active one.
THEOREM SpecConservation == Spec => []Conservation
<1> DEFINE Inv == Numbered /\ tickets = Accounted
<1>1. Init => Inv
  <2> SUFFICES ASSUME Init PROVE Inv
    OBVIOUS
  <2>1. TurnedAway = {} /\ Len(queue) = 0 /\ Cardinality({}) = 0
    BY FS_EmptySet DEF Init, TurnedAway
  <2> QED
    BY <2>1 DEF Init, Numbered, Accounted, Total, Counters
<1>2. Inductive /\ Inv /\ [Next]_vars => Inv'
  <2> SUFFICES ASSUME Inductive, Inv, [Next]_vars PROVE tickets' = Accounted'
    BY NumberedNext
  <2>1. tickets \in Nat
    BY DEF Inductive, TypeOK
  <2>2. ASSUME NEW r \in Requests, Admit(r) PROVE tickets' = Accounted'
    BY <2>1, <2>2, TicketTaken, NothingCounted DEF Admit
  <2>3. ASSUME NEW r \in Requests, Evaluate(r) PROVE tickets' = Accounted'
    BY <2>3, PlaceLeft, NothingCounted DEF Evaluate
  <2>4. ASSUME NEW r \in Requests, Wake(r) \/ Release(r) \/ Disconnect(r) \/ Expire(r)
        PROVE  tickets' = Accounted'
    BY <2>4, NothingCounted
  <2>5. CASE Close \/ UNCHANGED vars
    BY <2>5 DEF Close, vars, Accounted, TurnedAway
  <2> QED
    BY <2>2, <2>3, <2>4, <2>5 DEF Next
<1>3. Inductive /\ Inv => Conservation
  BY DEF Inductive, Conservation, Accounted, Total
<1> QED
  BY <1>1, <1>2, <1>3, SpecInductive, PTL DEF Spec

-----------------------------------------------------------------------------
(* The scheduler implements the abstract lease *)

\* Each step of the scheduler is a step of the lease or leaves it unchanged.
LEMMA StepSimulation == Inductive /\ [Next]_vars => [Lease!Next]_Lease!vars
<1> SUFFICES ASSUME Inductive, [Next]_vars PROVE [Lease!Next]_Lease!vars
  OBVIOUS
<1> USE DEF Lease!Next, Lease!vars
<1>1. ASSUME NEW r \in Requests,
             RefuseClosed(r) \/ RefuseFull(r) \/ CancelAtOnce(r) \/ Wake(r) \/ WaitAgain(r)
                \/ Disconnect(r) \/ Expire(r)
      PROVE  UNCHANGED Lease!vars
  <2>1. UNCHANGED <<queue, closed>>
    BY <1>1 DEF RefuseClosed, RefuseFull, CancelAtOnce, Wake, WaitAgain, Disconnect, Expire
  <2>2. \A s \in Requests : pc'[s] = "running" <=> pc[s] = "running"
    BY <1>1 DEF Inductive, TypeOK, Goto, RefuseClosed, RefuseFull, CancelAtOnce, Wake,
                WaitAgain, Disconnect, Expire
  <2> QED
    BY <2>1, <2>2 DEF Running
<1>2. ASSUME NEW r \in Requests, AdmitAtOnce(r) PROVE Lease!GrantAtOnce(r)
  BY <1>2 DEF AdmitAtOnce, Goto, Inductive, TypeOK, OneGeneration, Running, Lease!GrantAtOnce
<1>3. ASSUME NEW r \in Requests, Enqueue(r) PROVE Lease!Join(r)
  <2>1. Running' = Running /\ r \notin Running /\ r \notin Waiting
    BY <1>3 DEF Enqueue, Goto, Inductive, TypeOK, Running, Waiting
  <2>2. ~Lease!Contains(queue, r)
    BY <2>1, PlacesWait DEF Lease!Contains
  <2>3. Len(queue) < MaxQueue
    BY <1>3, PlacesWait, SchedulerAssumption DEF Enqueue, Full
  <2> QED
    BY <1>3, <2>1, <2>2, <2>3 DEF Enqueue, Lease!Join
<1>4. ASSUME NEW r \in Requests, LeaveClosed(r) \/ LeaveCancelled(r) \/ LeaveTimedOut(r)
      PROVE  \E i \in 1 .. Len(queue) : Lease!Leave(i)
  <2>1. UNCHANGED closed /\ RemoveTicket(r)
    BY <1>4 DEF LeaveClosed, LeaveCancelled, LeaveTimedOut
  <2>2. Running' = Running
    BY <1>4 DEF LeaveClosed, LeaveCancelled, LeaveTimedOut, Awake, Goto, Inductive, TypeOK, Running
  <2> QED
    BY <2>1, <2>2 DEF RemoveTicket, Lease!Leave, RemoveAt, Lease!RemoveAt
<1>5. ASSUME NEW r \in Requests, AdmitHead(r) PROVE Lease!Grant(r)
  BY <1>5 DEF AdmitHead, Awake, MayGo, IsHead, Goto, Inductive, TypeOK, OneGeneration, Running,
              Lease!Grant
<1>6. ASSUME NEW r \in Requests, Release(r) PROVE Lease!Release(r)
  BY <1>6 DEF Release, Goto, Inductive, TypeOK, OneGeneration, Running, Lease!Release
<1>7. CASE Close
  BY <1>7 DEF Close, Lease!Close, Running
<1>8. CASE UNCHANGED vars
  BY <1>8 DEF vars, Running
<1> QED
  BY <1>1, <1>2, <1>3, <1>4, <1>5, <1>6, <1>7, <1>8 DEF Next, Admit, Evaluate

\* GenerationScheduler implements the exclusive, bounded, first-come lease: what
\* the detailed loop with its sleeping, polling and deadlines does is only ever
\* joining, leaving, granting to the oldest, releasing and closing.
THEOREM SpecImplementsLease == Spec => LeaseSpec
<1>1. Init => Lease!Init
  BY DEF Init, Lease!Init, Running
<1> QED
  BY <1>1, StepSimulation, SpecInductive, PTL DEF Spec, LeaseSpec, Lease!Spec
=============================================================================
