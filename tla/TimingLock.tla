----------------------------- MODULE TimingLock -----------------------------
(***************************************************************************)
(* The exclusivity lock of the timing runs, c/scripts/timing_lock.sh: a    *)
(* directory made with mkdir, the metadata of its owner inside it, a       *)
(* reaper of what dead owners left, serialised by a second directory (the  *)
(* reap mutex), the owner's release and the watchdog's release by attempt. *)
(* A driver (roofline_run.sh, run_abba_matrix.sh) calls acquire once and   *)
(* gives up when told BUSY.  Every system call that another process can    *)
(* see or be seen by is a step; a process may die between any two.         *)
(***************************************************************************)

CONSTANTS
    Drivers,    \* the timing drivers that start
    Past,       \* a driver that died earlier, while it held the lock
    NoOne

ASSUME DriversAssumption ==
    /\ Past \notin Drivers
    /\ NoOne \notin Drivers \cup {Past}

Owners == Drivers \cup {Past}

VARIABLES
    lock,     \* the lock directory: its files, and whether it outlived its grace
    reap,     \* the reap mutex, and whether it outlived its own grace
    pc,       \* where each driver is in timing_lock_acquire and _release
    suspect,  \* the pid a reclaimer read and found alive
    reaping,  \* drivers that made the reap mutex and have not removed it
    dog,      \* the watchdog's release_attempt for each driver
    alone,    \* history: the driver that started on a quiet, reclaimable lock
    crossed   \* history: a removal fell inside another process's judgement

vars == <<lock, reap, pc, suspect, reaping, dog, alone, crossed>>
hist == <<alone, crossed>>

NoLock == [there |-> FALSE, meta |-> NoOne, tmp |-> NoOne, old |-> FALSE]
Made   == [NoLock EXCEPT !.there = TRUE]
NoReap == [there |-> FALSE, old |-> FALSE]
NewReap == [NoReap EXCEPT !.there = TRUE]

\* Between the first look at the owner on record and the mkdir that follows.
Judging == {"pid", "started", "empty", "rmdir", "mkdir"}
\* Not in a call, and not the owner.
Idle == {"new", "busy", "failed", "released", "dead"}
Labels == Idle \cup Judging \cup
    {"look", "age", "clear", "mutex", "judge", "write", "rename", "undo", "undoDir",
     "busyUnlock", "failUnlock", "heldUnlock", "held", "drop", "dropDir"}

\* What the variables may hold (the files and processes of lines 167-305).
TypeOK ==
    /\ lock \in [there : BOOLEAN, meta : Owners \cup {NoOne},
                 tmp : Drivers \cup {NoOne}, old : BOOLEAN]
    /\ reap \in [there : BOOLEAN, old : BOOLEAN]
    /\ pc \in [Drivers -> Labels]
    /\ suspect \in [Drivers -> Drivers \cup {NoOne}]
    /\ reaping \in SUBSET Drivers
    /\ dog \in [Drivers -> {"asleep", "look", "empty", "rmdir", "done"}]
    /\ alone \in Drivers \cup {NoOne}
    /\ crossed \in BOOLEAN

Init ==
    /\ lock \in {NoLock, Made, [Made EXCEPT !.meta = Past]}
    /\ reap \in {NoReap, NewReap}
    /\ pc = [p \in Drivers |-> "new"]
    /\ suspect = [p \in Drivers |-> NoOne]
    /\ reaping = {}
    /\ dog = [p \in Drivers |-> "asleep"]
    /\ alone = NoOne
    /\ crossed = FALSE

-----------------------------------------------------------------------------
\* kill -0 of a recorded pid fails.  (A recycled pid is told apart by its start
\* time, which no two processes of the model share.)
Dead(o) == o = Past \/ (o \in Drivers /\ pc[o] = "dead")
Goto(p, l) == pc' = [pc EXCEPT ![p] = l]

\* What the history variables are set from: others that still act on what they
\* saw of the lock; others in a call or holding; what an acquire may reclaim.
OthersJudging(p) == \E q \in Drivers \ {p} : pc[q] \in Judging
OthersActive(p) == \E q \in Drivers \ {p} : pc[q] \notin Idle
WatchdogsRelease == \E q \in Drivers : dog[q] \in {"empty", "rmdir"}
Reclaimable == lock.there => IF lock.meta = NoOne THEN lock.old ELSE Dead(lock.meta)

\* The two halves of rm -rf: unlink what is inside; rmdir, which refuses a
\* directory that has been filled since.
Empty == lock' = IF lock.meta = NoOne /\ lock.tmp = NoOne THEN lock
                 ELSE [lock EXCEPT !.meta = NoOne, !.tmp = NoOne, !.old = FALSE]
Rmdir == lock' = IF lock.meta = NoOne /\ lock.tmp = NoOne THEN NoLock ELSE lock

-----------------------------------------------------------------------------
(* Time and death *)

\* A grace passes.  The scripts rely on a live acquirer getting from mkdir to
\* its metadata within 5 s, and on a live reclaimer finishing within 30 s.
AgeLock ==
    /\ lock.there /\ ~lock.old
    /\ \A p \in Drivers : pc[p] \notin {"write", "rename", "undo", "undoDir", "dropDir"}
    /\ lock' = [lock EXCEPT !.old = TRUE]
    /\ UNCHANGED <<reap, pc, suspect, reaping, dog, hist>>

AgeReap ==
    /\ reap.there /\ ~reap.old /\ reaping = {}
    /\ reap' = [reap EXCEPT !.old = TRUE]
    /\ UNCHANGED <<lock, pc, suspect, reaping, dog, hist>>

Crash(p) ==
    /\ pc[p] \notin Idle
    /\ Goto(p, "dead")
    /\ suspect' = [suspect EXCEPT ![p] = NoOne]
    /\ reaping' = reaping \ {p}
    /\ dog' = [dog EXCEPT ![p] = IF pc[p] = "held" THEN "look" ELSE @]
    /\ UNCHANGED <<lock, reap, hist>>

-----------------------------------------------------------------------------
(* timing_lock_acquire *)

MkLock(p) ==
    /\ pc[p] = "new"
    /\ alone' = IF ~OthersActive(p) /\ ~WatchdogsRelease
                   /\ Reclaimable /\ (reap.there => reap.old) THEN p ELSE NoOne
    /\ IF lock.there THEN Goto(p, "look") /\ UNCHANGED lock
                     ELSE Goto(p, "write") /\ lock' = Made
    /\ UNCHANGED <<reap, suspect, reaping, dog, crossed>>

\* `! -d`: a lock released since the mkdir reads as a hard error.
LookAgain(p) ==
    /\ pc[p] = "look"
    /\ Goto(p, IF lock.there THEN "age" ELSE "failed")
    /\ UNCHANGED <<lock, reap, suspect, reaping, dog, hist>>

\* Mutant of ReadReapAge: an abandoned mutex is left to whoever made it.
NeverClear(p) ==
    /\ pc[p] = "age"
    /\ Goto(p, "mutex")
    /\ UNCHANGED <<lock, reap, suspect, reaping, dog, hist>>

ReadReapAge(p) ==
    /\ pc[p] = "age"
    /\ Goto(p, IF reap.old THEN "clear" ELSE "mutex")
    /\ UNCHANGED <<lock, reap, suspect, reaping, dog, hist>>

\* rm -rf of the mutex that was old when its age was read.
ClearReap(p) ==
    /\ pc[p] = "clear"
    /\ crossed' = (crossed \/ (reap.there /\ ~reap.old))
    /\ reap' = NoReap
    /\ Goto(p, "mutex")
    /\ UNCHANGED <<lock, suspect, reaping, dog, alone>>

\* Mutant of MkReap: reclaim without the mutex, as the script once did.
ReclaimFreely(p) ==
    /\ pc[p] = "mutex"
    /\ reap' = NewReap
    /\ reaping' = reaping \cup {p}
    /\ Goto(p, "judge")
    /\ UNCHANGED <<lock, suspect, dog, hist>>

MkReap(p) ==
    /\ pc[p] = "mutex"
    /\ IF reap.there
       THEN Goto(p, "busy") /\ UNCHANGED <<reap, reaping>>
       ELSE /\ reap' = NewReap
            /\ reaping' = reaping \cup {p}
            /\ Goto(p, "judge")
    /\ UNCHANGED <<lock, suspect, dog, hist>>

\* Mutant of Judge: a lock without metadata is stale at once.
NoGrace(p) ==
    /\ pc[p] = "judge"
    /\ Goto(p, IF lock.meta # NoOne THEN "pid" ELSE IF lock.there THEN "empty" ELSE "busyUnlock")
    /\ UNCHANGED <<lock, reap, suspect, reaping, dog, hist>>

\* _timing_lock_reap_if_stale: is there metadata?
Judge(p) ==
    /\ pc[p] = "judge"
    /\ Goto(p, IF lock.meta # NoOne THEN "pid" ELSE IF lock.old THEN "empty" ELSE "busyUnlock")
    /\ UNCHANGED <<lock, reap, suspect, reaping, dog, hist>>

\* Mutant of ReadPid: no kill -0, the start times are to tell.
TrustPid(p) ==
    /\ pc[p] = "pid"
    /\ IF lock.meta = NoOne
       THEN Goto(p, "empty") /\ UNCHANGED suspect
       ELSE Goto(p, "started") /\ suspect' = [suspect EXCEPT ![p] = lock.meta]
    /\ UNCHANGED <<lock, reap, reaping, dog, hist>>

\* _timing_lock_holder_is_alive: metadata that is gone by now reads as dead.
ReadPid(p) ==
    /\ pc[p] = "pid"
    /\ IF lock.meta = NoOne \/ Dead(lock.meta)
       THEN Goto(p, "empty") /\ UNCHANGED suspect
       ELSE Goto(p, "started") /\ suspect' = [suspect EXCEPT ![p] = lock.meta]
    /\ UNCHANGED <<lock, reap, reaping, dog, hist>>

\* The start time on record, read anew, against that of the pid read before.
ReadStartTime(p) ==
    /\ pc[p] = "started"
    /\ Goto(p, IF lock.meta = NoOne \/ (lock.meta = suspect[p] /\ ~Dead(suspect[p]))
               THEN "busyUnlock" ELSE "empty")
    /\ suspect' = [suspect EXCEPT ![p] = NoOne]
    /\ UNCHANGED <<lock, reap, reaping, dog, hist>>

ReapFiles(p) ==
    /\ pc[p] = "empty"
    /\ Empty /\ Goto(p, IF lock.there THEN "rmdir" ELSE "mkdir")
    /\ UNCHANGED <<reap, suspect, reaping, dog, hist>>

ReapDir(p) ==
    /\ pc[p] = "rmdir"
    /\ Rmdir /\ Goto(p, "mkdir")
    /\ UNCHANGED <<reap, suspect, reaping, dog, hist>>

MkLockAgain(p) ==
    /\ pc[p] = "mkdir"
    /\ IF lock.there THEN Goto(p, "busyUnlock") /\ UNCHANGED lock
                     ELSE Goto(p, "write") /\ lock' = Made
    /\ UNCHANGED <<reap, suspect, reaping, dog, hist>>

\* _timing_lock_write_meta: open and write .meta.json.tmp, then os.replace.
WriteMeta(p) ==
    /\ pc[p] = "write"
    /\ IF lock.there
       THEN Goto(p, "rename") /\ lock' = [lock EXCEPT !.tmp = p, !.old = FALSE]
       ELSE Goto(p, "undo") /\ UNCHANGED lock
    /\ UNCHANGED <<reap, suspect, reaping, dog, hist>>

RenameMeta(p) ==
    /\ pc[p] = "rename"
    /\ IF lock.tmp # NoOne
       THEN /\ lock' = [lock EXCEPT !.meta = lock.tmp, !.tmp = NoOne, !.old = FALSE]
            /\ Goto(p, IF p \in reaping THEN "heldUnlock" ELSE "held")
       ELSE Goto(p, "undo") /\ UNCHANGED lock
    /\ UNCHANGED <<reap, suspect, reaping, dog, hist>>

\* The write fails (a full disk, no python3): the lock is torn down again.
MetaFails(p) ==
    /\ pc[p] \in {"write", "rename"}
    /\ Goto(p, "undo")
    /\ alone' = IF alone = p THEN NoOne ELSE alone
    /\ UNCHANGED <<lock, reap, suspect, reaping, dog, crossed>>

AfterUndo(p) == IF p \in reaping THEN "failUnlock" ELSE "failed"

UndoFiles(p) ==
    /\ pc[p] = "undo"
    /\ Empty /\ Goto(p, IF lock.there THEN "undoDir" ELSE AfterUndo(p))
    /\ crossed' = (crossed \/ OthersJudging(p))
    /\ UNCHANGED <<reap, suspect, reaping, dog, alone>>

UndoDir(p) ==
    /\ pc[p] = "undoDir"
    /\ Rmdir /\ Goto(p, AfterUndo(p))
    /\ crossed' = (crossed \/ OthersJudging(p))
    /\ UNCHANGED <<reap, suspect, reaping, dog, alone>>

\* rmdir of the reap mutex, whoever made the one that is there.
Unlock(p) ==
    /\ pc[p] \in {"busyUnlock", "failUnlock", "heldUnlock"}
    /\ reap' = NoReap
    /\ reaping' = reaping \ {p}
    /\ Goto(p, CASE pc[p] = "busyUnlock" -> "busy" [] pc[p] = "failUnlock" -> "failed"
                 [] pc[p] = "heldUnlock" -> "held")
    /\ UNCHANGED <<lock, suspect, dog, hist>>

Acquire(p) ==
    \/ MkLock(p) \/ LookAgain(p) \/ ReadReapAge(p) \/ ClearReap(p) \/ MkReap(p)
    \/ Judge(p) \/ ReadPid(p) \/ ReadStartTime(p) \/ ReapFiles(p) \/ ReapDir(p)
    \/ MkLockAgain(p) \/ WriteMeta(p) \/ RenameMeta(p) \/ MetaFails(p)
    \/ UndoFiles(p) \/ UndoDir(p) \/ Unlock(p)

-----------------------------------------------------------------------------
(* timing_lock_release, and timing_lock_release_attempt by the watchdog *)

\* Not ours any more: refuse.  No metadata, or ours: remove.
Release(p) ==
    /\ pc[p] = "held"
    /\ Goto(p, IF lock.meta \in {p, NoOne} THEN "drop" ELSE "released")
    /\ UNCHANGED <<lock, reap, suspect, reaping, dog, hist>>

DropFiles(p) ==
    /\ pc[p] = "drop"
    /\ Empty /\ Goto(p, IF lock.there THEN "dropDir" ELSE "released")
    /\ crossed' = (crossed \/ OthersJudging(p))
    /\ UNCHANGED <<reap, suspect, reaping, dog, alone>>

DropDir(p) ==
    /\ pc[p] = "dropDir"
    /\ Rmdir /\ Goto(p, "released")
    /\ crossed' = (crossed \/ OthersJudging(p))
    /\ UNCHANGED <<reap, suspect, reaping, dog, alone>>

\* The watchdog has killed p's group and checks whose attempt is recorded.
DogLook(p) ==
    /\ dog[p] = "look"
    /\ dog' = [dog EXCEPT ![p] = IF lock.there /\ lock.meta \in {p, NoOne} THEN "empty" ELSE "done"]
    /\ alone' = NoOne
    /\ UNCHANGED <<lock, reap, pc, suspect, reaping, crossed>>

DogFiles(p) ==
    /\ dog[p] = "empty"
    /\ Empty /\ dog' = [dog EXCEPT ![p] = IF lock.there THEN "rmdir" ELSE "done"]
    /\ crossed' = (crossed \/ OthersActive(p))
    /\ UNCHANGED <<reap, pc, suspect, reaping, alone>>

DogDir(p) ==
    /\ dog[p] = "rmdir"
    /\ Rmdir /\ dog' = [dog EXCEPT ![p] = "done"]
    /\ crossed' = (crossed \/ OthersActive(p))
    /\ UNCHANGED <<reap, pc, suspect, reaping, alone>>

Next ==
    \/ AgeLock \/ AgeReap
    \/ \E p \in Drivers :
         Crash(p) \/ Acquire(p) \/ Release(p) \/ DropFiles(p) \/ DropDir(p)
                  \/ DogLook(p) \/ DogFiles(p) \/ DogDir(p)

Spec == Init /\ [][Next]_vars

-----------------------------------------------------------------------------
Holds(p) == pc[p] \in {"held", "heldUnlock"}

\* Two live drivers never both believe they own the machine.  This is what the
\* script's comments claim ("a fast-path acquirer racing in on the freed slot
\* still yields exactly one winner", lines 228-229); a release in the middle of
\* another driver's judgement breaks it.
OneDriver == \A p, q \in Drivers : Holds(p) /\ Holds(q) => p = q

\* It does hold as long as no owner releases, no failed acquire is undone and no
\* watchdog releases while another driver judges the lock, and no reap mutex is
\* cleared twice: whoever dies where, however many contend for what they left.
OneDriverUnlessCrossed == ~crossed => OneDriver

\* A driver that measures is the one on record until it lets go, so nobody can
\* take its directory for a dead one's; and a live driver that is on record is
\* one that measures, so no lock is stuck on a process that will not release it.
HolderIsRecorded ==
    ~crossed => \A p \in Drivers :
        pc[p] # "dead" => (pc[p] \in {"heldUnlock", "held", "drop"} <=> lock.meta = p)

\* Whatever the dead left (a lock, half a lock, a reap mutex, both), once its
\* grace has passed one undisturbed acquire is enough to get the lock.
LoneDriverWins == alone # NoOne => pc[alone] \notin {"busy", "failed"}
=============================================================================
