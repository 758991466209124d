--------------------------- MODULE CampaignProofs ---------------------------
(***************************************************************************)
(* Theorems about the two protocols of a timing campaign: TimingLock, for  *)
(* any number of drivers, and Watchdog, for any number of trials, any      *)
(* strangers and any --consecutive-required.                               *)
(***************************************************************************)
EXTENDS TimingLock, Watchdog, TLAPS

-----------------------------------------------------------------------------
(* The timing lock *)

\* The directory is this driver's: from its mkdir to the rmdir that ends its use.
Making == {"write", "rename", "undo", "undoDir", "dropDir"}
Using  == {"heldUnlock", "held", "drop"}
Inside == Making \cup Using
\* With the reap mutex.
Reaping == Judging \cup {"judge", "busyUnlock", "failUnlock", "heldUnlock"}

\* A watchdog releases for dead drivers only.
Dogs == \A p \in Drivers : dog[p] # "asleep" => pc[p] = "dead"

\* One driver at a time is inside, and the directory shows how far it is.
OneInside ==
    /\ \A p, q \in Drivers : pc[p] \in Inside /\ pc[q] \in Inside => p = q
    /\ \A p \in Drivers :
        /\ pc[p] \in Inside => lock.there
        /\ pc[p] \in Making => lock.meta = NoOne /\ ~lock.old
        /\ pc[p] \in {"write", "undoDir", "dropDir"} => lock.tmp = NoOne
        /\ pc[p] = "rename" => lock.tmp = p
        /\ pc[p] \in Using => lock.meta = p

\* Metadata of a live driver are those of the one that uses the lock.
Recorded == \A p \in Drivers : lock.meta = p => pc[p] \in Using \cup {"dead"}

\* What a reclaimer saw is still so, and what it removes is nobody's.
Judged ==
    \A p \in Drivers :
        /\ pc[p] \in {"pid", "started"} => lock.there /\ lock.meta # NoOne
        /\ pc[p] = "started" => lock.meta = suspect[p]
        /\ pc[p] \in {"empty", "rmdir"} =>
              lock.there /\ \A q \in Drivers : pc[q] \notin Inside
        /\ pc[p] = "rmdir" => lock.meta = NoOne /\ lock.tmp = NoOne

\* One reclaimer at a time, and its mutex is young.
OneReaper ==
    /\ \A p, q \in reaping : p = q
    /\ reaping # {} => reap.there /\ ~reap.old
    /\ \A p \in Drivers : pc[p] \in Reaping => p \in reaping

\* The driver that started alone still is, and meets nothing that stops it.
Undisturbed ==
    alone # NoOne =>
        /\ \A q \in Drivers : dog[q] \notin {"empty", "rmdir"}
        /\ \A q \in Drivers \ {alone} : pc[q] \in Idle
        /\ pc[alone] \notin {"new", "busy", "failed", "started", "busyUnlock", "failUnlock", "undo", "undoDir"}
        /\ pc[alone] \in {"look", "age", "clear", "mutex", "judge"} => lock.there /\ Reclaimable
        /\ pc[alone] \in {"look", "age"} => (reap.there => reap.old)
        /\ pc[alone] = "mutex" => ~reap.there
        /\ pc[alone] = "pid" => lock.meta # NoOne /\ Dead(lock.meta)
        /\ pc[alone] = "rmdir" => lock.meta = NoOne /\ lock.tmp = NoOne
        /\ pc[alone] = "mkdir" => ~lock.there
        /\ pc[alone] \in {"write", "rename"} => lock.there
        /\ pc[alone] = "rename" => lock.tmp # NoOne

\* A directory that is not there has no files and no age.
Shape == ~lock.there => lock.meta = NoOne /\ lock.tmp = NoOne /\ ~lock.old

Orderly == OneInside /\ Recorded /\ Judged /\ OneReaper
IInv == TypeOK /\ Dogs /\ Shape /\ Undisturbed /\ (~crossed => Orderly)
-----------------------------------------------------------------------------

Locks == [there : BOOLEAN, meta : Owners \cup {NoOne}, tmp : Drivers \cup {NoOne}, old : BOOLEAN]
Reaps == [there : BOOLEAN, old : BOOLEAN]

\* The directories as they are made.
LEMMA MadeFacts ==
    /\ NoLock \in Locks /\ ~NoLock.there /\ NoLock.meta = NoOne /\ NoLock.tmp = NoOne /\ ~NoLock.old
    /\ Made \in Locks /\ Made.there /\ Made.meta = NoOne /\ Made.tmp = NoOne /\ ~Made.old
    /\ NoReap \in Reaps /\ ~NoReap.there /\ ~NoReap.old
    /\ NewReap \in Reaps /\ NewReap.there /\ ~NewReap.old
<1>1. NoLock \in Locks /\ ~NoLock.there /\ NoLock.meta = NoOne /\ NoLock.tmp = NoOne /\ ~NoLock.old
    BY DEF NoLock, Locks
<1>2. Made \in Locks /\ Made.there /\ Made.meta = NoOne /\ Made.tmp = NoOne /\ ~Made.old
    BY <1>1 DEF Made, Locks
<1>3. NoReap \in Reaps /\ ~NoReap.there /\ ~NoReap.old
    BY DEF NoReap, Reaps
<1>4. NewReap \in Reaps /\ NewReap.there /\ ~NewReap.old
    BY <1>3 DEF NewReap, Reaps
<1> QED
    BY <1>1, <1>2, <1>3, <1>4

\* TypeOK, with names for the sets of the two directories.
LEMMA TypeParts ==
    TypeOK <=> /\ lock \in Locks /\ reap \in Reaps
               /\ pc \in [Drivers -> Labels]
               /\ suspect \in [Drivers -> Drivers \cup {NoOne}]
               /\ reaping \in SUBSET Drivers
               /\ dog \in [Drivers -> {"asleep", "look", "empty", "rmdir", "done"}]
               /\ alone \in Drivers \cup {NoOne}
               /\ crossed \in BOOLEAN
    BY DEF TypeOK, Locks, Reaps

LEMMA Initially == Init => IInv
<1> SUFFICES ASSUME Init PROVE IInv
    OBVIOUS
<1> USE DriversAssumption DEF Init
<1>0. Past \in Owners /\ Past # NoOne
    BY DEF Owners
<1>1. TypeOK
    <2>1. lock \in Locks
        <3>1. [Made EXCEPT !.meta = Past] \in Locks
            BY <1>0, MadeFacts DEF Locks
        <3> QED
            BY <3>1, MadeFacts
    <2>2. reap \in Reaps
        BY MadeFacts
    <2>3. pc \in [Drivers -> Labels]
        BY DEF Labels, Idle
    <2> QED
        BY <2>1, <2>2, <2>3, TypeParts
<1>2. Dogs /\ Undisturbed
    BY DEF Dogs, Undisturbed
<1>6. Shape
    <2>1. lock = NoLock \/ lock.there
        BY MadeFacts DEF Locks
    <2> QED
        BY <2>1, MadeFacts DEF Shape
<1>3. \A p \in Drivers : lock.meta # p
    <2>1. lock.meta \in {NoOne, Past}
        <3>1. [Made EXCEPT !.meta = Past].meta = Past
            BY MadeFacts
        <3> QED
            BY <3>1, MadeFacts
    <2> QED
        BY <2>1
<1>4. OneInside /\ Recorded /\ Judged
    BY <1>3 DEF OneInside, Recorded, Judged, Inside, Making, Using
<1>5. OneReaper
    BY DEF OneReaper, Reaping, Judging
<1> QED
    BY <1>1, <1>2, <1>4, <1>5, <1>6 DEF IInv, Orderly

\* rm -rf, first half: nothing is inside any more.
LEMMA EmptyFacts ==
    ASSUME lock \in Locks, Empty
    PROVE  /\ lock' \in Locks /\ lock'.there = lock.there /\ lock'.meta = NoOne /\ lock'.tmp = NoOne
           /\ lock'.old => lock.old
           /\ lock.old /\ lock.meta = NoOne /\ lock.tmp = NoOne => lock'.old
    BY DEF Locks, Empty

\* Second half: the directory goes if nothing is inside.
LEMMA RmdirFacts ==
    ASSUME lock \in Locks, Rmdir
    PROVE  lock' \in Locks /\ (lock' = NoLock \/ lock' = lock)
           /\ (lock.meta = NoOne /\ lock.tmp = NoOne => lock' = NoLock)
    BY DEF Locks, Rmdir, NoLock

\* A driver goes on to another place.
LEMMA GotoFacts ==
    ASSUME pc \in [Drivers -> Labels], NEW p \in Drivers, NEW l \in Labels, Goto(p, l)
    PROVE  pc' \in [Drivers -> Labels] /\ pc'[p] = l /\ \A q \in Drivers \ {p} : pc'[q] = pc[q]
    BY DEF Goto

\* Every step keeps the types.
LEMMA TypesNext ==
    ASSUME TypeOK, [Next]_vars
    PROVE  TypeOK'
<1> USE DEF hist
<1>0. /\ lock \in Locks /\ reap \in Reaps
      /\ pc \in [Drivers -> Labels]
      /\ suspect \in [Drivers -> Drivers \cup {NoOne}]
      /\ reaping \in SUBSET Drivers
      /\ dog \in [Drivers -> {"asleep", "look", "empty", "rmdir", "done"}]
      /\ alone \in Drivers \cup {NoOne}
      /\ crossed \in BOOLEAN
    BY TypeParts
<1> SUFFICES /\ lock' \in Locks /\ reap' \in Reaps
             /\ pc' \in [Drivers -> Labels]
             /\ suspect' \in [Drivers -> Drivers \cup {NoOne}]
             /\ reaping' \in SUBSET Drivers
             /\ dog' \in [Drivers -> {"asleep", "look", "empty", "rmdir", "done"}]
             /\ alone' \in Drivers \cup {NoOne}
             /\ crossed' \in BOOLEAN
    BY DEF TypeOK, Locks, Reaps
<1>1. CASE AgeLock
    BY <1>0, <1>1 DEF AgeLock, Locks
<1>2. CASE AgeReap
    BY <1>0, <1>2 DEF AgeReap, Reaps
<1>3. CASE \E p \in Drivers : Crash(p)
    BY <1>0, <1>3 DEF Crash, Goto, Labels, Idle
<1>4. ASSUME NEW p \in Drivers, Acquire(p) PROVE pc' \in [Drivers -> Labels]
    BY <1>0, <1>4 DEF Acquire, MkLock, LookAgain, ReadReapAge, ClearReap, MkReap, Judge, ReadPid, ReadStartTime, ReapFiles, ReapDir,
       MkLockAgain, WriteMeta, RenameMeta, MetaFails, UndoFiles, UndoDir, Unlock, AfterUndo, Goto, Labels, Idle, Judging
<1>5. ASSUME NEW p \in Drivers, Acquire(p) PROVE lock' \in Locks
    <2>1. CASE MkLock(p) \/ MkLockAgain(p)
        BY <1>0, <2>1, MadeFacts DEF MkLock, MkLockAgain
    <2>2. CASE ReapFiles(p) \/ UndoFiles(p)
        BY <1>0, <2>2, EmptyFacts DEF ReapFiles, UndoFiles
    <2>3. CASE ReapDir(p) \/ UndoDir(p)
        BY <1>0, <2>3, RmdirFacts DEF ReapDir, UndoDir
    <2>4. CASE WriteMeta(p)
        BY <1>0, <2>4 DEF WriteMeta, Locks
    <2>5. CASE RenameMeta(p)
        BY <1>0, <2>5 DEF RenameMeta, Locks, Owners
    <2> QED
        BY <1>0, <1>5, <2>1, <2>2, <2>3, <2>4, <2>5 DEF Acquire, LookAgain, ReadReapAge, ClearReap, MkReap, Judge, ReadPid, ReadStartTime, MetaFails, Unlock
<1>6. ASSUME NEW p \in Drivers, Acquire(p)
      PROVE  /\ reap' \in Reaps /\ suspect' \in [Drivers -> Drivers \cup {NoOne}]
             /\ reaping' \in SUBSET Drivers /\ dog' = dog
             /\ alone' \in Drivers \cup {NoOne} /\ crossed' \in BOOLEAN
    <2>1. CASE MkLock(p) \/ LookAgain(p) \/ ReadReapAge(p) \/ Judge(p) \/ ReapFiles(p) \/ ReapDir(p) \/ MkLockAgain(p)
        BY <1>0, <2>1 DEF MkLock, LookAgain, ReadReapAge, Judge, ReapFiles, ReapDir, MkLockAgain
    <2>2. CASE ClearReap(p) \/ MkReap(p) \/ Unlock(p)
        BY <1>0, <2>2, MadeFacts DEF ClearReap, MkReap, Unlock
    <2>3. CASE ReadPid(p)
        <3>1. lock.meta = NoOne \/ Dead(lock.meta) \/ lock.meta \in Drivers
            BY <1>0 DEF Locks, Owners, Dead
        <3> QED
            BY <1>0, <2>3, <3>1 DEF ReadPid
    <2>4. CASE ReadStartTime(p) \/ WriteMeta(p) \/ RenameMeta(p) \/ MetaFails(p) \/ UndoFiles(p) \/ UndoDir(p)
        BY <1>0, <2>4 DEF ReadStartTime, WriteMeta, RenameMeta, MetaFails, UndoFiles, UndoDir
    <2> QED
        BY <1>6, <2>1, <2>2, <2>3, <2>4 DEF Acquire
<1>7. CASE \E p \in Drivers : Acquire(p)
    BY <1>0, <1>4, <1>5, <1>6, <1>7
<1>8. CASE \E p \in Drivers : Release(p) \/ DropFiles(p) \/ DropDir(p)
    <2>1. lock' \in Locks
        BY <1>0, <1>8, EmptyFacts, RmdirFacts DEF Release, DropFiles, DropDir
    <2>2. pc' \in [Drivers -> Labels]
        BY <1>0, <1>8 DEF Release, DropFiles, DropDir, Goto, Labels, Idle
    <2> QED
        BY <1>0, <1>8, <2>1, <2>2 DEF Release, DropFiles, DropDir
<1>9. CASE \E p \in Drivers : DogLook(p) \/ DogFiles(p) \/ DogDir(p)
    <2>1. lock' \in Locks
        BY <1>0, <1>9, EmptyFacts, RmdirFacts DEF DogLook, DogFiles, DogDir
    <2> QED
        BY <1>0, <1>9, <2>1 DEF DogLook, DogFiles, DogDir
<1>10. CASE UNCHANGED vars
    BY <1>0, <1>10 DEF vars
<1> QED
    BY <1>1, <1>2, <1>3, <1>7, <1>8, <1>9, <1>10 DEF Next

\* A watchdog goes to work when its driver has died holding, and death is final.
LEMMA DogsNext ==
    ASSUME TypeOK, Dogs, [Next]_vars
    PROVE  Dogs'
<1> USE DEF Dogs
<1>0. pc \in [Drivers -> Labels] /\ dog \in [Drivers -> {"asleep", "look", "empty", "rmdir", "done"}]
    BY TypeParts
<1>1. CASE AgeLock \/ AgeReap \/ UNCHANGED vars
    BY <1>1 DEF AgeLock, AgeReap, vars
<1>2. ASSUME NEW p \in Drivers, Crash(p) PROVE Dogs'
    BY <1>0, <1>2 DEF Crash, Goto
<1>3. ASSUME NEW p \in Drivers, Acquire(p) \/ Release(p) \/ DropFiles(p) \/ DropDir(p) PROVE Dogs'
    <2>1. pc[p] # "dead" /\ dog' = dog /\ \A q \in Drivers \ {p} : pc'[q] = pc[q]
        BY <1>0, <1>3 DEF Acquire, MkLock, LookAgain, ReadReapAge, ClearReap, MkReap, Judge, ReadPid, ReadStartTime, ReapFiles, ReapDir,
           MkLockAgain, WriteMeta, RenameMeta, MetaFails, UndoFiles, UndoDir, Unlock, Release, DropFiles, DropDir, Goto
    <2> QED
        BY <2>1
<1>4. ASSUME NEW p \in Drivers, DogLook(p) \/ DogFiles(p) \/ DogDir(p) PROVE Dogs'
    BY <1>0, <1>4 DEF DogLook, DogFiles, DogDir
<1> QED
    BY <1>1, <1>2, <1>3, <1>4 DEF Next

\* Files are put only into a directory that is there, and go before it does.
LEMMA ShapeNext ==
    ASSUME TypeOK, Shape, [Next]_vars
    PROVE  Shape'
<1> USE DEF Shape
<1>0. lock \in Locks
    BY TypeParts
<1>1. ASSUME Empty PROVE Shape'
    BY <1>0, <1>1, EmptyFacts
<1>2. ASSUME Rmdir PROVE Shape'
    BY <1>0, <1>2, RmdirFacts, MadeFacts
<1>3. ASSUME UNCHANGED lock PROVE Shape'
    BY <1>3
<1>4. ASSUME lock' = Made PROVE Shape'
    BY <1>4, MadeFacts
<1>5. CASE AgeLock
    BY <1>0, <1>5 DEF AgeLock, Locks
<1>6. ASSUME NEW p \in Drivers, WriteMeta(p) PROVE Shape'
    BY <1>0, <1>6 DEF WriteMeta, Locks
<1>7. ASSUME NEW p \in Drivers, RenameMeta(p) PROVE Shape'
    BY <1>0, <1>7 DEF RenameMeta, Locks
<1>8. ASSUME NEW p \in Drivers, Acquire(p) PROVE Shape'
    BY <1>1, <1>2, <1>3, <1>4, <1>6, <1>7, <1>8 DEF Acquire, MkLock, LookAgain, ReadReapAge, ClearReap, MkReap, Judge, ReadPid,
       ReadStartTime, ReapFiles, ReapDir, MkLockAgain, MetaFails, UndoFiles, UndoDir, Unlock
<1>9. ASSUME NEW p \in Drivers,
             Crash(p) \/ Release(p) \/ DropFiles(p) \/ DropDir(p) \/ DogLook(p) \/ DogFiles(p) \/ DogDir(p)
      PROVE Shape'
    BY <1>1, <1>2, <1>3, <1>9 DEF Crash, Release, DropFiles, DropDir, DogLook, DogFiles, DogDir
<1> QED
    BY <1>3, <1>5, <1>8, <1>9 DEF Next, AgeReap, vars

\* Nobody but the driver on its own makes a step that could stop it, and what it
\* finds at each place is what it left there or what it could reclaim at the start.
LEMMA UndisturbedNext ==
    ASSUME TypeOK, Shape, Undisturbed, [Next]_vars
    PROVE  Undisturbed'
<1> USE DriversAssumption DEF hist
<1>0. /\ lock \in Locks /\ reap \in Reaps /\ pc \in [Drivers -> Labels]
      /\ dog \in [Drivers -> {"asleep", "look", "empty", "rmdir", "done"}]
      /\ alone \in Drivers \cup {NoOne} /\ reaping \in SUBSET Drivers
    BY TypeParts
<1>1. ASSUME NEW p \in Drivers, MkLock(p) PROVE Undisturbed'
    <2> SUFFICES ASSUME alone' = p PROVE Undisturbed'
        BY <1>1 DEF MkLock, Undisturbed
    <2>1. /\ \A q \in Drivers \ {p} : pc[q] \in Idle /\ pc'[q] = pc[q]
          /\ \A q \in Drivers : dog'[q] = dog[q] /\ dog[q] \notin {"empty", "rmdir"}
          /\ Reclaimable /\ (reap.there => reap.old) /\ reap' = reap /\ pc[p] = "new"
        BY <1>0, <1>1 DEF MkLock, OthersActive, WatchdogsRelease, Goto
    <2>2. CASE lock.there
        <3>1. lock' = lock /\ pc'[p] = "look"
            BY <1>0, <1>1, <2>2 DEF MkLock, Goto
        <3>2. Reclaimable'
            BY <1>0, <2>1, <3>1 DEF Reclaimable, Dead
        <3> QED
            BY <2>1, <2>2, <3>1, <3>2 DEF Undisturbed
    <2>3. CASE ~lock.there
        <3>1. lock' = Made /\ pc'[p] = "write"
            BY <1>0, <1>1, <2>3 DEF MkLock, Goto
        <3> QED
            BY <2>1, <3>1, MadeFacts DEF Undisturbed
    <2> QED
        BY <2>2, <2>3
<1>2. ASSUME NEW p \in Drivers, DogLook(p) \/ DogFiles(p) \/ DogDir(p) PROVE Undisturbed'
    BY <1>0, <1>2 DEF DogLook, DogFiles, DogDir, Undisturbed
<1>3. ASSUME UNCHANGED <<pc, dog, alone>>, AgeLock \/ AgeReap \/ UNCHANGED <<lock, reap>> PROVE Undisturbed'
    <2>1. \A o : Dead(o)' <=> Dead(o)
        BY <1>3 DEF Dead
    <2>2. lock'.there = lock.there /\ lock'.meta = lock.meta /\ lock'.tmp = lock.tmp /\ (lock.old => lock'.old)
        BY <1>0, <1>3 DEF AgeLock, AgeReap, Locks
    <2>3. reap'.there = reap.there /\ (reap.old => reap'.old)
        BY <1>0, <1>3 DEF AgeLock, AgeReap, Reaps
    <2>4. Reclaimable => Reclaimable'
        BY <2>1, <2>2 DEF Reclaimable
    <2> QED
        BY <1>3, <2>1, <2>2, <2>3, <2>4 DEF Undisturbed
\* Every other step is the lone driver's own.
<1>4. ASSUME NEW p \in Drivers, pc[p] \notin Idle, alone # NoOne PROVE p = alone
    BY <1>0, <1>4 DEF Undisturbed
<1>5. ASSUME NEW p \in Drivers, Crash(p) PROVE Undisturbed'
    <2> SUFFICES ASSUME alone # NoOne PROVE Undisturbed'
        BY <1>5 DEF Crash, Undisturbed
    <2>1. p = alone
        BY <1>4, <1>5 DEF Crash
    <2>2. alone' = p /\ pc'[p] = "dead" /\ \A q \in Drivers \ {p} : pc'[q] = pc[q]
        BY <1>0, <1>5, <2>1 DEF Crash, Goto
    <2>3. \A q \in Drivers : dog'[q] \notin {"empty", "rmdir"}
        BY <1>0, <1>5 DEF Crash, Undisturbed
    <2> QED
        BY <2>1, <2>2, <2>3 DEF Undisturbed
<1>6. ASSUME NEW p \in Drivers, (Acquire(p) /\ ~MkLock(p)) \/ Release(p) \/ DropFiles(p) \/ DropDir(p) PROVE Undisturbed'
    <2> SUFFICES ASSUME alone' # NoOne PROVE Undisturbed'
        BY DEF Undisturbed
    <2>1. pc[p] \notin Idle /\ dog' = dog /\ alone' = alone
        BY <1>6 DEF Acquire, LookAgain, ReadReapAge, ClearReap, MkReap, Judge, ReadPid, ReadStartTime, ReapFiles, ReapDir,
           MkLockAgain, WriteMeta, RenameMeta, MetaFails, UndoFiles, UndoDir, Unlock, Release, DropFiles, DropDir, Idle
    <2>2. p = alone
        BY <1>4, <2>1
    <2>3. \A q \in Drivers \ {p} : pc'[q] = pc[q]
        BY <1>0, <1>6 DEF Acquire, LookAgain, ReadReapAge, ClearReap, MkReap, Judge, ReadPid, ReadStartTime, ReapFiles, ReapDir,
           MkLockAgain, WriteMeta, RenameMeta, MetaFails, UndoFiles, UndoDir, Unlock, Release, DropFiles, DropDir, Goto
    <2>4. /\ \A q \in Drivers : dog'[q] \notin {"empty", "rmdir"}
          /\ \A q \in Drivers \ {p} : pc'[q] \in Idle
        BY <2>1, <2>2, <2>3 DEF Undisturbed
    <2>5. ASSUME pc'[p] \notin {"new", "busy", "failed", "started", "busyUnlock", "failUnlock", "undo", "undoDir"},
                 pc'[p] \in {"look", "age", "clear", "mutex", "judge"} => lock'.there /\ Reclaimable',
                 pc'[p] \in {"look", "age"} => (reap'.there => reap'.old),
                 pc'[p] = "mutex" => ~reap'.there,
                 pc'[p] = "pid" => lock'.meta # NoOne /\ Dead(lock.meta)',
                 pc'[p] = "rmdir" => lock'.meta = NoOne /\ lock'.tmp = NoOne,
                 pc'[p] = "mkdir" => ~lock'.there,
                 pc'[p] \in {"write", "rename"} => lock'.there,
                 pc'[p] = "rename" => lock'.tmp # NoOne
          PROVE  Undisturbed'
        BY <2>1, <2>2, <2>4, <2>5 DEF Undisturbed
    <2>6. ASSUME NEW o, Dead(o), pc[p] # "dead" PROVE Dead(o)'
        BY <1>0, <2>3, <2>6 DEF Dead
    <2>7. ASSUME lock' = lock, Reclaimable, pc[p] # "dead" PROVE Reclaimable'
        BY <2>6, <2>7 DEF Reclaimable
    <2>8. CASE LookAgain(p) \/ ReadReapAge(p) \/ ClearReap(p) \/ MkReap(p)
        <3>1. lock' = lock /\ pc[p] \in {"look", "age", "clear", "mutex"} /\ Reclaimable' /\ lock.there
            BY <2>2, <2>7, <2>8, <2>1 DEF LookAgain, ReadReapAge, ClearReap, MkReap, Undisturbed
        <3>2. /\ pc'[p] \in {"age", "clear", "mutex", "judge"}
              /\ pc'[p] = "age" => (reap'.there => reap'.old)
              /\ pc'[p] = "mutex" => ~reap'.there
            BY <1>0, <2>2, <2>8, <2>1, MadeFacts DEF LookAgain, ReadReapAge, ClearReap, MkReap, Goto, Undisturbed
        <3> QED
            BY <2>5, <3>1, <3>2
    <2>9. CASE Judge(p)
        <3>1. lock' = lock /\ pc[p] = "judge" /\ lock.there /\ Reclaimable
            BY <2>1, <2>2, <2>9 DEF Judge, Undisturbed
        <3>2. CASE lock.meta # NoOne
            <4>1. pc'[p] = "pid" /\ Dead(lock.meta)'
                BY <1>0, <2>6, <2>9, <3>1, <3>2 DEF Judge, Goto, Reclaimable
            <4> QED
                BY <2>5, <3>1, <3>2, <4>1
        <3>3. CASE lock.meta = NoOne
            <4>1. pc'[p] = "empty"
                BY <1>0, <2>9, <3>1, <3>3 DEF Judge, Goto, Reclaimable
            <4> QED
                BY <2>5, <3>1, <4>1
        <3> QED
            BY <3>2, <3>3
    <2>10. CASE ReadPid(p) \/ ReadStartTime(p)
        <3>1. pc'[p] = "empty"
            BY <1>0, <2>1, <2>2, <2>10 DEF ReadPid, ReadStartTime, Goto, Undisturbed
        <3> QED
            BY <2>5, <3>1
    <2>11. CASE ReapFiles(p)
        <3>1. /\ pc'[p] = "rmdir" \/ (pc'[p] = "mkdir" /\ ~lock'.there)
              /\ lock'.meta = NoOne /\ lock'.tmp = NoOne
            BY <1>0, <2>11, EmptyFacts DEF ReapFiles, Goto
        <3> QED
            BY <2>5, <3>1
    <2>12. CASE ReapDir(p)
        <3>1. pc'[p] = "mkdir" /\ ~lock'.there
            BY <1>0, <2>1, <2>2, <2>12, RmdirFacts, MadeFacts DEF ReapDir, Goto, Undisturbed
        <3> QED
            BY <2>5, <3>1
    <2>13. CASE MkLockAgain(p)
        <3>1. pc'[p] = "write" /\ lock'.there
            BY <1>0, <2>1, <2>2, <2>13, MadeFacts DEF MkLockAgain, Goto, Undisturbed
        <3> QED
            BY <2>5, <3>1
    <2>14. CASE WriteMeta(p)
        <3>1. pc'[p] = "rename" /\ lock'.there /\ lock'.tmp = p
            BY <1>0, <2>1, <2>2, <2>14 DEF WriteMeta, Goto, Undisturbed, Locks
        <3> QED
            BY <2>5, <3>1
    <2>15. CASE RenameMeta(p) \/ Unlock(p) \/ Release(p) \/ DropFiles(p) \/ DropDir(p)
        <3>1. pc'[p] \in {"heldUnlock", "held", "drop", "dropDir", "released"}
            BY <1>0, <2>1, <2>2, <2>15 DEF RenameMeta, Unlock, Release, DropFiles, DropDir, Goto, Undisturbed
        <3> QED
            BY <2>5, <3>1
    <2>16. CASE MetaFails(p) \/ UndoFiles(p) \/ UndoDir(p)
        BY <2>1, <2>2, <2>16 DEF MetaFails, UndoFiles, UndoDir, Undisturbed
    <2> QED
        BY <1>6, <2>8, <2>9, <2>10, <2>11, <2>12, <2>13, <2>14, <2>15, <2>16 DEF Acquire
<1>7. CASE AgeLock \/ AgeReap \/ UNCHANGED vars
    BY <1>3, <1>7 DEF AgeLock, AgeReap, vars
<1> QED
    BY <1>1, <1>2, <1>5, <1>6, <1>7 DEF Next, Acquire

\* A directory with the metadata of a dead driver, or old and without metadata, is
\* nobody's.
LEMMA Vacant ==
    ASSUME TypeOK, OneInside,
           lock.there => (Dead(lock.meta) \/ (lock.old /\ lock.meta = NoOne))
    PROVE  \A q \in Drivers : pc[q] \notin Inside
<1> USE DriversAssumption
<1>1. ASSUME NEW q \in Drivers, pc[q] \in Inside PROVE FALSE
    <2>1. lock.there
        BY <1>1 DEF OneInside
    <2>2. CASE pc[q] \in Making
        BY <2>1, <2>2 DEF OneInside, Dead
    <2>3. CASE pc[q] \in Using
        BY <2>1, <2>3 DEF OneInside, Dead, Using
    <2> QED
        BY <1>1, <2>2, <2>3 DEF Inside
<1> QED
    BY <1>1

\* A step of a driver outside that touches no file, to a place outside where what
\* it saw of the lock is so.
LEMMA Outside ==
    ASSUME TypeOK, Orderly, NEW p \in Drivers, NEW l \in Labels, Goto(p, l), lock' = lock,
           \A q \in Drivers \ {p} : suspect'[q] = suspect[q],
           pc[p] \notin Inside \cup {"dead"}, l \notin Inside \cup {"rmdir"},
           l \in {"pid", "started"} => lock.there /\ lock.meta # NoOne,
           l = "started" => lock.meta = suspect'[p],
           l = "empty" => lock.there /\ \A q \in Drivers : pc[q] \notin Inside
    PROVE  OneInside' /\ Recorded' /\ Judged'
<1>0. pc'[p] = l /\ \A q \in Drivers \ {p} : pc'[q] = pc[q]
    BY TypeParts, GotoFacts
<1>1. OneInside'
    BY <1>0 DEF Orderly, OneInside, Inside, Making, Using
<1>2. Recorded'
    BY <1>0 DEF Orderly, Recorded, Inside
<1>3. Judged'
    BY <1>0 DEF Orderly, Judged
<1> QED
    BY <1>1, <1>2, <1>3

\* As long as no removal crosses a judgement, every step keeps the drivers and the
\* reclaimers in order: time, death and the watchdog.
LEMMA OrderlyOthers ==
    ASSUME TypeOK, Dogs, Shape, Orderly, ~crossed',
           \/ AgeLock \/ AgeReap \/ UNCHANGED vars
           \/ \E p \in Drivers : Crash(p) \/ DogLook(p) \/ DogFiles(p) \/ DogDir(p)
    PROVE  Orderly'
<1> USE DriversAssumption DEF hist
<1>0. /\ lock \in Locks /\ reap \in Reaps /\ pc \in [Drivers -> Labels]
      /\ reaping \in SUBSET Drivers
      /\ dog \in [Drivers -> {"asleep", "look", "empty", "rmdir", "done"}]
    BY TypeParts
<1>1. CASE AgeLock
    <2>1. /\ lock'.there = lock.there /\ lock'.meta = lock.meta /\ lock'.tmp = lock.tmp
          /\ UNCHANGED <<pc, reap, reaping, suspect>> /\ \A q \in Drivers : pc[q] \notin Making
        BY <1>0, <1>1 DEF AgeLock, Locks, Making
    <2>2. OneInside' /\ Recorded'
        BY <2>1 DEF Orderly, OneInside, Recorded
    <2>3. Judged' /\ OneReaper'
        BY <2>1 DEF Orderly, Judged, OneReaper
    <2> QED
        BY <2>2, <2>3 DEF Orderly
<1>2. CASE AgeReap
    <2>1. UNCHANGED <<lock, pc, suspect, reaping>> /\ reaping = {}
        BY <1>2 DEF AgeReap
    <2>2. OneInside' /\ Recorded' /\ Judged'
        BY <2>1 DEF Orderly, OneInside, Recorded, Judged
    <2>3. OneReaper'
        BY <2>1 DEF Orderly, OneReaper
    <2> QED
        BY <2>2, <2>3 DEF Orderly
<1>3. ASSUME NEW p \in Drivers, Crash(p) PROVE Orderly'
    <2>1. /\ pc'[p] = "dead" /\ \A q \in Drivers \ {p} : pc'[q] = pc[q] /\ suspect'[q] = suspect[q]
          /\ UNCHANGED <<lock, reap>> /\ reaping' = reaping \ {p}
        <3>1. suspect \in [Drivers -> Drivers \cup {NoOne}]
            BY TypeParts
        <3> QED
            BY <1>0, <1>3, <3>1 DEF Crash, Goto
    <2>2. OneInside' /\ Recorded'
        BY <2>1 DEF Orderly, OneInside, Recorded, Inside, Making, Using
    <2>3. Judged'
        BY <2>1 DEF Orderly, Judged, Inside, Making, Using
    <2>4. OneReaper'
        BY <2>1 DEF Orderly, OneReaper, Reaping, Judging
    <2> QED
        BY <2>2, <2>3, <2>4 DEF Orderly
<1>4. ASSUME NEW p \in Drivers, DogLook(p) PROVE Orderly'
    BY <1>4 DEF DogLook, Orderly, OneInside, Recorded, Judged, OneReaper
\* The watchdog removes when all other drivers are idle, and its own is dead.
<1>5. ASSUME NEW p \in Drivers, DogFiles(p) \/ DogDir(p) PROVE Orderly'
    <2>1. \A q \in Drivers : pc[q] \in Idle
        <3>1. pc[p] = "dead"
            BY <1>5 DEF DogFiles, DogDir, Dogs
        <3>2. ~OthersActive(p)
            BY <1>5 DEF DogFiles, DogDir
        <3> QED
            BY <3>1, <3>2 DEF OthersActive, Idle
    <2>2. UNCHANGED <<pc, reap, reaping, suspect>>
        BY <1>5 DEF DogFiles, DogDir
    <2>3. lock'.meta = lock.meta \/ lock'.meta = NoOne
        BY <1>0, <1>5, EmptyFacts, RmdirFacts, MadeFacts DEF DogFiles, DogDir
    <2>4. OneInside' /\ Judged'
        BY <2>1, <2>2 DEF OneInside, Judged, Inside, Making, Using, Idle
    <2>5. Recorded'
        BY <2>2, <2>3 DEF Orderly, Recorded
    <2>6. OneReaper'
        BY <2>2 DEF Orderly, OneReaper
    <2> QED
        BY <2>4, <2>5, <2>6 DEF Orderly
<1>6. CASE UNCHANGED vars
    BY <1>6 DEF vars, Orderly, OneInside, Recorded, Judged, OneReaper
<1> QED
    BY <1>1, <1>2, <1>3, <1>4, <1>5, <1>6

\* The reclaimers' side of a step: those with the mutex, and where they are.
LEMMA OneReaperNext ==
    ASSUME TypeOK, OneReaper, ~crossed', NEW p \in Drivers,
           Acquire(p) \/ Release(p) \/ DropFiles(p) \/ DropDir(p)
    PROVE  OneReaper'
<1> USE DEF hist
<1>0. /\ reap \in Reaps /\ pc \in [Drivers -> Labels] /\ reaping \in SUBSET Drivers
    BY TypeParts
<1>1. CASE ClearReap(p)
    <2>1. reaping = {}
        BY <1>0, <1>1 DEF ClearReap, OneReaper
    <2>2. reaping' = {} /\ pc'[p] = "mutex" /\ \A q \in Drivers \ {p} : pc'[q] = pc[q]
        BY <1>0, <1>1, <2>1 DEF ClearReap, Goto
    <2> QED
        BY <2>1, <2>2 DEF OneReaper, Reaping, Judging
<1>2. CASE MkReap(p)
    <2>0. \A q \in Drivers \ {p} : pc'[q] = pc[q]
        BY <1>0, <1>2 DEF MkReap, Goto
    <2>1. CASE reap.there
        <3>1. pc'[p] = "busy" /\ reap' = reap /\ reaping' = reaping
            BY <1>0, <1>2, <2>1 DEF MkReap, Goto
        <3> QED
            BY <2>0, <3>1 DEF OneReaper, Reaping, Judging
    <2>2. CASE ~reap.there
        <3>1. reaping' = {p} /\ reap'.there /\ ~reap'.old
            BY <1>0, <1>2, <2>2, MadeFacts DEF MkReap, OneReaper
        <3> QED
            BY <2>0, <2>2, <3>1 DEF OneReaper
    <2> QED
        BY <2>1, <2>2
<1>3. CASE Unlock(p)
    <2>1. /\ pc'[p] \in {"busy", "failed", "held"} /\ reaping' = reaping \ {p}
          /\ \A q \in Drivers \ {p} : pc'[q] = pc[q]
        BY <1>0, <1>3 DEF Unlock, Goto
    <2>2. p \in reaping
        BY <1>3 DEF Unlock, OneReaper, Reaping
    <2>3. reaping' = {}
        BY <2>1, <2>2 DEF OneReaper
    <2>4. \A q \in Drivers \ {p} : pc[q] \notin Reaping
        BY <2>2 DEF OneReaper
    <2> QED
        BY <2>1, <2>3, <2>4 DEF OneReaper, Reaping, Judging
<1>4. CASE ~ClearReap(p) /\ ~MkReap(p) /\ ~Unlock(p)
    <2>1. reap' = reap /\ reaping' = reaping /\ \A q \in Drivers \ {p} : pc'[q] = pc[q]
        BY <1>0, <1>4 DEF Acquire, MkLock, LookAgain, ReadReapAge, Judge, ReadPid, ReadStartTime, ReapFiles, ReapDir,
           MkLockAgain, WriteMeta, RenameMeta, MetaFails, UndoFiles, UndoDir, Release, DropFiles, DropDir, Goto
    <2>2. pc'[p] \in Reaping => p \in reaping
        <3>1. CASE MkLock(p) \/ LookAgain(p) \/ ReadReapAge(p) \/ WriteMeta(p) \/ MetaFails(p) \/ Release(p) \/ DropFiles(p) \/ DropDir(p)
            BY <1>0, <3>1 DEF MkLock, LookAgain, ReadReapAge, WriteMeta, MetaFails, Release, DropFiles, DropDir, Goto, Reaping, Judging
        <3>2. CASE Judge(p) \/ ReadPid(p) \/ ReadStartTime(p) \/ ReapFiles(p) \/ ReapDir(p) \/ MkLockAgain(p)
            BY <1>0, <3>2 DEF Judge, ReadPid, ReadStartTime, ReapFiles, ReapDir, MkLockAgain, OneReaper, Reaping, Judging
        <3>3. CASE RenameMeta(p) \/ UndoFiles(p) \/ UndoDir(p)
            BY <1>0, <3>3 DEF RenameMeta, UndoFiles, UndoDir, AfterUndo, Goto, Reaping, Judging
        <3> QED
            BY <1>4, <3>1, <3>2, <3>3 DEF Acquire
    <2> QED
        BY <2>1, <2>2 DEF OneReaper
<1> QED
    BY <1>1, <1>2, <1>3, <1>4

\* The same, for the directory: a driver's own steps.  Those outside come under
\* Outside; in the others the driver is alone inside, or removes what is nobody's.
LEMMA OrderlyOwn ==
    ASSUME TypeOK, Shape, Orderly, ~crossed', NEW p \in Drivers,
           Acquire(p) \/ Release(p) \/ DropFiles(p) \/ DropDir(p)
    PROVE  OneInside' /\ Recorded' /\ Judged'
<1> USE DriversAssumption DEF hist
<1>0. /\ lock \in Locks /\ pc \in [Drivers -> Labels] /\ reaping \in SUBSET Drivers
      /\ suspect \in [Drivers -> Drivers \cup {NoOne}]
    BY TypeParts
<1>a. /\ OneInside /\ Recorded /\ Judged /\ OneReaper
      /\ p # NoOne /\ p # Past
    BY DEF Orderly
<1>b. \A q \in Drivers \ {p} : pc'[q] = pc[q] /\ suspect'[q] = suspect[q]
    BY <1>0 DEF Acquire, MkLock, LookAgain, ReadReapAge, ClearReap, MkReap, Judge, ReadPid, ReadStartTime, ReapFiles, ReapDir,
       MkLockAgain, WriteMeta, RenameMeta, MetaFails, UndoFiles, UndoDir, Unlock, Release, DropFiles, DropDir, Goto
<1>1. CASE (MkLock(p) /\ lock.there) \/ LookAgain(p) \/ ReadReapAge(p) \/ ClearReap(p) \/ MkReap(p)
           \/ (MkLockAgain(p) /\ lock.there) \/ (Unlock(p) /\ pc[p] # "heldUnlock")
    <2>1. /\ lock' = lock /\ pc[p] \notin Inside \cup {"dead"}
          /\ \E l \in {"look", "age", "failed", "clear", "mutex", "busy", "judge", "busyUnlock"} : Goto(p, l)
        BY <1>0, <1>1 DEF MkLock, LookAgain, ReadReapAge, ClearReap, MkReap, MkLockAgain, Unlock, Inside, Making, Using
    <2>2. PICK l \in {"look", "age", "failed", "clear", "mutex", "busy", "judge", "busyUnlock"} : Goto(p, l)
        BY <2>1
    <2>3. l \in Labels /\ l \notin Inside \cup {"rmdir", "pid", "started", "empty"}
        BY <2>2 DEF Labels, Idle, Judging, Inside, Making, Using
    <2> QED
        BY <1>b, <2>1, <2>2, <2>3, Outside
<1>2. CASE Judge(p)
    <2>1. lock' = lock /\ pc[p] \notin Inside \cup {"dead"} /\ suspect' = suspect
        BY <1>2 DEF Judge, Inside, Making, Using
    <2>2. CASE lock.meta # NoOne
        <3>1. Goto(p, "pid") /\ lock.there
            BY <1>2, <2>2 DEF Judge, Shape
        <3>2. "pid" \in Labels /\ "pid" \notin Inside \cup {"rmdir"}
            BY DEF Labels, Judging, Inside, Making, Using
        <3> QED
            BY <1>b, <2>1, <2>2, <3>1, <3>2, Outside
    <2>3. CASE lock.meta = NoOne /\ lock.old
        <3>1. Goto(p, "empty") /\ lock.there
            BY <1>2, <2>3 DEF Judge, Shape
        <3>2. "empty" \in Labels /\ "empty" \notin Inside \cup {"rmdir"}
            BY DEF Labels, Judging, Inside, Making, Using
        <3>3. \A q \in Drivers : pc[q] \notin Inside
            BY <1>a, <2>3, Vacant
        <3> QED
            BY <1>b, <2>1, <3>1, <3>2, <3>3, Outside
    <2>4. CASE lock.meta = NoOne /\ ~lock.old
        <3>1. Goto(p, "busyUnlock")
            BY <1>2, <2>4 DEF Judge
        <3>2. "busyUnlock" \in Labels /\ "busyUnlock" \notin Inside \cup {"rmdir"}
            BY DEF Labels, Inside, Making, Using
        <3> QED
            BY <1>b, <2>1, <3>1, <3>2, Outside
    <2> QED
        BY <2>2, <2>3, <2>4
<1>3. CASE ReadPid(p) \/ ReadStartTime(p)
    <2>1. lock' = lock /\ pc[p] \notin Inside \cup {"dead"} /\ lock.there /\ lock.meta # NoOne
        BY <1>3, <1>a DEF ReadPid, ReadStartTime, Judged, Inside, Making, Using
    <2>2. CASE Dead(lock.meta)
        <3>1. Goto(p, "empty")
            BY <1>3, <1>a, <2>1, <2>2 DEF ReadPid, ReadStartTime, Judged
        <3>2. "empty" \in Labels /\ "empty" \notin Inside \cup {"rmdir"}
            BY DEF Labels, Judging, Inside, Making, Using
        <3>3. \A q \in Drivers : pc[q] \notin Inside
            BY <1>a, <2>2, Vacant
        <3> QED
            BY <1>b, <2>1, <3>1, <3>2, <3>3, Outside
    <2>3. CASE ReadPid(p) /\ ~Dead(lock.meta)
        <3>1. Goto(p, "started") /\ suspect'[p] = lock.meta
            BY <1>0, <2>1, <2>3 DEF ReadPid, Locks, Owners
        <3>2. "started" \in Labels /\ "started" \notin Inside \cup {"rmdir"}
            BY DEF Labels, Judging, Inside, Making, Using
        <3> QED
            BY <1>b, <2>1, <3>1, <3>2, Outside
    <2>4. CASE ReadStartTime(p) /\ ~Dead(lock.meta)
        <3>1. Goto(p, "busyUnlock")
            BY <1>a, <2>1, <2>4 DEF ReadStartTime, Judged
        <3>2. "busyUnlock" \in Labels /\ "busyUnlock" \notin Inside \cup {"rmdir"}
            BY DEF Labels, Inside, Making, Using
        <3> QED
            BY <1>b, <2>1, <3>1, <3>2, Outside
    <2> QED
        BY <1>3, <2>2, <2>3, <2>4
<1>4. CASE ReapFiles(p) \/ ReapDir(p)
    <2>1. lock.there /\ \A q \in Drivers : pc[q] \notin Inside
        BY <1>4, <1>a DEF ReapFiles, ReapDir, Judged
    <2>2. \A q \in Drivers \ {p} : pc[q] \notin Judging
        BY <1>4, <1>a DEF ReapFiles, ReapDir, OneReaper, Reaping, Judging
    <2>3. CASE ReapFiles(p)
        <3>1. pc'[p] = "rmdir" /\ lock'.there /\ lock'.meta = NoOne /\ lock'.tmp = NoOne
            BY <1>0, <2>1, <2>3, EmptyFacts DEF ReapFiles, Goto
        <3> QED
            BY <1>b, <1>a, <2>1, <2>2, <3>1 DEF OneInside, Recorded, Judged, Inside, Making, Using, Judging
    <2>4. CASE ReapDir(p)
        <3>1. pc'[p] = "mkdir" /\ lock'.meta = NoOne
            BY <1>0, <1>a, <2>4, RmdirFacts, MadeFacts DEF ReapDir, Goto, Judged
        <3> QED
            BY <1>b, <1>a, <2>1, <2>2, <3>1 DEF OneInside, Recorded, Judged, Inside, Making, Using, Judging
    <2> QED
        BY <1>4, <2>3, <2>4
<1>5. CASE (MkLock(p) \/ MkLockAgain(p)) /\ ~lock.there
    <2>1. pc'[p] = "write" /\ lock' = Made
        BY <1>0, <1>5 DEF MkLock, MkLockAgain, Goto
    <2>2. \A q \in Drivers : pc[q] \notin Inside \cup {"pid", "started", "empty", "rmdir"}
        BY <1>5, <1>a DEF OneInside, Judged
    <2>3. OneInside' /\ Recorded'
        BY <1>b, <1>a, <2>1, <2>2, MadeFacts DEF OneInside, Recorded, Inside, Making, Using
    <2>4. Judged'
        BY <1>b, <2>1, <2>2 DEF Judged
    <2> QED
        BY <2>3, <2>4
\* From here on the driver is inside: no other is, and none has judged the lock free.
<1>6. ASSUME pc[p] \in Inside
      PROVE  \A q \in Drivers \ {p} : pc[q] \notin Inside \cup {"empty", "rmdir"}
    BY <1>6, <1>a DEF OneInside, Judged
<1>7. ASSUME pc[p] \in Making
      PROVE  \A q \in Drivers : pc[q] \notin {"pid", "started"}
    BY <1>7, <1>a DEF OneInside, Judged, Inside
<1>8. CASE WriteMeta(p) \/ MetaFails(p)
    <2>1. /\ pc[p] \in Making /\ pc[p] \in Inside /\ lock.there /\ lock.meta = NoOne /\ ~lock.old
          /\ pc'[p] \in {"rename", "undo"}
        BY <1>0, <1>a, <1>8 DEF WriteMeta, MetaFails, Goto, OneInside, Inside, Making
    <2>2. /\ lock'.there /\ lock'.meta = NoOne /\ ~lock'.old
          /\ pc'[p] = "rename" => lock'.tmp = p
        BY <1>0, <1>8, <2>1 DEF WriteMeta, MetaFails, Goto, Locks
    <2>3. OneInside' /\ Recorded'
        BY <1>b, <1>a, <1>6, <2>1, <2>2 DEF OneInside, Recorded, Inside, Making, Using
    <2>4. Judged'
        BY <1>b, <1>6, <1>7, <2>1, <2>2 DEF Judged
    <2> QED
        BY <2>3, <2>4
<1>9. CASE RenameMeta(p)
    <2>1. pc[p] \in Making /\ pc[p] \in Inside /\ lock.there /\ lock.tmp = p
        BY <1>a, <1>9 DEF RenameMeta, OneInside, Inside, Making
    <2>2. pc'[p] \in {"heldUnlock", "held"} /\ lock'.there /\ lock'.meta = p
        BY <1>0, <1>a, <1>9, <2>1 DEF RenameMeta, Goto, Locks
    <2>3. OneInside' /\ Recorded'
        BY <1>b, <1>a, <1>6, <2>1, <2>2 DEF OneInside, Recorded, Inside, Making, Using
    <2>4. Judged'
        BY <1>b, <1>6, <1>7, <2>1, <2>2 DEF Judged
    <2> QED
        BY <2>3, <2>4
<1>10. CASE UndoFiles(p) \/ DropFiles(p)
    <2>1. /\ pc[p] \in Inside /\ lock.there /\ \A q \in Drivers \ {p} : pc[q] \notin Judging
        BY <1>a, <1>10 DEF UndoFiles, DropFiles, OneInside, Inside, Making, Using, OthersJudging
    <2>2. /\ pc'[p] \in {"undoDir", "dropDir"} /\ lock'.there /\ lock'.meta = NoOne /\ lock'.tmp = NoOne
        BY <1>0, <1>10, <2>1, EmptyFacts DEF UndoFiles, DropFiles, Goto
    <2>3. ~lock'.old
        BY <1>0, <1>a, <1>10, EmptyFacts DEF UndoFiles, DropFiles, Empty, OneInside, Making, Using, Locks
    <2>4. OneInside' /\ Recorded'
        BY <1>b, <1>a, <1>6, <2>1, <2>2, <2>3 DEF OneInside, Recorded, Inside, Making, Using
    <2>5. Judged'
        BY <1>b, <2>1, <2>2 DEF Judged, Judging
    <2> QED
        BY <2>4, <2>5
<1>11. CASE UndoDir(p) \/ DropDir(p)
    <2>1. /\ pc[p] \in Inside /\ \A q \in Drivers \ {p} : pc[q] \notin Judging
        BY <1>11 DEF UndoDir, DropDir, Inside, Making, OthersJudging
    <2>2. pc'[p] \in {"failUnlock", "failed", "released"} /\ lock'.meta = NoOne
        BY <1>0, <1>a, <1>11, RmdirFacts, MadeFacts DEF UndoDir, DropDir, AfterUndo, Goto, OneInside, Making
    <2>3. OneInside' /\ Recorded'
        BY <1>b, <1>a, <1>6, <2>1, <2>2 DEF OneInside, Recorded, Inside, Making, Using
    <2>4. Judged'
        BY <1>b, <2>1, <2>2 DEF Judged, Judging
    <2> QED
        BY <2>3, <2>4
<1>12. CASE (Unlock(p) /\ pc[p] = "heldUnlock") \/ Release(p)
    <2>1. /\ pc[p] \in Inside /\ lock.there /\ lock.meta = p
        BY <1>a, <1>12 DEF Release, OneInside, Inside, Using
    <2>2. pc'[p] \in {"held", "drop"} /\ lock' = lock
        BY <1>0, <1>12, <2>1 DEF Unlock, Release, Goto
    <2>3. OneInside' /\ Recorded'
        BY <1>b, <1>a, <1>6, <2>1, <2>2 DEF OneInside, Recorded, Inside, Making, Using
    <2>4. Judged'
        BY <1>b, <1>6, <1>a, <2>1, <2>2 DEF Judged, Inside, Making, Using
    <2> QED
        BY <2>3, <2>4
<1> QED
    BY <1>1, <1>2, <1>3, <1>4, <1>5, <1>8, <1>9, <1>10, <1>11, <1>12 DEF Acquire

LEMMA Inductive ==
    ASSUME IInv, [Next]_vars
    PROVE  IInv'
<1>1. TypeOK' /\ Dogs' /\ Shape' /\ Undisturbed'
    BY TypesNext, DogsNext, ShapeNext, UndisturbedNext DEF IInv
<1>2. ASSUME ~crossed' PROVE Orderly'
    <2>1. ~crossed
        BY <1>2 DEF Next, AgeLock, AgeReap, Crash, Acquire, MkLock, LookAgain, ReadReapAge, ClearReap, MkReap, Judge, ReadPid,
           ReadStartTime, ReapFiles, ReapDir, MkLockAgain, WriteMeta, RenameMeta, MetaFails, UndoFiles, UndoDir, Unlock,
           Release, DropFiles, DropDir, DogLook, DogFiles, DogDir, vars, hist
    <2>2. TypeOK /\ Dogs /\ Shape /\ Orderly
        BY <2>1 DEF IInv
    <2>3. ASSUME NEW p \in Drivers, Acquire(p) \/ Release(p) \/ DropFiles(p) \/ DropDir(p) PROVE Orderly'
        BY <1>2, <2>2, <2>3, OrderlyOwn, OneReaperNext DEF Orderly
    <2> QED
        BY <1>2, <2>2, <2>3, OrderlyOthers DEF Next
<1> QED
    BY <1>1, <1>2 DEF IInv

LEMMA SpecIInv == Spec => []IInv
<1>1. Init => IInv
    BY Initially
<1>2. IInv /\ [Next]_vars => IInv'
    BY Inductive
<1> QED
    BY <1>1, <1>2, PTL DEF Spec
-----------------------------------------------------------------------------

\* Every directory, process and watchdog stays in the states listed.
THEOREM SpecTypeOK == Spec => []TypeOK
<1>1. IInv => TypeOK
    BY DEF IInv
<1> QED
    BY <1>1, SpecIInv, PTL

\* Two drivers never both believe they own the machine, however many contend for a
\* dead owner's lock and wherever any of them dies, unless a removal crosses a judgement.
THEOREM SpecOneDriverUnlessCrossed == Spec => []OneDriverUnlessCrossed
<1>1. IInv => OneDriverUnlessCrossed
    BY DEF IInv, Orderly, OneInside, OneDriverUnlessCrossed, OneDriver, Holds, Inside, Using
<1> QED
    BY <1>1, SpecIInv, PTL

\* The driver that measures is the one on record, and the live one on record measures.
THEOREM SpecHolderIsRecorded == Spec => []HolderIsRecorded
<1>1. IInv => HolderIsRecorded
    BY DEF IInv, Orderly, OneInside, Recorded, HolderIsRecorded, Using
<1> QED
    BY <1>1, SpecIInv, PTL

\* A driver that starts on what the dead left, with its grace over and nobody else
\* in a call, is never told BUSY and never fails.
THEOREM SpecLoneDriverWins == Spec => []LoneDriverWins
<1>1. IInv => LoneDriverWins
    BY DEF IInv, Undisturbed, LoneDriverWins
<1> QED
    BY <1>1, SpecIInv, PTL
-----------------------------------------------------------------------------
(* The campaign and its watchdog *)

\* Where the driver may be, given what it holds, and the watchdog, given where the
\* driver is.
Places ==
    /\ d = "start" => watchdog = "none"
    /\ d \in {"start"} \cup Campaign => astray = {}
    /\ d \in {"start", "poll", "launch", "own", "release", "report"} => current = 0
    /\ d = "launch" => launched < MaxTrials
    /\ d \in {"own", "allow", "wait", "disallow", "disown"} => launched \in Trials
    /\ d \in {"allow", "wait", "disallow", "disown"} => current = launched
    /\ d \in {"disallow", "disown"} => group[launched] # "alive"
    /\ d = "wait" => allowlist = launched
    /\ d \in {"cancel", "release", "report"} => watchdog \notin Live
    /\ ~ locked => d \in {"report", "done"} /\ current = 0
    /\ end = "clean" => d = "done" /\ watchdog \notin Live

\* A trial that runs is the one CURRENT_EXP_PGID names, or about to be named (unless
\* SIGKILL comes first), or astray.
Owned ==
    \A t \in Trials :
        group[t] = "alive" => t \in astray \/ t = current
                            \/ (t = launched /\ (d = "own" \/ (d = "done" /\ locked)))

Sampled == watchdog \in {"gauges", "judge"}
Found == rows.hard \/ Confirmed(Streaks) # {}

\* The tracker counts what the history counts, a sample later.
Counted ==
    /\ Sampled => inRow = Streaks
    /\ ~ Sampled /\ watchdog # "dead" => inRow = streaks

\* What was seen is in the sample, on its way to the sentinel, or in it.
Kept ==
    /\ watchdog = "none" => ~ dirty
    /\ dirty /\ watchdog # "dead" => sentinel \/ watchdog = "sentinel" \/ (Sampled /\ Found)
    /\ end = "clean" /\ watchdog # "dead" => ~ dirty

\* What is in the sample, on its way or in the sentinel was seen.
Grounded ==
    /\ settled /\ watchdog = "ps" => d = "wait" /\ allowed = launched
    /\ Sampled /\ Found => dirty \/ excuse
    /\ watchdog = "sentinel" => dirty \/ excuse
    /\ watchdog # "none" /\ sentinel => dirty \/ excuse

CampaignInv == CampaignTypeOK /\ Places /\ Owned /\ Counted /\ Kept /\ Grounded
-----------------------------------------------------------------------------

\* ReadProcesses takes in one such sample.
LEMMA ProcessesFacts ==
    ASSUME ReadProcesses
    PROVE  \E failed, named \in BOOLEAN, users \in SUBSET Strangers :
           \E spikes \in SUBSET users, seen \in SUBSET Unlisted :
               Sample(failed, named, users, spikes, seen)
    BY DEF ReadProcesses

\* A step of the driver, and one of its cleanup, keep the types of what they leave alone.
LEMMA DriveTypes ==
    ASSUME CampaignTypeOK, NEW from, NEW to \in Campaign \cup {"stop"}, Drive(from, to),
           phase' \in 1..2, launched' \in 0..MaxTrials, current' \in 0..MaxTrials,
           group' \in [Trials -> {"none", "alive", "left", "gone"}], invalid' \in BOOLEAN,
           allowlist' \in 0..MaxTrials, sentinel' \in BOOLEAN,
           watchdog' \in {"none", "stopped", "dead"} \cup Live
    PROVE  CampaignTypeOK'
<1>1. d' \in {"start", "report", "done"} \cup Campaign \cup Cleanup
    BY DEF Drive, Cleanup
<1>2. UNCHANGED <<locked, aborting, end, watch, inRow, dirty, excuse, astray>> /\ settled' = FALSE
    BY DEF Drive
<1> QED
    BY <1>1, <1>2 DEF CampaignTypeOK, watch

LEMMA ClearTypes ==
    ASSUME CampaignTypeOK, NEW from, NEW to \in Cleanup \cup {"report", "done"}, Clear(from, to),
           current' \in 0..MaxTrials, group' \in [Trials -> {"none", "alive", "left", "gone"}],
           locked' \in BOOLEAN, end' \in Ends, stop' \in BOOLEAN, astray' \in SUBSET Trials,
           UNCHANGED watchdog
    PROVE  CampaignTypeOK'
<1>1. d' \in {"start", "report", "done"} \cup Campaign \cup Cleanup
    BY DEF Clear
<1>2. /\ UNCHANGED <<phase, launched, invalid, aborting, allowlist, sentinel,
                      allowed, rows, streaks, inRow, dirty, excuse>>
      /\ settled' = FALSE
    BY DEF Clear
<1> QED
    BY <1>1, <1>2 DEF CampaignTypeOK

\* Every step keeps the types.
LEMMA TypeNext ==
    ASSUME CampaignTypeOK, Places, [CampaignNext]_campaignVars
    PROVE  CampaignTypeOK'
<1> USE WatchdogAssumption DEF driver, watch, history
<1>0. /\ phase \in 1..2 /\ launched \in 0..MaxTrials /\ current \in 0..MaxTrials
      /\ group \in [Trials -> {"none", "alive", "left", "gone"}]
      /\ invalid \in BOOLEAN /\ allowlist \in 0..MaxTrials /\ sentinel \in BOOLEAN
      /\ watchdog \in {"none", "stopped", "dead"} \cup Live /\ stop \in BOOLEAN
      /\ locked \in BOOLEAN /\ aborting \in BOOLEAN /\ end \in Ends /\ astray \in SUBSET Trials
    BY DEF CampaignTypeOK
<1>1. CASE StartWatchdog
    <2>1. Drive("start", "poll") /\ "poll" \in Campaign
        BY <1>1 DEF StartWatchdog, Campaign
    <2>2. sentinel' \in BOOLEAN /\ watchdog' \in {"none", "stopped", "dead"} \cup Live
        BY <1>1 DEF StartWatchdog, Live
    <2>3. UNCHANGED <<phase, launched, current, invalid, group, allowlist>>
        BY <1>1 DEF StartWatchdog
    <2> QED
        BY <1>0, <2>1, <2>2, <2>3, DriveTypes
<1>2. CASE PhaseEnds
    <2>1. \E to \in Campaign \cup {"stop"} : Drive("poll", to)
        BY <1>2 DEF PhaseEnds, Campaign
    <2>2. phase' \in 1..2
        BY <1>0, <1>2 DEF PhaseEnds
    <2>3. UNCHANGED <<launched, current, invalid, group, allowlist, sentinel, watchdog>>
        BY <1>2 DEF PhaseEnds
    <2> QED
        BY <1>0, <2>1, <2>2, <2>3, DriveTypes
<1>3. CASE AbortPhase
    <2>1. Drive("poll", "stop") /\ "stop" \in Campaign \cup {"stop"}
        BY <1>3 DEF AbortPhase, Campaign
    <2>2. invalid' \in BOOLEAN
        BY <1>0, <1>3 DEF AbortPhase
    <2>3. UNCHANGED <<phase, launched, current, group, allowlist, sentinel, watchdog>>
        BY <1>3 DEF AbortPhase
    <2> QED
        BY <1>0, <2>1, <2>2, <2>3, DriveTypes
<1>4. CASE NextTrial
    <2>1. Drive("poll", "launch") /\ "launch" \in Campaign \cup {"stop"}
        BY <1>4 DEF NextTrial, Campaign
    <2>2. UNCHANGED <<phase, launched, current, invalid, group, allowlist, sentinel, watchdog>>
        BY <1>4 DEF NextTrial
    <2> QED
        BY <1>0, <2>1, <2>2, DriveTypes
<1>5. CASE Launch
    <2>1. Drive("launch", "own") /\ "own" \in Campaign \cup {"stop"}
        BY <1>5 DEF Launch, Campaign
    <2>2. launched' \in 0..MaxTrials
        BY <1>0, <1>5 DEF Launch, Drive, Places
    <2>3. group' \in [Trials -> {"none", "alive", "left", "gone"}]
        BY <1>0, <1>5 DEF Launch
    <2>4. UNCHANGED <<phase, current, invalid, allowlist, sentinel, watchdog>>
        BY <1>5 DEF Launch
    <2> QED
        BY <1>0, <2>1, <2>2, <2>3, <2>4, DriveTypes
<1>6. CASE Own
    <2>1. Drive("own", "allow") /\ "allow" \in Campaign \cup {"stop"}
        BY <1>6 DEF Own, Campaign
    <2>2. current' \in 0..MaxTrials
        BY <1>0, <1>6 DEF Own
    <2>3. UNCHANGED <<phase, launched, invalid, group, allowlist, sentinel, watchdog>>
        BY <1>6 DEF Own
    <2> QED
        BY <1>0, <2>1, <2>2, <2>3, DriveTypes
<1>7. CASE Allow
    <2>1. Drive("allow", "wait") /\ "wait" \in Campaign \cup {"stop"}
        BY <1>7 DEF Allow, Campaign
    <2>2. allowlist' \in 0..MaxTrials
        BY <1>0, <1>7 DEF Allow
    <2>3. UNCHANGED <<phase, launched, current, invalid, group, sentinel, watchdog>>
        BY <1>7 DEF Allow
    <2> QED
        BY <1>0, <2>1, <2>2, <2>3, DriveTypes
<1>8. CASE TrialOver
    <2>1. Drive("wait", "disallow") /\ "disallow" \in Campaign \cup {"stop"}
        BY <1>8 DEF TrialOver, Campaign
    <2>2. UNCHANGED <<phase, launched, current, invalid, group, allowlist, sentinel, watchdog>>
        BY <1>8 DEF TrialOver
    <2> QED
        BY <1>0, <2>1, <2>2, DriveTypes
<1>9. CASE Disallow
    <2>1. Drive("disallow", "disown") /\ "disown" \in Campaign \cup {"stop"}
        BY <1>9 DEF Disallow, Campaign
    <2>2. allowlist' \in 0..MaxTrials
        BY <1>0, <1>9 DEF Disallow
    <2>3. UNCHANGED <<phase, launched, current, invalid, group, sentinel, watchdog>>
        BY <1>9 DEF Disallow
    <2> QED
        BY <1>0, <2>1, <2>2, <2>3, DriveTypes
<1>10. CASE Disown
    <2>1. Drive("disown", "poll") /\ "poll" \in Campaign \cup {"stop"}
        BY <1>10 DEF Disown, Campaign
    <2>2. current' \in 0..MaxTrials
        BY <1>0, <1>10 DEF Disown
    <2>3. UNCHANGED <<phase, launched, invalid, group, allowlist, sentinel, watchdog>>
        BY <1>10 DEF Disown
    <2> QED
        BY <1>0, <2>1, <2>2, <2>3, DriveTypes
<1>11. CASE StopDog
    <2>1. \E to \in Cleanup \cup {"report", "done"} : Clear("stop", to)
        BY <1>11 DEF StopDog, Cleanup
    <2>2. stop' \in BOOLEAN
        BY <1>0, <1>11 DEF StopDog
    <2>3. UNCHANGED <<current, locked, end, group, watchdog, astray>>
        BY <1>11 DEF StopDog
    <2> QED
        BY <1>0, <2>1, <2>2, <2>3, ClearTypes
<1>12. CASE DogGone
    <2>1. Clear("waitDog", "cancel") /\ "cancel" \in Cleanup \cup {"report", "done"}
        BY <1>12 DEF DogGone, Cleanup
    <2>2. UNCHANGED <<current, locked, end, group, watchdog, stop, astray>>
        BY <1>12 DEF DogGone
    <2> QED
        BY <1>0, <2>1, <2>2, ClearTypes
<1>13. CASE Cancel
    <2>1. current' \in 0..MaxTrials
        BY <1>0, <1>13 DEF Cancel
    <2>2. astray' \in SUBSET Trials
        <3>1. (current # 0 /\ astray' = astray \cup {current}) \/ astray' = astray
            BY <1>13 DEF Cancel
        <3>2. current # 0 => current \in Trials
            BY <1>0 DEF Trials
        <3> QED
            BY <1>0, <3>1, <3>2
    <2>3. group' \in [Trials -> {"none", "alive", "left", "gone"}]
        BY <1>0, <1>13 DEF Cancel
    <2>4. Clear("cancel", "release") /\ "release" \in Cleanup \cup {"report", "done"}
        BY <1>13 DEF Cancel, Cleanup
    <2>5. UNCHANGED <<locked, end, watchdog, stop>>
        BY <1>13 DEF Cancel
    <2> QED
        BY <1>0, <2>1, <2>2, <2>3, <2>4, <2>5, ClearTypes
<1>14. CASE ReleaseLock
    <2>1. \E to \in Cleanup \cup {"report", "done"} : Clear("release", to)
        BY <1>14 DEF ReleaseLock
    <2>2. locked' \in BOOLEAN /\ end' \in Ends
        BY <1>0, <1>14 DEF ReleaseLock, Ends
    <2>3. UNCHANGED <<current, group, watchdog, stop, astray>>
        BY <1>14 DEF ReleaseLock
    <2> QED
        BY <1>0, <2>1, <2>2, <2>3, ClearTypes
<1>15. CASE Report
    <2>1. Clear("report", "done") /\ "done" \in Cleanup \cup {"report", "done"}
        BY <1>15 DEF Report
    <2>2. end' \in Ends
        BY <1>0, <1>15 DEF Report, Ends
    <2>3. UNCHANGED <<current, locked, group, watchdog, stop, astray>>
        BY <1>15 DEF Report
    <2> QED
        BY <1>0, <2>1, <2>2, <2>3, ClearTypes
<1> USE DEF CampaignTypeOK
<1>16. CASE Signal
    <2>1. d' \in {"stop", "done"} /\ aborting' \in BOOLEAN /\ end' \in Ends /\ stop' \in BOOLEAN
        BY <1>16 DEF Signal, Ends
    <2>2. astray' \in SUBSET Trials
        BY <1>16 DEF Signal, Places
    <2> QED
        BY <1>16, <2>1, <2>2 DEF Signal, Cleanup
<1>17. CASE Kill
    <2>1. d' \in {"start", "report", "done"} \cup Campaign \cup Cleanup /\ end' \in Ends /\ settled' = FALSE
        BY <1>17 DEF Kill, Ends
    <2>2. UNCHANGED <<phase, launched, current, invalid, locked, aborting, group, allowlist, sentinel,
                      watchdog, stop, allowed, rows, streaks, inRow, dirty, excuse, astray>>
        BY <1>17 DEF Kill
    <2> QED
        BY <2>1, <2>2, ZenonT(30)
<1>18. ASSUME NEW t \in Trials, TrialMoves(t) PROVE CampaignTypeOK'
    BY <1>18 DEF TrialMoves
<1>19. CASE Top
    BY <1>19 DEF Top, Watch, Live
<1>20. CASE ReadAllowlist
    BY <1>20 DEF ReadAllowlist, Watch, Live
<1>21. CASE ReadProcesses
    BY <1>21 DEF ReadProcesses, Sample, Watch, Live
<1>22. CASE ReadGauges
    BY <1>22 DEF ReadGauges, Watch, Live
<1>23. CASE JudgeSample
    BY <1>23 DEF JudgeSample, Watch, Live, Streaks, Clean
<1>24. CASE WriteSentinel
    BY <1>24 DEF WriteSentinel, Watch
<1>25. CASE WakeUp
    BY <1>25 DEF WakeUp, Watch, Live
<1>26. CASE DogDies
    BY <1>26 DEF DogDies
<1>27. CASE UNCHANGED campaignVars
    BY <1>27 DEF campaignVars
<1> QED
    BY <1>1, <1>2, <1>3, <1>4, <1>5, <1>6, <1>7, <1>8, <1>9, <1>10, <1>11, <1>12, <1>13, <1>14, <1>15, <1>16, <1>17, <1>18, <1>19, <1>20, <1>21, <1>22, <1>23, <1>24, <1>25, <1>26, <1>27 DEF CampaignNext, CampaignStep, CleanupStep, WatchStep

\* Every step keeps the places.
LEMMA PlacesNext ==
    ASSUME CampaignTypeOK, Places, [CampaignNext]_campaignVars
    PROVE  Places'
<1> USE WatchdogAssumption DEF CampaignTypeOK, campaignVars, driver, watch, history, Trials, Live, Campaign, Cleanup, Ends, Clean, Streaks, Confirmed, Places
<1>1. CASE StartWatchdog
    BY <1>1 DEF StartWatchdog, Drive
<1>2. CASE PhaseEnds
    BY <1>2 DEF PhaseEnds, Drive
<1>3. CASE AbortPhase
    BY <1>3 DEF AbortPhase, Drive
<1>4. CASE NextTrial
    BY <1>4 DEF NextTrial, Drive
<1>5. CASE Launch
    BY <1>5 DEF Launch, Drive
<1>6. CASE Own
    BY <1>6 DEF Own, Drive
<1>7. CASE Allow
    BY <1>7 DEF Allow, Drive
<1>8. CASE TrialOver
    BY <1>8 DEF TrialOver, Drive
<1>9. CASE Disallow
    BY <1>9 DEF Disallow, Drive
<1>10. CASE Disown
    BY <1>10 DEF Disown, Drive
<1>11. CASE StopDog
    BY <1>11 DEF StopDog, Clear
<1>12. CASE DogGone
    BY <1>12 DEF DogGone, Clear
<1>13. CASE Cancel
    BY <1>13 DEF Cancel, Clear
<1>14. CASE ReleaseLock
    BY <1>14 DEF ReleaseLock, Clear
<1>15. CASE Report
    BY <1>15 DEF Report, Clear
<1>16. CASE Signal
    BY <1>16 DEF Signal
<1>17. CASE Kill
    BY <1>17 DEF Kill
<1>18. ASSUME NEW t \in Trials, TrialMoves(t) PROVE Places'
    BY <1>18 DEF TrialMoves
<1>19. CASE Top
    BY <1>19 DEF Top, Watch
<1>20. CASE ReadAllowlist
    BY <1>20 DEF ReadAllowlist, Watch
<1>21. CASE ReadProcesses
    BY <1>21 DEF ReadProcesses, Sample, Watch, Unlisted
<1>22. CASE ReadGauges
    BY <1>22 DEF ReadGauges, Watch
<1>23. CASE JudgeSample
    BY <1>23 DEF JudgeSample, Watch
<1>24. CASE WriteSentinel
    BY <1>24 DEF WriteSentinel, Watch
<1>25. CASE WakeUp
    BY <1>25 DEF WakeUp, Watch
<1>26. CASE DogDies
    BY <1>26 DEF DogDies
<1>27. CASE UNCHANGED campaignVars
    BY <1>27
<1> QED
    BY <1>1, <1>2, <1>3, <1>4, <1>5, <1>6, <1>7, <1>8, <1>9, <1>10, <1>11, <1>12, <1>13, <1>14, <1>15, <1>16, <1>17, <1>18, <1>19, <1>20, <1>21, <1>22, <1>23, <1>24, <1>25, <1>26, <1>27 DEF CampaignNext, CampaignStep, CleanupStep, WatchStep

\* Every step keeps track of the trial.
LEMMA OwnedNext ==
    ASSUME CampaignTypeOK, Places, Owned, [CampaignNext]_campaignVars
    PROVE  Owned'
<1> USE WatchdogAssumption DEF CampaignTypeOK, campaignVars, driver, watch, history, Trials, Live, Campaign, Cleanup, Ends, Clean, Streaks, Confirmed, Places, Owned
<1>1. CASE StartWatchdog
    BY <1>1 DEF StartWatchdog, Drive
<1>2. CASE PhaseEnds
    BY <1>2 DEF PhaseEnds, Drive
<1>3. CASE AbortPhase
    BY <1>3 DEF AbortPhase, Drive
<1>4. CASE NextTrial
    BY <1>4 DEF NextTrial, Drive
<1>5. CASE Launch
    BY <1>5 DEF Launch, Drive
<1>6. CASE Own
    BY <1>6 DEF Own, Drive
<1>7. CASE Allow
    BY <1>7 DEF Allow, Drive
<1>8. CASE TrialOver
    BY <1>8 DEF TrialOver, Drive
<1>9. CASE Disallow
    BY <1>9 DEF Disallow, Drive
<1>10. CASE Disown
    BY <1>10 DEF Disown, Drive
<1>11. CASE StopDog
    BY <1>11 DEF StopDog, Clear
<1>12. CASE DogGone
    BY <1>12 DEF DogGone, Clear
<1>13. CASE Cancel
    BY <1>13 DEF Cancel, Clear
<1>14. CASE ReleaseLock
    BY <1>14 DEF ReleaseLock, Clear
<1>15. CASE Report
    BY <1>15 DEF Report, Clear
<1>16. CASE Signal
    BY <1>16 DEF Signal
<1>17. CASE Kill
    BY <1>17 DEF Kill
<1>18. ASSUME NEW t \in Trials, TrialMoves(t) PROVE Owned'
    BY <1>18 DEF TrialMoves
<1>19. CASE Top
    BY <1>19 DEF Top, Watch
<1>20. CASE ReadAllowlist
    BY <1>20 DEF ReadAllowlist, Watch
<1>21. CASE ReadProcesses
    BY <1>21 DEF ReadProcesses, Sample, Watch, Unlisted
<1>22. CASE ReadGauges
    BY <1>22 DEF ReadGauges, Watch
<1>23. CASE JudgeSample
    BY <1>23 DEF JudgeSample, Watch
<1>24. CASE WriteSentinel
    BY <1>24 DEF WriteSentinel, Watch
<1>25. CASE WakeUp
    BY <1>25 DEF WakeUp, Watch
<1>26. CASE DogDies
    BY <1>26 DEF DogDies
<1>27. CASE UNCHANGED campaignVars
    BY <1>27
<1> QED
    BY <1>1, <1>2, <1>3, <1>4, <1>5, <1>6, <1>7, <1>8, <1>9, <1>10, <1>11, <1>12, <1>13, <1>14, <1>15, <1>16, <1>17, <1>18, <1>19, <1>20, <1>21, <1>22, <1>23, <1>24, <1>25, <1>26, <1>27 DEF CampaignNext, CampaignStep, CleanupStep, WatchStep

\* Every step keeps the two counts together.
LEMMA CountedNext ==
    ASSUME CampaignTypeOK, Places, Counted, [CampaignNext]_campaignVars
    PROVE  Counted'
<1> USE WatchdogAssumption DEF CampaignTypeOK, campaignVars, driver, watch, history, Trials, Live, Campaign, Cleanup, Ends, Clean, Streaks, Confirmed, Counted, Sampled
<1>1. CASE StartWatchdog
    <2>1. ~ Sampled /\ watchdog # "dead" /\ ~ Sampled'
        BY <1>1 DEF Places, StartWatchdog, Drive
    <2> QED
        BY <1>1, <2>1 DEF StartWatchdog, Drive
<1>2. CASE PhaseEnds
    BY <1>2 DEF PhaseEnds, Drive
<1>3. CASE AbortPhase
    BY <1>3 DEF AbortPhase, Drive
<1>4. CASE NextTrial
    BY <1>4 DEF NextTrial, Drive
<1>5. CASE Launch
    BY <1>5 DEF Launch, Drive
<1>6. CASE Own
    BY <1>6 DEF Own, Drive
<1>7. CASE Allow
    BY <1>7 DEF Allow, Drive
<1>8. CASE TrialOver
    BY <1>8 DEF TrialOver, Drive
<1>9. CASE Disallow
    BY <1>9 DEF Disallow, Drive
<1>10. CASE Disown
    BY <1>10 DEF Disown, Drive
<1>11. CASE StopDog
    BY <1>11 DEF StopDog, Clear
<1>12. CASE DogGone
    BY <1>12 DEF DogGone, Clear
<1>13. CASE Cancel
    BY <1>13 DEF Cancel, Clear
<1>14. CASE ReleaseLock
    BY <1>14 DEF ReleaseLock, Clear
<1>15. CASE Report
    BY <1>15 DEF Report, Clear
<1>16. CASE Signal
    BY <1>16 DEF Signal
<1>17. CASE Kill
    BY <1>17 DEF Kill
<1>18. ASSUME NEW t \in Trials, TrialMoves(t) PROVE Counted'
    BY <1>18 DEF TrialMoves
<1>19. CASE Top
    BY <1>19 DEF Top, Watch
<1>20. CASE ReadAllowlist
    BY <1>20 DEF ReadAllowlist, Watch
<1>21. CASE ReadProcesses
    BY <1>21 DEF ReadProcesses, Sample, Watch, Unlisted
<1>22. CASE ReadGauges
    BY <1>22 DEF ReadGauges, Watch
<1>23. CASE JudgeSample
    BY <1>23 DEF JudgeSample, Watch
<1>24. CASE WriteSentinel
    BY <1>24 DEF WriteSentinel, Watch
<1>25. CASE WakeUp
    BY <1>25 DEF WakeUp, Watch
<1>26. CASE DogDies
    BY <1>26 DEF DogDies
<1>27. CASE UNCHANGED campaignVars
    BY <1>27
<1> QED
    BY <1>1, <1>2, <1>3, <1>4, <1>5, <1>6, <1>7, <1>8, <1>9, <1>10, <1>11, <1>12, <1>13, <1>14, <1>15, <1>16, <1>17, <1>18, <1>19, <1>20, <1>21, <1>22, <1>23, <1>24, <1>25, <1>26, <1>27 DEF CampaignNext, CampaignStep, CleanupStep, WatchStep

\* No step loses what was seen.
LEMMA KeptNext ==
    ASSUME CampaignTypeOK, Places, Counted, Kept, [CampaignNext]_campaignVars
    PROVE  Kept'
<1> USE WatchdogAssumption DEF CampaignTypeOK, campaignVars, driver, watch, history, Trials, Live, Campaign, Cleanup, Ends, Clean, Streaks, Confirmed, Places, Counted, Kept, Sampled, Found, Sample
<1>1. CASE StartWatchdog
    BY <1>1 DEF StartWatchdog, Drive
<1>2. CASE PhaseEnds
    BY <1>2 DEF PhaseEnds, Drive
<1>3. CASE AbortPhase
    BY <1>3 DEF AbortPhase, Drive
<1>4. CASE NextTrial
    BY <1>4 DEF NextTrial, Drive
<1>5. CASE Launch
    BY <1>5 DEF Launch, Drive
<1>6. CASE Own
    BY <1>6 DEF Own, Drive
<1>7. CASE Allow
    BY <1>7 DEF Allow, Drive
<1>8. CASE TrialOver
    BY <1>8 DEF TrialOver, Drive
<1>9. CASE Disallow
    BY <1>9 DEF Disallow, Drive
<1>10. CASE Disown
    BY <1>10 DEF Disown, Drive
<1>11. CASE StopDog
    BY <1>11 DEF StopDog, Clear
<1>12. CASE DogGone
    BY <1>12 DEF DogGone, Clear
<1>13. CASE Cancel
    BY <1>13 DEF Cancel, Clear
<1>14. CASE ReleaseLock
    BY <1>14 DEF ReleaseLock, Clear
<1>15. CASE Report
    BY <1>15 DEF Report, Clear
<1>16. CASE Signal
    BY <1>16 DEF Signal
<1>17. CASE Kill
    BY <1>17 DEF Kill
<1>18. ASSUME NEW t \in Trials, TrialMoves(t) PROVE Kept'
    BY <1>18 DEF TrialMoves
<1>19. CASE Top
    BY <1>19 DEF Top, Watch
<1>20. CASE ReadAllowlist
    BY <1>20 DEF ReadAllowlist, Watch
<1>21. CASE ReadProcesses
    <2>0. PICK failed \in BOOLEAN, named \in BOOLEAN, users \in SUBSET Strangers :
          \E spikes \in SUBSET users, seen \in SUBSET Unlisted :
              Sample(failed, named, users, spikes, seen)
        BY <1>21, ProcessesFacts
    <2>1. PICK spikes \in SUBSET users, seen \in SUBSET Unlisted :
              Sample(failed, named, users, spikes, seen)
        BY <2>0
    <2>2. /\ watchdog = "ps" /\ watchdog' = "gauges"
          /\ UNCHANGED <<driver, group, allowlist, stop, astray, sentinel, allowed, streaks, settled>>
        BY <1>21 DEF ReadProcesses, Watch
    <2>3. (\E p \in Strangers : inRow'[p] = Required) => Confirmed(Streaks)' # {}
        <3>1. ASSUME NEW p \in Strangers, inRow'[p] = Required PROVE p \in Confirmed(Streaks)'
            <4>1. p \in users
                BY <2>1, <3>1
            <4>2. Streaks'[p] = Required
                BY <2>1, <2>2, <4>1, <3>1
            <4> QED
                BY <2>1, <4>1, <4>2
        <3> QED
            BY <3>1
    <2>4. spikes # {} => Confirmed(Streaks)' # {}
        BY <2>1, <2>2
    <2>5. (\E t \in seen : group[t] = "left") \/ failed \/ named => rows'.hard
        BY <2>1
    <2> QED
        BY <2>1, <2>2, <2>3, <2>4, <2>5
<1>22. CASE ReadGauges
    BY <1>22 DEF ReadGauges, Watch
<1>23. CASE JudgeSample
    BY <1>23 DEF JudgeSample, Watch
<1>24. CASE WriteSentinel
    BY <1>24 DEF WriteSentinel, Watch
<1>25. CASE WakeUp
    BY <1>25 DEF WakeUp, Watch
<1>26. CASE DogDies
    BY <1>26 DEF DogDies
<1>27. CASE UNCHANGED campaignVars
    BY <1>27
<1> QED
    BY <1>1, <1>2, <1>3, <1>4, <1>5, <1>6, <1>7, <1>8, <1>9, <1>10, <1>11, <1>12, <1>13, <1>14, <1>15, <1>16, <1>17, <1>18, <1>19, <1>20, <1>21, <1>22, <1>23, <1>24, <1>25, <1>26, <1>27 DEF CampaignNext, CampaignStep, CleanupStep, WatchStep

\* No step invents anything.
LEMMA GroundedNext ==
    ASSUME CampaignTypeOK, Places, Owned, Counted, Grounded, [CampaignNext]_campaignVars
    PROVE  Grounded'
<1> USE WatchdogAssumption DEF CampaignTypeOK, campaignVars, driver, watch, history, Trials, Live, Campaign, Cleanup, Ends, Clean, Streaks, Confirmed, Places, Owned, Counted, Grounded, Sampled, Found, Sample
<1>1. CASE StartWatchdog
    BY <1>1 DEF StartWatchdog, Drive
<1>2. CASE PhaseEnds
    BY <1>2 DEF PhaseEnds, Drive
<1>3. CASE AbortPhase
    BY <1>3 DEF AbortPhase, Drive
<1>4. CASE NextTrial
    BY <1>4 DEF NextTrial, Drive
<1>5. CASE Launch
    BY <1>5 DEF Launch, Drive
<1>6. CASE Own
    BY <1>6 DEF Own, Drive
<1>7. CASE Allow
    BY <1>7 DEF Allow, Drive
<1>8. CASE TrialOver
    BY <1>8 DEF TrialOver, Drive
<1>9. CASE Disallow
    BY <1>9 DEF Disallow, Drive
<1>10. CASE Disown
    BY <1>10 DEF Disown, Drive
<1>11. CASE StopDog
    BY <1>11 DEF StopDog, Clear
<1>12. CASE DogGone
    BY <1>12 DEF DogGone, Clear
<1>13. CASE Cancel
    BY <1>13 DEF Cancel, Clear
<1>14. CASE ReleaseLock
    BY <1>14 DEF ReleaseLock, Clear
<1>15. CASE Report
    BY <1>15 DEF Report, Clear
<1>16. CASE Signal
    BY <1>16 DEF Signal
<1>17. CASE Kill
    BY <1>17 DEF Kill
<1>18. ASSUME NEW t \in Trials, TrialMoves(t) PROVE Grounded'
    BY <1>18 DEF TrialMoves
<1>19. CASE Top
    BY <1>19 DEF Top, Watch
<1>20. CASE ReadAllowlist
    BY <1>20 DEF ReadAllowlist, Watch
<1>21. CASE ReadProcesses
    <2>0. PICK failed \in BOOLEAN, named \in BOOLEAN, users \in SUBSET Strangers :
          \E spikes \in SUBSET users, seen \in SUBSET Unlisted :
              Sample(failed, named, users, spikes, seen)
        BY <1>21, ProcessesFacts
    <2>1. PICK spikes \in SUBSET users, seen \in SUBSET Unlisted :
              Sample(failed, named, users, spikes, seen)
        BY <2>0
    <2>2. /\ watchdog = "ps" /\ watchdog' = "gauges"
          /\ UNCHANGED <<driver, group, allowlist, stop, astray, sentinel, allowed, streaks, settled>>
        BY <1>21 DEF ReadProcesses, Watch
    <2>3. seen # {} => dirty' \/ excuse'
        <3> SUFFICES ASSUME NEW t \in seen, settled PROVE group[t] = "left"
            BY <2>1
        <3>1. t \in Trials /\ t # launched /\ current = launched /\ astray = {} /\ d = "wait"
            BY <2>1, <2>2 DEF Unlisted
        <3>2. group[t] # "alive"
            BY <3>1 DEF Owned
        <3> QED
            BY <2>1, <3>2 DEF Unlisted
    <2>4. rows'.hard => dirty' \/ excuse'
        BY <2>1, <2>3
    <2>5. Confirmed(Streaks)' # {} => dirty'
        <3> SUFFICES ASSUME NEW p \in users, p \in spikes \/ Streaks'[p] >= Required PROVE dirty'
            BY <2>1
        <3>1. CASE p \in spikes
            BY <2>1, <3>1
        <3>2. CASE Streaks'[p] >= Required
            <4>1. Streaks'[p] = inRow'[p] /\ inRow'[p] \in 0..Required
                BY <2>1, <2>2
            <4> QED
                BY <2>1, <3>2, <4>1
        <3> QED
            BY <3>1, <3>2
    <2> QED
        BY <2>1, <2>2, <2>3, <2>4, <2>5
<1>22. CASE ReadGauges
    BY <1>22 DEF ReadGauges, Watch
<1>23. CASE JudgeSample
    BY <1>23 DEF JudgeSample, Watch
<1>24. CASE WriteSentinel
    BY <1>24 DEF WriteSentinel, Watch
<1>25. CASE WakeUp
    BY <1>25 DEF WakeUp, Watch
<1>26. CASE DogDies
    BY <1>26 DEF DogDies
<1>27. CASE UNCHANGED campaignVars
    BY <1>27
<1> QED
    BY <1>1, <1>2, <1>3, <1>4, <1>5, <1>6, <1>7, <1>8, <1>9, <1>10, <1>11, <1>12, <1>13, <1>14, <1>15, <1>16, <1>17, <1>18, <1>19, <1>20, <1>21, <1>22, <1>23, <1>24, <1>25, <1>26, <1>27 DEF CampaignNext, CampaignStep, CleanupStep, WatchStep
-----------------------------------------------------------------------------
\* The invariant is inductive.
THEOREM SpecCampaignInv == CampaignSpec => []CampaignInv
<1>1. CampaignInit => CampaignInv
    <2> SUFFICES ASSUME CampaignInit PROVE CampaignInv
        OBVIOUS
    <2>1. CampaignTypeOK
        <3>1. 0 \in 0..Required /\ 0 \in 0..MaxTrials
            BY WatchdogAssumption
        <3>2. /\ streaks \in [Strangers -> 0..Required] /\ inRow \in [Strangers -> 0..Required]
              /\ group \in [Trials -> {"none", "alive", "left", "gone"}]
            BY <3>1 DEF CampaignInit
        <3>3. rows \in [hard: BOOLEAN, users: SUBSET Strangers, spikes: SUBSET Strangers]
            BY DEF CampaignInit, Clean
        <3>4. /\ invalid \in BOOLEAN /\ locked \in BOOLEAN /\ aborting \in BOOLEAN /\ sentinel \in BOOLEAN
              /\ stop \in BOOLEAN /\ dirty \in BOOLEAN /\ settled \in BOOLEAN /\ excuse \in BOOLEAN
            BY DEF CampaignInit
        <3>5. /\ d \in {"start", "report", "done"} \cup Campaign \cup Cleanup
              /\ phase \in 1..2 /\ end \in Ends /\ watchdog \in {"none", "stopped", "dead"} \cup Live
            BY DEF CampaignInit, Ends
        <3>6. /\ launched \in 0..MaxTrials /\ current \in 0..MaxTrials
              /\ allowlist \in 0..MaxTrials /\ allowed \in 0..MaxTrials /\ astray \in SUBSET Trials
            BY <3>1 DEF CampaignInit
        <3> QED
            BY <3>2, <3>3, <3>4, <3>5, <3>6 DEF CampaignTypeOK
    <2>2. Places /\ Owned
        BY DEF CampaignInit, Places, Owned, Live, Campaign
    <2>3. ~ Sampled
        BY DEF CampaignInit, Sampled
    <2> QED
        BY <2>1, <2>2, <2>3 DEF CampaignInit, CampaignInv, Counted, Kept, Grounded
<1>2. CampaignInv /\ [CampaignNext]_campaignVars => CampaignInv'
    BY TypeNext, PlacesNext, OwnedNext, CountedNext, KeptNext, GroundedNext DEF CampaignInv
<1> QED
    BY <1>1, <1>2, PTL DEF CampaignSpec

\* Types, for any number of trials and strangers.
THEOREM SpecCampaignTypeOK == CampaignSpec => []CampaignTypeOK
<1>1. CampaignInv => CampaignTypeOK
    BY DEF CampaignInv
<1> QED
    BY <1>1, SpecCampaignInv, PTL

\* No run is reported as clean in spite of a sample that was not.
THEOREM SpecCleanMeansClean == CampaignSpec => []CleanMeansClean
<1>1. CampaignInv => CleanMeansClean
    BY DEF CampaignInv, Kept, CleanMeansClean
<1> QED
    BY <1>1, SpecCampaignInv, PTL

\* The campaign does not invalidate itself.
THEOREM SpecNoFalseAlarm == CampaignSpec => []NoFalseAlarm
<1>1. CampaignInv => NoFalseAlarm
    BY DEF CampaignInv, Grounded, NoFalseAlarm
<1> QED
    BY <1>1, SpecCampaignInv, PTL

\* The lock outlasts the trials.
THEOREM SpecLockCoversTrials == CampaignSpec => []LockCoversTrials
<1>1. CampaignInv => LockCoversTrials
    BY DEF CampaignInv, Places, Owned, LockCoversTrials, Trials
<1> QED
    BY <1>1, SpecCampaignInv, PTL
=============================================================================
