------------------------------ MODULE Watchdog ------------------------------
(***************************************************************************)
(* A roofline campaign: the driver c/scripts/roofline_run.sh launches one  *)
(* trial after the other, each in a process group of its own, while the    *)
(* watchdog c/tools/timing_watchdog.py (run --no-terminate) samples the    *)
(* machine and leaves TIMING_INVALID.json behind when it sees anything     *)
(* that is not the campaign's.  The two share two files: the allowlist of  *)
(* process groups and that sentinel.                                       *)
(*                                                                         *)
(* Time is abstracted: a trial, a sleep or a phase may take any time.      *)
(* What ps shows of the rest of the machine is open; what it shows of the  *)
(* trials is not.                                                          *)
(***************************************************************************)
EXTENDS Integers, FiniteSets

CONSTANTS
    Strangers,   \* user processes outside the campaign
    Required,    \* --consecutive-required
    MaxTrials    \* trials of a campaign

ASSUME WatchdogAssumption ==
    /\ IsFiniteSet(Strangers)
    /\ Required \in Nat \ {0} /\ MaxTrials \in Nat

Trials == 1..MaxTrials

VARIABLES
    d,           \* where the driver is
    phase,       \* 1: cold, 2: steady
    launched,    \* trials so far, and the pid (group) of the last one
    group,       \* each trial's process group: "left" when only descendants of its leader live
    current,     \* CURRENT_EXP_PGID, 0: empty
    invalid,     \* ROOFLINE_INVALID
    locked,      \* the timing lock is held
    aborting,    \* a signal has made the driver exit: it is in its EXIT trap
    end,         \* how the driver ended
    allowlist,   \* the file: the trial's group beside the driver's own, 0: none
    sentinel,    \* TIMING_INVALID.json exists
    watchdog,    \* where the watchdog is
    stop,        \* its handler has run
    allowed,     \* what it read of the allowlist
    rows,        \* what it made of ps and the gauges
    streaks,     \* ForeignProcTracker.streaks
    inRow,       \* history: samples in a row with this stranger in them
    dirty,       \* history: something outside the campaign was in a sample
    settled,     \* history: the driver has waited for its trial ever since allowed was read
    excuse,      \* history: a sample that saw an unlisted trial and was not settled
    astray       \* history: trials whose group the driver could not name or not kill

driver == <<d, phase, launched, current, invalid, locked, aborting, end>>
watch == <<stop, allowed, rows, streaks>>
history == <<inRow, dirty, settled, excuse, astray>>
campaignVars == <<driver, group, allowlist, sentinel, watchdog, watch, history>>

Live == {"top", "list", "ps", "gauges", "judge", "sentinel", "sleep"}
Campaign == {"poll", "launch", "own", "allow", "wait", "disallow", "disown"}
Cleanup == {"stop", "waitDog", "cancel", "release"}

Ends == {"none", "clean", "invalid", "aborted", "killed"}
Clean == [hard |-> FALSE, users |-> {}, spikes |-> {}]

\* What the variables may hold.
CampaignTypeOK ==
    /\ d \in {"start", "report", "done"} \cup Campaign \cup Cleanup
    /\ phase \in 1..2 /\ launched \in 0..MaxTrials /\ current \in 0..MaxTrials
    /\ group \in [Trials -> {"none", "alive", "left", "gone"}]
    /\ invalid \in BOOLEAN /\ locked \in BOOLEAN /\ aborting \in BOOLEAN /\ end \in Ends
    /\ allowlist \in 0..MaxTrials /\ sentinel \in BOOLEAN
    /\ watchdog \in {"none", "stopped", "dead"} \cup Live
    /\ stop \in BOOLEAN /\ allowed \in 0..MaxTrials
    /\ rows \in [hard: BOOLEAN, users: SUBSET Strangers, spikes: SUBSET Strangers]
    /\ streaks \in [Strangers -> 0..Required] /\ inRow \in [Strangers -> 0..Required]
    /\ dirty \in BOOLEAN /\ settled \in BOOLEAN /\ excuse \in BOOLEAN
    /\ astray \in SUBSET Trials

CampaignInit ==
    /\ d = "start" /\ phase = 1 /\ launched = 0 /\ current = 0
    /\ group = [t \in Trials |-> "none"]
    /\ invalid = FALSE /\ locked = TRUE /\ aborting = FALSE /\ end = "none"
    /\ allowlist = 0 /\ sentinel \in BOOLEAN
    /\ watchdog = "none" /\ stop = FALSE /\ allowed = 0 /\ rows = Clean
    /\ streaks = [p \in Strangers |-> 0]
    /\ inRow = [p \in Strangers |-> 0]
    /\ dirty = FALSE /\ settled = FALSE /\ excuse = FALSE /\ astray = {}
-----------------------------------------------------------------------------
(* The driver *)

\* A step of the driver within its campaign, from one place to the next.
Drive(from, to) ==
    /\ d = from /\ d' = to
    /\ settled' = FALSE
    /\ UNCHANGED <<locked, aborting, end, watch, inRow, dirty, excuse, astray>>

\* The sentinel of an earlier run in a reused directory goes, then the watchdog starts.
StartWatchdog ==
    /\ Drive("start", "poll")
    /\ sentinel' = FALSE
    /\ watchdog' = "top"
    /\ UNCHANGED <<phase, launched, current, invalid, group, allowlist>>

\* run_phase(): the time is up.
PhaseEnds ==
    /\ IF phase = 1 THEN Drive("poll", "poll") /\ phase' = 2
                    ELSE Drive("poll", "stop") /\ UNCHANGED phase
    /\ UNCHANGED <<launched, current, invalid, group, allowlist, sentinel, watchdog>>

\* run_phase() finds the sentinel; a steady phase is then skipped.
AbortPhase ==
    /\ Drive("poll", "stop")
    /\ sentinel /\ invalid' = TRUE
    /\ UNCHANGED <<phase, launched, current, group, allowlist, sentinel, watchdog>>

NextTrial ==
    /\ Drive("poll", "launch")
    /\ ~ sentinel /\ launched < MaxTrials
    /\ UNCHANGED <<phase, launched, current, invalid, group, allowlist, sentinel, watchdog>>

\* run_one(): the group exists from the fork on.
Launch ==
    /\ Drive("launch", "own")
    /\ launched' = launched + 1
    /\ group' = [group EXCEPT ![launched'] = "alive"]
    /\ UNCHANGED <<phase, current, invalid, allowlist, sentinel, watchdog>>

Own ==
    /\ Drive("own", "allow")
    /\ current' = launched
    /\ UNCHANGED <<phase, launched, invalid, group, allowlist, sentinel, watchdog>>

\* write_allowlist, by a rename.
Allow ==
    /\ Drive("allow", "wait")
    /\ allowlist' = launched
    /\ UNCHANGED <<phase, launched, current, invalid, group, sentinel, watchdog>>

\* wait "$pid": for the leader of the group.
TrialOver ==
    /\ Drive("wait", "disallow")
    /\ group[launched] # "alive"
    /\ UNCHANGED <<phase, launched, current, invalid, group, allowlist, sentinel, watchdog>>

Disallow ==
    /\ Drive("disallow", "disown")
    /\ allowlist' = 0
    /\ UNCHANGED <<phase, launched, current, invalid, group, sentinel, watchdog>>

Disown ==
    /\ Drive("disown", "poll")
    /\ current' = 0
    /\ UNCHANGED <<phase, launched, invalid, group, allowlist, sentinel, watchdog>>

\* A step of cleanup().
Clear(from, to) ==
    /\ d = from /\ d' = to
    /\ settled' = FALSE
    /\ UNCHANGED <<phase, launched, invalid, aborting, allowlist, sentinel,
                   allowed, rows, streaks, inRow, dirty, excuse>>

\* kill -0, kill, wait: the handler only sets a flag.
StopDog ==
    /\ IF watchdog \in Live THEN Clear("stop", "waitDog") /\ stop' = TRUE
                       ELSE Clear("stop", "cancel") /\ UNCHANGED stop
    /\ UNCHANGED <<current, locked, end, group, watchdog, astray>>

DogGone ==
    /\ Clear("waitDog", "cancel")
    /\ watchdog \notin Live
    /\ UNCHANGED <<current, locked, end, group, watchdog, stop, astray>>

\* Mutant of Cancel: only the leader is killed, and found in the group's stead.
CancelNobody ==
    /\ Clear("cancel", "release")
    /\ current' = 0
    /\ UNCHANGED <<locked, end, group, watchdog, stop, astray>>

\* exp_launch_cancel() of a trial in flight; a process may survive SIGKILL in an
\* uninterruptible wait, which is logged only.
Cancel ==
    /\ Clear("cancel", "release")
    /\ current' = 0
    /\ \/ current # 0 /\ group' = [group EXCEPT ![current] = "gone"] /\ UNCHANGED astray
       \/ current # 0 /\ astray' = astray \cup {current} /\ UNCHANGED group
       \/ current = 0 /\ UNCHANGED <<group, astray>>
    /\ UNCHANGED <<locked, end, watchdog, stop>>

ReleaseLock ==
    /\ locked' = FALSE
    /\ IF aborting THEN Clear("release", "done") /\ end' = "aborted"
                   ELSE Clear("release", "report") /\ UNCHANGED end
    /\ UNCHANGED <<current, group, watchdog, stop, astray>>

\* Mutant of Report: the driver trusts what run_phase() has seen.
ReportPolled ==
    /\ Clear("report", "done")
    /\ end' = IF invalid THEN "invalid" ELSE "clean"
    /\ UNCHANGED <<current, locked, group, watchdog, stop, astray>>

Report ==
    /\ Clear("report", "done")
    /\ end' = IF sentinel \/ invalid THEN "invalid" ELSE "clean"
    /\ UNCHANGED <<current, locked, group, watchdog, stop, astray>>

\* INT or TERM (a terminal sends INT to the watchdog too).  The traps exit, the EXIT
\* trap cleans up; bash does not run that one again, so a second signal cuts it
\* short.  After the cleanup of a run that ended by itself there are no traps.
Signal ==
    /\ d \notin {"done"}
    /\ IF d = "report" \/ aborting
       THEN d' = "done" /\ end' = "aborted" /\ UNCHANGED aborting
       ELSE d' = "stop" /\ aborting' = TRUE /\ UNCHANGED end
    /\ astray' = IF d = "own" THEN astray \cup {launched} ELSE astray
    /\ stop' \in {stop, TRUE}
    /\ settled' = FALSE
    /\ UNCHANGED <<phase, launched, current, invalid, locked, group, allowlist, sentinel, watchdog,
                   allowed, rows, streaks, inRow, dirty, excuse>>

\* SIGKILL.
Kill ==
    /\ d # "done"
    /\ d' = "done" /\ end' = "killed"
    /\ settled' = FALSE
    /\ UNCHANGED <<phase, launched, current, invalid, locked, aborting, group, allowlist, sentinel,
                   watchdog, watch, inRow, dirty, excuse, astray>>

\* The leader of a trial exits, with or without descendants that go on for a while.
TrialMoves(t) ==
    /\ \/ group[t] = "alive" /\ group' \in {[group EXCEPT ![t] = "left"], [group EXCEPT ![t] = "gone"]}
       \/ group[t] = "left" /\ group' = [group EXCEPT ![t] = "gone"]
    /\ UNCHANGED <<driver, allowlist, sentinel, watchdog, watch, history>>
-----------------------------------------------------------------------------
(* The watchdog *)

Watch(from, to) ==
    /\ watchdog = from /\ watchdog' = to
    /\ UNCHANGED <<driver, group, allowlist, stop, astray>>

\* Mutant of Top: nobody asks whether the driver lives.
TopAlways ==
    /\ IF stop THEN Watch("top", "stopped") ELSE Watch("top", "list")
    /\ UNCHANGED <<sentinel, allowed, rows, streaks, inRow, dirty, settled, excuse>>

\* The flag of the handler, then getppid() = 1: the driver is gone.
Top ==
    /\ IF stop \/ d = "done" THEN Watch("top", "stopped") ELSE Watch("top", "list")
    /\ UNCHANGED <<sentinel, allowed, rows, streaks, inRow, dirty, settled, excuse>>

\* Mutant of ReadAllowlist: the file is read once and for all.
ReadAllowlistOnce ==
    /\ Watch("list", "ps")
    /\ settled' = (d = "wait")
    /\ UNCHANGED <<sentinel, allowed, rows, streaks, inRow, dirty, excuse>>

\* read_pgid_file(): again for every sample, and before ps.
ReadAllowlist ==
    /\ Watch("list", "ps")
    /\ allowed' = allowlist
    /\ settled' = (d = "wait")
    /\ UNCHANGED <<sentinel, rows, streaks, inRow, dirty, excuse>>

Unlisted == {t \in Trials : group[t] \in {"alive", "left"} /\ t # allowed}

\* unexpected_processes(), foreign_user_processes(): a glm outside the allowed groups
\* or a compiler is hard evidence, another user process counts by its load, and a ps
\* that fails is hard evidence without rows.
Sample(failed, named, users, spikes, seen) ==
    /\ failed => ~ named /\ users = {} /\ seen = {}
    /\ rows' = [hard |-> failed \/ named \/ seen # {}, users |-> users, spikes |-> spikes]
    /\ inRow' = [p \in Strangers |->
                    IF p \notin users THEN 0
                    ELSE IF inRow[p] < Required THEN inRow[p] + 1 ELSE Required]
    /\ dirty' = \/ dirty \/ failed \/ named \/ spikes # {}
                \/ \E p \in Strangers : inRow'[p] = Required
                \/ \E t \in seen : group[t] = "left"
    /\ excuse' = (excuse \/ (seen # {} /\ ~ settled))

\* list_processes().  An unlisted trial may not have come to its glm yet, and a shell
\* without load goes unnoticed.
ReadProcesses ==
    /\ Watch("ps", "gauges")
    /\ \E failed, named \in BOOLEAN, users \in SUBSET Strangers :
       \E spikes \in SUBSET users, seen \in SUBSET Unlisted :
          Sample(failed, named, users, spikes, seen)
    /\ UNCHANGED <<sentinel, allowed, streaks, settled>>

\* Disk, heat, power, page-outs: a reading that is bad or that fails.
ReadGauges ==
    /\ Watch("gauges", "judge")
    /\ \E bad \in BOOLEAN :
          /\ rows' = [rows EXCEPT !.hard = @ \/ bad]
          /\ dirty' = (dirty \/ bad)
    /\ UNCHANGED <<sentinel, allowed, streaks, inRow, settled, excuse>>

\* ForeignProcTracker.update()
Streaks == [p \in Strangers |-> IF p \notin rows.users THEN 0
                                ELSE IF streaks[p] < Required THEN streaks[p] + 1 ELSE Required]
Confirmed(streak) == {p \in rows.users : p \in rows.spikes \/ streak[p] >= Required}

\* The verdict goes into the watchdog's own file first.
JudgeSample ==
    /\ LET found == rows.hard \/ Confirmed(Streaks) # {}
       IN  Watch("judge", IF found THEN "sentinel" ELSE "sleep")
    /\ streaks' = Streaks
    /\ rows' = Clean
    /\ UNCHANGED <<sentinel, allowed, inRow, dirty, settled, excuse>>

WriteSentinel ==
    /\ Watch("sentinel", "stopped")
    /\ sentinel' = TRUE
    /\ UNCHANGED <<allowed, rows, streaks, inRow, dirty, settled, excuse>>

WakeUp ==
    /\ Watch("sleep", "top")
    /\ UNCHANGED <<sentinel, allowed, rows, streaks, inRow, dirty, settled, excuse>>

\* Killed, or an exception such as a full disk.
DogDies ==
    /\ watchdog \in Live /\ watchdog' = "dead"
    /\ UNCHANGED <<driver, group, allowlist, sentinel, watch, history>>

CampaignStep ==
    \/ StartWatchdog \/ PhaseEnds \/ AbortPhase \/ NextTrial
    \/ Launch \/ Own \/ Allow \/ TrialOver \/ Disallow \/ Disown
CleanupStep == StopDog \/ DogGone \/ Cancel \/ ReleaseLock \/ Report
WatchStep ==
    \/ Top \/ ReadAllowlist \/ ReadProcesses \/ ReadGauges
    \/ JudgeSample \/ WriteSentinel \/ WakeUp

CampaignNext ==
    \/ CampaignStep \/ CleanupStep \/ Signal \/ Kill
    \/ \E t \in Trials : TrialMoves(t)
    \/ WatchStep \/ DogDies

CampaignSpec == CampaignInit /\ [][CampaignNext]_campaignVars
\* Each process is scheduled, and each command of the watchdog has a timeout.
FairCampaign == CampaignSpec /\ WF_campaignVars(CleanupStep) /\ WF_campaignVars(WatchStep)
-----------------------------------------------------------------------------
(* Properties *)

\* A run reported as clean was clean in every sample that its watchdog finished,
\* the one in progress when the cleanup stopped it included: neither the order
\* of verdict, sentinel and exit, nor a cleanup that overtakes a sample, nor two
\* strangers that take turns hide what the watchdog saw.  (A watchdog that dies
\* leaves no trace the driver looks for.)
CleanMeansClean == end = "clean" /\ watchdog # "dead" => ~ dirty

\* The campaign does not invalidate itself: while the driver waits for a listed
\* trial, no sample takes that trial for a stranger.  (A sample that straddles the
\* launch or the end of a trial may.)
NoFalseAlarm == watchdog # "none" /\ sentinel => dirty \/ excuse

\* The lock outlasts the trials: once it has been given up, no trial in flight is left,
\* unless the signal came before its group was noted, or nothing could kill it.
LockCoversTrials == ~ locked => \A t \in Trials : group[t] = "alive" => t \in astray

\* A cleanup comes to its end, the wait for the watchdog included, and a watchdog
\* whose driver is gone, killed or cut short in its cleanup, does not go on sampling.
EveryoneStops == (d = "stop" ~> d = "done") /\ (d = "done" ~> watchdog \notin Live)
=============================================================================
