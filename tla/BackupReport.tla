---------------------------- MODULE BackupReport ----------------------------
(***************************************************************************)
(* Whether backups ran: each host's systemd timers, the console agent that *)
(* reads them (console/agent), and the report the console makes of the     *)
(* agents' answers (console/server, sources.ts).                           *)
(***************************************************************************)
EXTENDS Naturals, Integers, FiniteSets, FiniteSetsExt

CONSTANTS
    Jobs,        \* backup jobs, each on one host
    HostOf,      \* job -> host
    Interval,    \* job -> the cadence of its timer
    Listed,      \* the jobs EXPECTED_INTERVAL_HOURS lists, with that cadence
    Grace,       \* how much later than the cadence a job is overdue
    Missing,     \* stands for a null field
    MaxClock,    \* the clock stops
    MaxTroubles  \* timers stopped, runs that hang, agents that do not answer

ASSUME MissingAssumption == Missing \notin Nat \cup {"success", "exit-code"}
ASSUME BackupAssumption ==
    /\ {Grace, MaxClock, MaxTroubles} \subseteq Nat
    /\ Listed \subseteq Jobs /\ \A j \in Jobs : Interval[j] \in Nat

Hosts == {HostOf[j] : j \in Jobs}

VARIABLES
    clock,       \* hours
    enabled,     \* timers that fire
    run,         \* job -> its service: none, running, manual (started by hand and
                 \* not joined by its timer yet), success, failed
    lastTrigger, \* job -> the timer's last trigger
    lastExit,    \* job -> when the service last ended, unless it runs
    lastSuccess, \* job -> when a run last ended well, which no report has
    mute,        \* jobs of which systemctl show tells nothing
    down,        \* hosts whose agent does not answer
    troubles

backupVars ==
    <<clock, enabled, run, lastTrigger, lastExit, lastSuccess, mute, down, troubles>>

Trouble == troubles < MaxTroubles /\ troubles' = troubles + 1

Runs(j) == run[j] \in {"running", "manual"}

\* A timer fires on its cadence, first a cadence after its installation, unless the
\* run it started goes on; a run started by hand it only joins.
Due(j) ==
    /\ j \in enabled /\ run[j] # "running"
    /\ clock - (IF lastTrigger[j] = Missing THEN 0 ELSE lastTrigger[j]) >= Interval[j]
Fire(j) ==
    /\ Due(j)
    /\ lastTrigger' = [lastTrigger EXCEPT ![j] = clock]
    /\ run' = [run EXCEPT ![j] = "running"]
    /\ lastExit' = [lastExit EXCEPT ![j] = Missing]
    /\ UNCHANGED <<clock, enabled, lastSuccess, mute, down, troubles>>

\* systemctl start.
StartByHand(j) ==
    /\ ~Runs(j)
    /\ run' = [run EXCEPT ![j] = "manual"]
    /\ lastExit' = [lastExit EXCEPT ![j] = Missing]
    /\ UNCHANGED <<clock, enabled, lastTrigger, lastSuccess, mute, down, troubles>>

EndsWell(j) ==
    /\ Runs(j) /\ run' = [run EXCEPT ![j] = "success"]
    /\ lastExit' = [lastExit EXCEPT ![j] = clock]
    /\ lastSuccess' = [lastSuccess EXCEPT ![j] = clock]
    /\ UNCHANGED <<clock, enabled, lastTrigger, mute, down, troubles>>
EndsBadly(j) ==
    /\ Runs(j) /\ run' = [run EXCEPT ![j] = "failed"]
    /\ lastExit' = [lastExit EXCEPT ![j] = clock]
    /\ Trouble /\ UNCHANGED <<clock, enabled, lastTrigger, lastSuccess, mute, down>>

\* Somebody disables a timer; systemctl show fails or an agent stops answering.
StopTimer(j) ==
    /\ j \in enabled /\ enabled' = enabled \ {j}
    /\ Trouble /\ UNCHANGED <<clock, run, lastTrigger, lastExit, lastSuccess, mute, down>>
ShowFails(j) ==
    /\ j \notin mute /\ mute' = mute \cup {j}
    /\ Trouble /\ UNCHANGED <<clock, enabled, run, lastTrigger, lastExit, lastSuccess, down>>
HostDown(h) ==
    /\ h \notin down /\ down' = down \cup {h}
    /\ Trouble /\ UNCHANGED <<clock, enabled, run, lastTrigger, lastExit, lastSuccess, mute>>

\* A timer that is due fires before the clock goes on; a run may last hours.
Hour ==
    /\ clock < MaxClock /\ clock' = clock + 1
    /\ \A j \in Jobs : ~Due(j)
    /\ UNCHANGED <<enabled, run, lastTrigger, lastExit, lastSuccess, mute, down, troubles>>

-----------------------------------------------------------------------------
(* The agent and the reports *)

\* systemctl show: Result is success while a run is on its way and before the first.
Result(j) ==
    IF j \in mute THEN Missing ELSE IF run[j] = "failed" THEN "exit-code" ELSE "success"
\* t.last ?? serviceLastRun.
LastRun(j) ==
    IF lastTrigger[j] # Missing \/ j \in mute THEN lastTrigger[j] ELSE lastExit[j]
\* listTimers: what the agent tells of a job.
Timer(j) == [job |-> j, lastRun |-> LastRun(j), result |-> Result(j)]

\* getBackups: the agents that answer; it throws when none does.
Reachable == Hosts \ down
Reported == {Timer(j) : j \in {k \in Jobs : HostOf[k] \in Reachable}}

Age(t) == clock - t.lastRun
Failed(t) == t.result \notin {Missing, "success"}
\* Called overdue only if it also failed (mutant).
OverdueIfFailed(t) == t.lastRun # Missing /\ Failed(t)
\* classify: expectedIntervalHours * OVERDUE_GRACE, and not failed.
Overdue(t) ==
    /\ t.job \in Listed /\ ~Failed(t)
    /\ Age(t) > Interval[t.job] + Grace
Health(t) ==
    IF t.lastRun = Missing THEN "never"
    ELSE IF Failed(t) THEN "failed"
    ELSE IF Overdue(t) THEN "overdue"
    ELSE IF t.result = "success" THEN "ok" ELSE "unknown"

-----------------------------------------------------------------------------
BackupInit ==
    /\ clock = 0 /\ enabled = Jobs /\ mute = {} /\ down = {} /\ troubles = 0
    /\ run = [j \in Jobs |-> "none"]
    /\ lastTrigger = [j \in Jobs |-> Missing]
    /\ lastExit = [j \in Jobs |-> Missing]
    /\ lastSuccess = [j \in Jobs |-> Missing]

BackupNext ==
    \/ \E j \in Jobs : Fire(j) \/ StartByHand(j) \/ EndsWell(j) \/ EndsBadly(j)
                     \/ StopTimer(j) \/ ShowFails(j)
    \/ \E h \in Hosts : HostDown(h)
    \/ Hour
BackupSpec == BackupInit /\ [][BackupNext]_backupVars

-----------------------------------------------------------------------------
\* A listed job of a host that answers shows as ok only if its last run ended well
\* no longer ago than its cadence and the grace, or a run started within them is
\* still on its way: a timer somebody stopped, a run that hangs and a run that
\* failed all show in the end ("a silently-stopped backup is the dangerous failure
\* mode", sources.ts:210-211), although the report has the trigger of a run and
\* not its end.
OkMeansRecent ==
    \A t \in Reported :
        Health(t) = "ok" /\ t.job \in Listed =>
            LET since == IF Runs(t.job) THEN lastTrigger[t.job] ELSE lastSuccess[t.job]
            IN  since # Missing /\ clock - since <= Interval[t.job] + Grace
=============================================================================
