-------------------------- MODULE Scheduler_proofs --------------------------
(***************************************************************************)
(* The wired scheduler for every schedule, every length of the periods and *)
(* every bound: machine and runner stay in step, no timer is left over,    *)
(* the quiet period is waited for.                                         *)
(***************************************************************************)
EXTENDS SchedulerProperties, SchedulerFSM_proofs

(***************************************************************************)
(* Machine and runner.                                                     *)
(***************************************************************************)
LEMMA BackupsStart ==
    /\ Inc # NoBackup /\ \A reason : Full(reason) # NoBackup
    /\ \A scheduled, catchup :
           TickStarts(scheduled, catchup) \in {NoBackup, Inc, Full("scheduled"),
                                               Full("catchup")}
BY DEF Inc, NoBackup, Full, TickStarts

\* The runner awaits exactly what the machine decided on (the state observer
\* of main.ts, transition, onBackupSuccess/Failure/Blocked).
THEOREM RunnerInStepHolds == Spec => []RunnerInStep
<1>1. Init => RunnerInStep
  BY DEF Init, FsmInit, RunnerInStep
<1>2. RunnerInStep /\ [Next]_vars => RunnerInStep'
  <2> SUFFICES ASSUME RunnerInStep, [Next]_vars PROVE RunnerInStep'
    OBVIOUS
  <2>0. ASSUME UNCHANGED <<state, pendingBackup, running>> PROVE RunnerInStep'
    BY <2>0 DEF RunnerInStep
  <2>1. CASE Advance \/ VaultEvent \/ EventSaved \/ LayoutReady \/ Timers
    <3>1. CASE Advance \/ VaultEvent
      BY <2>0, <3>1 DEF Advance, VaultEvent, fsm, runner
    <3>2. CASE EventSaved
      BY <2>0, <3>2 DEF EventSaved, OnVaultEvent, runner
    <3>3. CASE LayoutReady
      BY <3>3 DEF LayoutReady, OnLayoutReady, EnterLayout, runner, RunnerInStep
    <3>4. CASE Timers
      BY <3>4 DEF Timers, GraceTimerFires, QuietTimerFires, runner, RunnerInStep
    <3> QED BY <2>1, <3>1, <3>2, <3>3, <3>4
  <2>2. CASE TickStep
    BY <2>2, BackupsStart DEF TickStep, Tick, CanTick, Launch, RunnerInStep
  <2>3. CASE BackupNow
    BY <2>3, BackupsStart DEF BackupNow, TriggerBackupNow, Launch, RunnerInStep
  <2>4. CASE \/ \E button \in Buttons : Click(button)
             \/ Expire
    BY <2>0, <2>4, WiringAssumption
       DEF Click, Expire, StartNow, Postpone1h, Skip, NoticeExpires, runner
  <2>5. CASE RunEnds \/ RunCommitsThenFails \/ RunFails
    BY <2>5 DEF RunEnds, RunSucceeds, RunRevoked, RunBlocked,
                RunCommitsThenFails, RunFails, RunEnded, Committed,
                OnBackupSuccess, OnBackupFailure, OnBackupBlocked, BackupEnds,
                RunnerInStep
  <2>6. CASE MismatchAppears \/ TokenRevoked \/ OrphanCommits \/ Load
    BY <2>0, <2>6 DEF MismatchAppears, TokenRevoked, OrphanCommits, Load, fsm,
                      runner
  <2>7. CASE ProbeAnswers
    BY <2>7 DEF ProbeAnswers, SetBlocked, fsm, runner, RunnerInStep
  <2>8. CASE Adopt
    BY <2>8 DEF Adopt, ClearBlock, runner, RunnerInStep
  <2>9. CASE Unload
    BY <2>9 DEF Unload, RunnerInStep
  <2>10. CASE UNCHANGED vars
    BY <2>0, <2>10 DEF vars, fsm, runner
  <2> QED
    BY <2>1, <2>2, <2>3, <2>4, <2>5, <2>6, <2>7, <2>8, <2>9, <2>10 DEF Next
<1> QED BY <1>1, <1>2, PTL DEF Spec

(***************************************************************************)
(* Timers.                                                                 *)
(***************************************************************************)
THEOREM TimersMatchStateHolds == Spec => []TimersMatchState
<1>1. Init => TimersMatchState
  BY DEF Init, FsmInit, TimersMatchState
<1>2. TimersMatchState /\ [Next]_vars => TimersMatchState'
  <2> SUFFICES ASSUME TimersMatchState, [Next]_vars PROVE TimersMatchState'
    OBVIOUS
  <2>0. ASSUME UNCHANGED <<state, graceTimer, quietTimer>> PROVE TimersMatchState'
    BY <2>0 DEF TimersMatchState
  <2>1. CASE \/ Advance \/ VaultEvent \/ MismatchAppears \/ TokenRevoked
             \/ OrphanCommits \/ Load \/ UNCHANGED vars
    BY <2>0, <2>1 DEF Advance, VaultEvent, MismatchAppears, TokenRevoked,
                      OrphanCommits, Load, vars, fsm, timers
  <2>2. CASE EventSaved \/ LayoutReady \/ Timers \/ TickStep \/ BackupNow
    BY <2>2, MethodsKeepTimers, WiringAssumption
       DEF EventSaved, LayoutReady, Timers, TickStep, BackupNow
  <2>3. CASE (\E button \in Buttons : Click(button)) \/ Expire
    BY <2>3, MethodsKeepTimers, WiringAssumption DEF Click, Expire
  <2>4. CASE RunEnds \/ RunCommitsThenFails \/ RunFails
    BY <2>4, MethodsKeepTimers
       DEF RunEnds, RunSucceeds, RunRevoked, RunBlocked, RunCommitsThenFails,
           RunFails
  <2>5. CASE ProbeAnswers
    BY <2>0, <2>5, MethodsKeepTimers DEF ProbeAnswers, fsm, timers
  <2>6. CASE Adopt
    BY <2>6, MethodsKeepTimers DEF Adopt
  <2>7. CASE Unload
    BY <2>7 DEF Unload, ClearTimers, TimersMatchState
  <2> QED
    BY <2>1, <2>2, <2>3, <2>4, <2>5, <2>6, <2>7 DEF Next
<1> QED BY <1>1, <1>2, PTL DEF Spec

(***************************************************************************)
(* The quiet period.                                                       *)
(***************************************************************************)
\* Why the wait is over when a tick starts the first backup: the quiet timer
\* runs from the last event heard of, and was started when the grace period
\* was over; nothing else leads from the wait to a state that ticks, unless
\* the wait was waived.
QuietInv ==
    /\ clock \in Nat
    /\ layoutAt # NoTime => layoutAt \in Nat
    /\ activityAt # NoTime => activityAt \in Nat /\ activityAt <= clock
    /\ state \in {"GRACE", "QUIET_WAIT"} => laidOut
    /\ state = "GRACE" /\ graceTimer # NoTime =>
           /\ graceTimer \in Nat
           /\ layoutAt # NoTime => graceTimer >= layoutAt + Grace
    /\ state = "QUIET_WAIT" /\ layoutAt # NoTime => clock >= layoutAt + Grace
    /\ state = "QUIET_WAIT" /\ quietTimer # NoTime =>
           /\ quietTimer \in Nat
           /\ activityAt # NoTime => activityAt + Quiet <= quietTimer
    /\ state \in {"READY", "ERROR"} /\ layoutAt # NoTime =>
           /\ clock >= layoutAt + Grace
           /\ activityAt # NoTime => clock >= activityAt + Quiet
    /\ state = "BACKUP_RUNNING" => layoutAt = NoTime

LEMMA Periods == Grace \in Nat /\ Quiet \in Nat
BY SchedulerAssumption

LEMMA QuietInvInitially == Init => QuietInv
BY DEF Init, FsmInit, QuietInv

\* A step that leaves the variables QuietInv is about alone, or enters a
\* state in which nothing is waited for.
LEMMA QuietInvFrame ==
    ASSUME QuietInv, UNCHANGED clock,
           UNCHANGED ghosts \/ NoMoreWait,
           \/ state' \in States \ {"GRACE", "QUIET_WAIT", "READY", "ERROR",
                                   "BACKUP_RUNNING"}
           \/ UNCHANGED <<state, graceTimer, quietTimer, laidOut>>
    PROVE  QuietInv'
BY DEF QuietInv, ghosts, NoMoreWait

LEMMA QuietInvKept == QuietInv /\ [Next]_vars => QuietInv'
<1> SUFFICES ASSUME QuietInv, [Next]_vars PROVE QuietInv'
  OBVIOUS
<1>1. CASE Advance
  <2>1. PICK d \in Steps : clock' = clock + d
    BY <1>1 DEF Advance
  <2>2. d \in Nat
    BY WiringAssumption
  <2>3. UNCHANGED <<state, graceTimer, quietTimer, laidOut, layoutAt, activityAt>>
    BY <1>1 DEF Advance, fsm, timers, session, ghosts
  <2> QED BY <2>1, <2>2, <2>3, Periods DEF QuietInv
<1>2. CASE EventSaved
  <2>1. UNCHANGED <<state, graceTimer, clock, laidOut, layoutAt>>
    BY <1>2 DEF EventSaved, OnVaultEvent, deps
  <2>2. CASE state = "QUIET_WAIT"
    <3>1. quietTimer' = clock + Quiet /\ activityAt' = clock
      BY <1>2, <2>2 DEF EventSaved, OnVaultEvent, ResetQuietTimer, Settling
    <3> QED BY <2>1, <2>2, <3>1, FullScheduleAssumption, Periods DEF QuietInv
  <2>3. CASE state # "QUIET_WAIT"
    <3>1. activityAt' = clock \/ UNCHANGED activityAt
      BY <1>2 DEF EventSaved
    <3>2. state \in {"READY", "ERROR"} => UNCHANGED activityAt
      BY <1>2 DEF EventSaved, Settling
    <3> QED BY <2>1, <2>3, <3>1, <3>2 DEF QuietInv
  <2> QED BY <2>2, <2>3
<1>3. CASE LayoutReady
  <2>1. ~laidOut /\ laidOut' /\ UNCHANGED <<clock, activityAt>>
    BY <1>3 DEF LayoutReady, deps
  <2>2. state \notin {"GRACE", "QUIET_WAIT"}
    BY <2>1 DEF QuietInv
  <2>3. CASE state' = "GRACE"
    <3>1. layoutAt' = clock /\ graceTimer' = clock + Grace
      BY <1>3, <2>2, <2>3 DEF LayoutReady, OnLayoutReady, EnterLayout
    <3> QED BY <2>1, <2>3, <3>1, Periods DEF QuietInv
  <2>4. CASE state' # "GRACE"
    <3>1. UNCHANGED layoutAt /\ (state' = state \/ state' = "PASSIVE")
      BY <1>3, <2>4 DEF LayoutReady, OnLayoutReady, EnterLayout
    <3> QED BY <2>1, <2>2, <3>1 DEF QuietInv
  <2> QED BY <2>3, <2>4
<1>4. CASE Timers
  <2>1. UNCHANGED <<clock, laidOut, layoutAt, activityAt>>
    BY <1>4 DEF Timers, deps, session, ghosts
  <2>2. CASE GraceTimerFires /\ state = "GRACE"
    <3>1. /\ state' = "QUIET_WAIT" /\ quietTimer' = clock + Quiet
          /\ graceTimer # NoTime /\ clock >= graceTimer
      BY <2>2 DEF GraceTimerFires, ResetQuietTimer
    <3> QED BY <2>1, <2>2, <3>1, Periods DEF QuietInv
  <2>3. CASE GraceTimerFires /\ state # "GRACE"
    <3>1. UNCHANGED <<state, quietTimer>>
      BY <2>3 DEF GraceTimerFires
    <3> QED BY <2>1, <2>3, <3>1 DEF QuietInv
  <2>4. CASE QuietTimerFires
    <3>1. /\ quietTimer # NoTime /\ clock >= quietTimer
          /\ quietTimer' = NoTime /\ UNCHANGED graceTimer
          /\ state' = IF state = "QUIET_WAIT" THEN "READY" ELSE state
      BY <2>4 DEF QuietTimerFires
    <3>2. CASE state = "QUIET_WAIT"
      BY <2>1, <3>1, <3>2, Periods DEF QuietInv
    <3>3. CASE state # "QUIET_WAIT"
      BY <2>1, <3>1, <3>3 DEF QuietInv
    <3> QED BY <3>2, <3>3
  <2> QED BY <1>4, <2>2, <2>3, <2>4 DEF Timers
<1>5. CASE TickStep \/ BackupNow
  <2>1. UNCHANGED clock
    BY <1>5 DEF TickStep, BackupNow, deps
  <2>2. CASE state' = "BACKUP_RUNNING" /\ state # "BACKUP_RUNNING"
    <3>1. NoMoreWait
      BY <1>5, <2>2 DEF TickStep, BackupNow, Launch
    <3> QED BY <2>1, <2>2, <3>1 DEF QuietInv, NoMoreWait
  <2>3. CASE ~(state' = "BACKUP_RUNNING" /\ state # "BACKUP_RUNNING")
    <3>1. TickStep /\ UNCHANGED <<state, timers>>
      BY <1>5, <2>3 DEF TickStep, BackupNow, Tick, TriggerBackupNow
    <3>2. UNCHANGED ghosts /\ UNCHANGED laidOut
      BY <2>3, <3>1 DEF TickStep, Launch, session
    <3> QED BY <2>1, <3>1, <3>2, QuietInvFrame DEF timers
  <2> QED BY <2>2, <2>3
<1>6. CASE (\E button \in Buttons : Click(button)) \/ Expire
  BY <1>6, QuietInvFrame, WiringAssumption
     DEF Click, Expire, StartNow, Postpone1h, Skip, NoticeExpires, timers, deps,
         session
<1>7. CASE RunEnds \/ RunCommitsThenFails \/ RunFails
  <2>1. UNCHANGED <<clock, activityAt, laidOut, layoutAt, graceTimer, quietTimer>>
    BY <1>7 DEF RunEnds, RunSucceeds, RunRevoked, RunBlocked,
                RunCommitsThenFails, RunFails, OnBackupSuccess, OnBackupFailure,
                OnBackupBlocked, BackupEnds, deps, session, ghosts, timers
  <2>2. \/ state = "BACKUP_RUNNING" /\ state' \in {"READY", "ERROR", "BLOCKED"}
        \/ state' = state
    BY <1>7 DEF RunEnds, RunSucceeds, RunRevoked, RunBlocked,
                RunCommitsThenFails, RunFails, OnBackupSuccess, OnBackupFailure,
                OnBackupBlocked, BackupEnds
  <2> QED BY <2>1, <2>2 DEF QuietInv
<1>8. CASE \/ VaultEvent \/ MismatchAppears \/ TokenRevoked \/ OrphanCommits
           \/ Load \/ UNCHANGED vars
  BY <1>8, QuietInvFrame
     DEF VaultEvent, MismatchAppears, TokenRevoked, OrphanCommits, Load, vars,
         fsm, timers, deps, session
<1>9. CASE ProbeAnswers
  BY <1>9, QuietInvFrame
     DEF ProbeAnswers, SetBlocked, fsm, timers, deps, States
<1>10. CASE Adopt
  <2>1. UNCHANGED <<clock, timers, laidOut>>
    BY <1>10 DEF Adopt, ClearBlock, deps, session
  <2>2. CASE state = "BLOCKED"
    <3>1. NoMoreWait /\ state' = "READY"
      BY <1>10, <2>2 DEF Adopt, ClearBlock
    <3> QED BY <2>1, <3>1 DEF QuietInv, NoMoreWait, timers
  <2>3. CASE state # "BLOCKED"
    <3>1. UNCHANGED <<state, ghosts>>
      BY <1>10, <2>3 DEF Adopt, ClearBlock
    <3> QED BY <2>1, <3>1, QuietInvFrame DEF timers
  <2> QED BY <2>2, <2>3
<1>11. CASE Unload
  BY <1>11, QuietInvFrame DEF Unload, deps, States
<1> QED
  BY <1>1, <1>2, <1>3, <1>4, <1>5, <1>6, <1>7, <1>8, <1>9, <1>10, <1>11 DEF Next

\* The first automatic backup of a session waits for the grace period and
\* for a quiet period after the last event the machine heard of before READY,
\* unless the user waives the wait (enterGrace, enterQuietWait,
\* resetQuietTimer, onVaultEvent, tick, triggerBackupNow, clearBlock).
THEOREM QuietIsRespected == Spec => QuietRespected
<1> DEFINE Waited ==
        TickStep /\ running' # NoBackup /\ layoutAt # NoTime =>
            /\ clock - layoutAt >= Grace
            /\ activityAt # NoTime => clock - activityAt >= Quiet
<1>1. QuietInv /\ [Next]_vars => [Waited]_vars
  <2> SUFFICES ASSUME QuietInv, TickStep, layoutAt # NoTime
               PROVE  /\ clock - layoutAt >= Grace
                      /\ activityAt # NoTime => clock - activityAt >= Quiet
    OBVIOUS
  <2>1. state \in {"READY", "ERROR"}
    BY DEF TickStep, Tick, CanTick
  <2> QED BY <2>1, Periods DEF QuietInv
<1> QED BY <1>1, QuietInvInitially, QuietInvKept, PTL DEF Spec, QuietRespected

(***************************************************************************)
(* The lock.                                                               *)
(***************************************************************************)
\* No tick, timer, event, command or outcome leaves BLOCKED (the guards of
\* tick, triggerBackupNow, setBlocked and of the outcomes).
THEOREM BlockHolds == Spec => BlockedUntilAdopted
<1>1. ASSUME [Next]_vars, state = "BLOCKED"
      PROVE  state' = "BLOCKED" \/ Adopt \/ Unload
  <2> USE <1>1
  <2>1. CASE \/ Advance \/ VaultEvent \/ MismatchAppears \/ TokenRevoked
             \/ OrphanCommits \/ Load \/ UNCHANGED vars
    BY <2>1 DEF Advance, VaultEvent, MismatchAppears, TokenRevoked,
                OrphanCommits, Load, vars, fsm
  <2>2. CASE EventSaved \/ LayoutReady \/ Timers
    BY <2>2 DEF EventSaved, OnVaultEvent, LayoutReady, OnLayoutReady,
                EnterLayout, Timers, GraceTimerFires, QuietTimerFires
  <2>3. CASE TickStep \/ BackupNow
    BY <2>3 DEF TickStep, Tick, CanTick, BackupNow, TriggerBackupNow
  <2>4. CASE (\E button \in Buttons : Click(button)) \/ Expire
    BY <2>4, WiringAssumption
       DEF Click, StartNow, Postpone1h, Skip, Expire, NoticeExpires
  <2>5. CASE RunEnds \/ RunCommitsThenFails \/ RunFails
    BY <2>5 DEF RunEnds, RunSucceeds, RunRevoked, RunBlocked,
                RunCommitsThenFails, RunFails, OnBackupSuccess,
                OnBackupFailure, OnBackupBlocked, BackupEnds
  <2>6. CASE ProbeAnswers
    BY <2>6 DEF ProbeAnswers, SetBlocked, fsm
  <2> QED BY <2>1, <2>2, <2>3, <2>4, <2>5, <2>6 DEF Next
<1>2. [Next]_vars => [state = "BLOCKED" => state' = "BLOCKED" \/ Adopt \/ Unload]_vars
  BY <1>1
<1> QED BY <1>2, PTL DEF Spec, BlockedUntilAdopted

(***************************************************************************)
(* The slots of the schedule.                                              *)
(***************************************************************************)
\* The instants the scheduler keeps are instants.
Instants == clock \in Nat /\ {lastFull, fullOnDisk, startedAt, orphan} \subseteq Times

LEMMA InstantsKept == Instants /\ [Next]_vars => Instants'
<1> SUFFICES ASSUME Instants, [Next]_vars PROVE Instants'
  OBVIOUS
<1>0. /\ clock \in Nat /\ clock \in Times /\ NoTime \in Times
      /\ lastFull \in Times /\ fullOnDisk \in Times /\ startedAt \in Times /\ orphan \in Times
  BY DEF Instants, Times
<1>1. CASE Advance
  <2>1. clock' \in Nat /\ UNCHANGED <<lastFull, runner>>
    BY <1>0, <1>1, WiringAssumption DEF Advance
  <2> QED BY <1>0, <2>1 DEF Instants, runner
<1>2. CASE \/ VaultEvent \/ EventSaved \/ LayoutReady \/ Timers \/ Expire
           \/ (\E button \in Buttons : Click(button))
           \/ MismatchAppears \/ ProbeAnswers \/ Adopt \/ TokenRevoked \/ UNCHANGED vars
  <2>1. UNCHANGED <<clock, lastFull, runner>>
    BY <1>2 DEF VaultEvent, EventSaved, LayoutReady, Timers, Expire, Click, MismatchAppears,
                ProbeAnswers, Adopt, TokenRevoked, deps, vars
  <2> QED BY <1>0, <2>1 DEF Instants, runner
<1>3. CASE TickStep \/ BackupNow
  <2>1. UNCHANGED <<clock, lastFull, fullOnDisk, orphan>> /\ startedAt' \in {startedAt, clock}
    BY <1>3 DEF TickStep, BackupNow, Launch, deps
  <2> QED BY <1>0, <2>1 DEF Instants
<1>4. CASE RunSucceeds \/ RunCommitsThenFails
  <2>1. /\ UNCHANGED <<clock, orphan>> /\ startedAt' = NoTime
        /\ fullOnDisk' \in {fullOnDisk, startedAt} /\ lastFull' \in {lastFull, clock}
    BY <1>4 DEF RunSucceeds, RunCommitsThenFails, Committed
  <2> QED BY <1>0, <2>1 DEF Instants
<1>5. CASE RunFails \/ RunRevoked \/ RunBlocked
  <2>1. UNCHANGED <<clock, lastFull, fullOnDisk, orphan>> /\ startedAt' = NoTime
    BY <1>5 DEF RunFails, RunRevoked, RunBlocked, RunEnded, deps
  <2> QED BY <1>0, <2>1 DEF Instants
<1>6. CASE Unload \/ OrphanCommits \/ Load
  <2>1. /\ clock' = clock /\ lastFull' \in {lastFull, fullOnDisk}
        /\ fullOnDisk' \in {fullOnDisk, orphan} /\ orphan' \in {orphan, startedAt, NoTime}
        /\ startedAt' \in {startedAt, NoTime}
    BY <1>6 DEF Unload, OrphanCommits, Load, deps, runner
  <2> QED BY <1>0, <2>1 DEF Instants
<1> QED BY <1>1, <1>2, <1>3, <1>4, <1>5, <1>6 DEF Next, RunEnds

\* The two ways to say what a weekly slot is.
LEMMA SlotsOfTheWeek ==
    ASSUME NEW t \in Nat, IsWeekday(t)
    PROVE  OnWeekday(t)
<1> DEFINE w == t \div Week
           day == DaysPerWeek * w + FullDay
<1>1. Week \in Nat \ {0}
  BY Calendar DEF Week
<1>2. w \in Nat /\ t = Week * w + (FullDay * Day + FullTime)
  BY <1>1, Splits DEF IsWeekday
<1> HIDE DEF w
<1>3. day \in Nat /\ t = SlotOn(day)
  <2>1. /\ DaysPerWeek * w \in Nat /\ Week * w = (DaysPerWeek * w) * Day
    BY <1>2, Calendar DEF Week
  <2> DEFINE d == DaysPerWeek * w
  <2>2. d \in Nat /\ Week * w = d * Day
    BY <2>1
  <2> HIDE DEF d
  <2>3. (d + FullDay) * Day = d * Day + FullDay * Day /\ d * Day \in Nat /\ FullDay * Day \in Nat
    BY <2>2, Calendar
  <2>4. d + FullDay \in Nat /\ t = SlotOn(d + FullDay)
    BY <1>2, <2>2, <2>3, Calendar DEF SlotOn
  <2> QED BY <2>4 DEF d
<1>4. day % DaysPerWeek = FullDay
  <2>1. (w * DaysPerWeek + FullDay) % DaysPerWeek = FullDay
    BY <1>2, SameQuotient, Calendar
  <2>2. w * DaysPerWeek = DaysPerWeek * w
    BY <1>2, Calendar
  <2> QED BY <2>1, <2>2
<1> HIDE DEF day
<1> QED BY <1>3, <1>4, SlotOnDay DEF OnWeekday

LEMMA IdleTickMeans ==
    ASSUME IdleTick
    PROVE  ~IsScheduledFullOverdue
<1>1. state \in {"READY", "ERROR"} /\ Tick /\ Launch /\ running' = NoBackup
  BY DEF IdleTick, TickStep, Tick, CanTick
<1> DEFINE swept == ~catchupPending /\ IsScheduledFullOverdue
           catchup == catchupPending \/ swept
           starts == TickStarts(ComputeNextScheduledFullAt, catchup)
<1>2. starts # NoBackup => pendingBackup' = starts /\ state' = "BACKUP_RUNNING"
  BY <1>1 DEF Tick
<1>3. starts = NoBackup
  <2> HIDE DEF starts
  <2> QED BY <1>1, <1>2 DEF Launch
<1>4. ~catchup
  BY <1>3, BackupsStart DEF TickStarts
<1> QED BY <1>4

\* Nothing between the last full and the instant that is computed from it is
\* a slot.
LEMMA NoneBefore ==
    ASSUME lastFull \in Nat, NEW s \in Nat, lastFull <= s, s < NextFullAfter(lastFull)
    PROVE  ~IsSlot(s)
<1>1. CASE Cadence = "weekly"
  <2>1. NextFullAfter(lastFull) = NextWeekly(lastFull)
    BY <1>1 DEF NextFullAfter, NextFullAt
  <2>2. NextWeekly(lastFull) \in Nat /\ \A u \in lastFull..(NextWeekly(lastFull) - 1) : ~OnWeekday(u)
    BY WeeklyIsFirst
  <2>3. ~OnWeekday(s)
    BY <2>1, <2>2
  <2>4. IsSlot(s) <=> IsWeekday(s)
    BY <1>1 DEF IsSlot
  <2> QED BY <2>3, <2>4, SlotsOfTheWeek
<1>2. CASE Cadence = "monthly"
  <2>1. NextFullAfter(lastFull) = NextMonthly(lastFull)
    BY <1>2 DEF NextFullAfter, NextFullAt
  <2>2. NextMonthly(lastFull) \in Nat /\ \A u \in lastFull..(NextMonthly(lastFull) - 1) : ~OnMonth(u)
    BY MonthlyIsFirst
  <2>3. ~OnMonth(s)
    BY <2>1, <2>2
  <2>4. IsSlot(s) <=> IsWeekday(s) /\ DayOf(s) % DaysPerMonth < DaysPerWeek
    BY <1>2 DEF IsSlot
  <2> QED BY <2>3, <2>4, SlotsOfTheWeek DEF OnMonth
<1>3. CASE Cadence = "biweekly"
  <2> DEFINE next == NextBiweekly(lastFull, lastFull)
  <2>1. NextFullAfter(lastFull) = next
    BY <1>3 DEF NextFullAfter, NextFullAt
  <2>2. next \in Nat /\ \A u \in lastFull..(next - 1) : ~OnFortnight(u, lastFull)
    BY BiweeklyIsFirst
  <2> HIDE DEF next
  <2>3. ~OnFortnight(s, lastFull)
    BY <2>1, <2>2
  <2>4. DayOf(s) >= DayOf(lastFull)
    <3>1. /\ DayOf(s) \in Nat /\ s < DayOf(s) * Day + Day
          /\ DayOf(lastFull) \in Nat /\ DayOf(lastFull) * Day <= lastFull
      BY DayOfTime
    <3> DEFINE d == DayOf(s)
               e == DayOf(lastFull)
    <3> HIDE DEF d, e
    <3>2. SUFFICES ASSUME d \in Nat, e \in Nat, s < d * Day + Day, e * Day <= lastFull, d < e
                   PROVE  FALSE
      BY <3>1 DEF d, e
    <3>3. d * Day + Day <= e * Day
      BY <3>2, MoreTimes, Calendar
    <3>4. d * Day \in Nat /\ e * Day \in Nat
      BY <3>2, Calendar
    <3> QED BY <3>2, <3>3, <3>4, Calendar
  <2>5. IsSlot(s) <=> s % Day = FullTime /\ (DayOf(s) - DayOf(lastFull)) % (2 * DaysPerWeek) = 0
    BY <1>3 DEF IsSlot
  <2> QED BY <2>3, <2>4, <2>5 DEF OnFortnight, Fortnight
<1> QED BY <1>1, <1>2, <1>3, SchedulerAssumption DEF Cadences

\* A tick of the schedule that starts nothing leaves no slot behind, for
\* every cadence, every length of the week and the month, and every bound
\* (isScheduledFullOverdue and tick, with the exceptions of a skipped cycle
\* and of the preflight lead).
THEOREM NoSlotIsLeftBehind == Spec => NoSlotLeftBehind
<1>1. Init => Instants
  BY DEF Init, Instants, Times
<1>2. Instants /\ [Next]_vars =>
          [IdleTick /\ lastFull # NoTime /\ ~ExceptionApplies => SlotsSince(lastFull) = {}]_vars
  <2> SUFFICES ASSUME Instants, IdleTick, lastFull # NoTime, ~ExceptionApplies
               PROVE  SlotsSince(lastFull) = {}
    OBVIOUS
  <2>1. clock \in Nat /\ lastFull \in Nat /\ lastFull \in Times
    BY DEF Instants, Times
  <2> DEFINE slot == NextFullAfter(lastFull)
  <2>2. slot \in Nat
    BY <2>1, NextFullIsTime
  <2>3. ~(slot <= clock)
    <3>1. skippedCycle # slot /\ ~(slot - lastFull <= Lead)
      BY <2>2, FullScheduleAssumption DEF ExceptionApplies
    <3>2. slot - lastFull > Lead
      BY <2>1, <2>2, <3>1, SchedulerAssumption
    <3> QED BY <3>1, <3>2, IdleTickMeans DEF IsScheduledFullOverdue
  <2> SUFFICES ASSUME NEW s \in (lastFull + 1)..clock, IsSlot(s) PROVE FALSE
    BY DEF SlotsSince
  <2>4. s \in Nat /\ lastFull <= s /\ s < slot
    <3> HIDE DEF slot
    <3> QED BY <2>1, <2>2, <2>3
  <2> QED BY <2>1, <2>4, NoneBefore
<1> QED BY <1>1, <1>2, InstantsKept, PTL DEF Spec, NoSlotLeftBehind
=============================================================================
