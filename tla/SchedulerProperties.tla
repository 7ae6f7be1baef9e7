------------------------ MODULE SchedulerProperties ------------------------
(***************************************************************************)
(* What the wired scheduler keeps, and what its documents say of it.       *)
(***************************************************************************)
EXTENDS Scheduler

\* The machine and the runner agree: BACKUP_RUNNING exactly while a backup
\* is awaited, and the one awaited is the one the machine decided on.  A
\* second backup is therefore never started next to the first, and no
\* outcome is reported to a machine that has moved on.
RunnerInStep ==
    /\ state = "BACKUP_RUNNING" <=> running # NoBackup
    /\ pendingBackup = running

\* The first automatic backup of a session starts no sooner than a grace
\* period after the layout was ready, and a quiet period after the last event
\* the machine heard of before READY (docs/XDD/.../requirements.md:119).  Named
\* out: an event heard in READY or ERROR postpones nothing, and a command, or
\* the adoption that ends a block, waives the wait for the session.
QuietRespected ==
    [][TickStep /\ running' # NoBackup /\ layoutAt # NoTime =>
           /\ clock - layoutAt >= Grace
           /\ activityAt # NoTime => clock - activityAt >= Quiet]_vars

\* A lock set for a vault-id mismatch only opens when the user adopts the
\* remote id (or the plugin is reloaded): no tick, timer, event or command
\* leaves BLOCKED.
BlockedUntilAdopted ==
    [][state = "BLOCKED" => state' = "BLOCKED" \/ Adopt \/ Unload]_vars

\* The slots of the schedule, stated independently of its code: a weekday of
\* every week, the first of every month, or every second week from the day
\* of the last full.
IsWeekday(t) == t % Week = FullDay * Day + FullTime
IsSlot(t) ==
    CASE Cadence = "weekly"   -> IsWeekday(t)
      [] Cadence = "monthly"  -> IsWeekday(t) /\ DayOf(t) % DaysPerMonth < DaysPerWeek
      [] Cadence = "biweekly" ->
            /\ t % Day = FullTime
            /\ (DayOf(t) - DayOf(lastFull)) % (2 * DaysPerWeek) = 0
SlotsSince(t) == {s \in (t + 1)..clock : IsSlot(s)}
IdleTick == TickStep /\ running' = NoBackup

\* A tick that starts nothing leaves no slot behind: every slot since the
\* last full was served, was slept through and is caught up, or falls under
\* one of the two exceptions of isScheduledFullOverdue (a skipped cycle, a
\* full within the preflight lead).
ExceptionApplies ==
    skippedCycle # NoTime \/ NextFullAfter(lastFull) - lastFull <= Lead
NoSlotLeftBehind ==
    [][IdleTick /\ lastFull # NoTime /\ ~ExceptionApplies =>
           SlotsSince(lastFull) = {}]_vars

Healthy == loaded /\ ~mismatch /\ ~revoked

\* Once the plugin stays healthy, every pending event is backed up, however
\* many attempts fail before.
EditsBackedUp == <>[]Healthy => <>[](pendingAt = {})

\* ... and every catch-up is run.
CatchupRuns == <>[]Healthy => []<>~catchupPending
=============================================================================
