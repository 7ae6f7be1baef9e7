----------------------- MODULE FullScheduleProperties -----------------------
(***************************************************************************)
(* The arithmetic of util/time.ts, as the FSM uses it, against the         *)
(* definition of a slot: the one that is computed is the first to come.    *)
(***************************************************************************)
EXTENDS SchedulerContract

CONSTANTS Horizon   \* bound: how far ahead of the clock it is asked

ASSUME PropertiesAssumption == Horizon \in Nat

AtTime(t) == t % Day = FullTime
Weekly(t) == AtTime(t) /\ DayOf(t) % DaysPerWeek = FullDay
Monthly(t) == Weekly(t) /\ DayOf(t) % DaysPerMonth < DaysPerWeek
Biweekly(t) ==
    /\ AtTime(t) /\ DayOf(t) >= DayOf(lastFull)
    /\ (DayOf(t) - DayOf(lastFull)) % (2 * DaysPerWeek) = 0

IsFirst(t, now, Slot(_)) == t >= now /\ Slot(t) /\ \A u \in now..(t - 1) : ~Slot(u)

\* "Next future occurrence of dayOfWeek at hhmm", this instant included:
\* neither a slot in the past nor the one after the next
\* (nextWeeklyFullAt).  "First occurrence of dayOfWeek at hhmm in the
\* current or next month", also when the first of this month is over
\* (nextMonthlyFullAt).  From the prior full's day in steps of two weeks, to
\* the first that is not over; the tick at the exact instant still sees it
\* (nextBiweeklyFullAt).  Asked for every moment of the months that follow.
SlotsAreFirst ==
    \A now \in clock..(clock + Horizon) :
        /\ IsFirst(NextWeekly(now), now, Weekly)
        /\ IsFirst(NextMonthly(now), now, Monthly)
        /\ lastFull # NoTime =>
              IsFirst(NextBiweekly(now, lastFull), now, Biweekly)
=============================================================================
