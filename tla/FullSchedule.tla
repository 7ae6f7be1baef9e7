---------------------------- MODULE FullSchedule ----------------------------
(***************************************************************************)
(* util/time.ts: when the next scheduled full backup is due.  Time is a    *)
(* natural number of ticks since a midnight that begins a week and a month;*)
(* every day has the same length (no DST) and every month as many days.    *)
(***************************************************************************)
EXTENDS Integers

CONSTANTS Day,          \* ticks in a day
          DaysPerWeek,
          DaysPerMonth,
          FullDay,      \* full_day_of_week
          FullTime,     \* full_time_of_day, in ticks after midnight
          NoTime        \* null

ASSUME FullScheduleAssumption ==
    /\ {Day, DaysPerWeek, DaysPerMonth} \subseteq Nat \ {0}
    /\ DaysPerWeek <= DaysPerMonth
    /\ FullDay \in 0..(DaysPerWeek - 1) /\ FullTime \in 0..(Day - 1)
    /\ NoTime \notin Int

Cadences == {"weekly", "biweekly", "monthly"}
Week == DaysPerWeek * Day

DayOf(t) == t \div Day
AtFullTime(t) == DayOf(t) * Day + FullTime   \* setHours(hours, minutes, 0, 0)
DaysAhead(day) == (FullDay - (day % DaysPerWeek) + DaysPerWeek) % DaysPerWeek

NextWeekly(now) ==
    LET candidate == AtFullTime(now) + DaysAhead(DayOf(now)) * Day
    IN  IF candidate < now THEN candidate + Week ELSE candidate

\* The prior full's day, then every second week.
NextBiweekly(now, lastFull) ==
    LET first == AtFullTime(lastFull)
        rounds == (now - first + 2 * Week - 1) \div (2 * Week)
    IN  IF lastFull = NoTime THEN NextWeekly(now)
        ELSE IF first >= now THEN first
        ELSE first + rounds * 2 * Week

FirstOfMonth(month) ==
    LET first == month * DaysPerMonth
    IN  (first + DaysAhead(first)) * Day + FullTime

\* Mutant: when this month's is over, the next month is not considered.
NextThisMonth(now) == FirstOfMonth(DayOf(now) \div DaysPerMonth)

NextMonthly(now) ==
    LET month == DayOf(now) \div DaysPerMonth
    IN  IF FirstOfMonth(month) >= now THEN FirstOfMonth(month)
        ELSE FirstOfMonth(month + 1)

NextFullAt(now, cadence, lastFull) ==
    CASE cadence = "weekly"   -> NextWeekly(now)
      [] cadence = "biweekly" -> NextBiweekly(now, lastFull)
      [] cadence = "monthly"  -> NextMonthly(now)
=============================================================================
