---------------------------- MODULE CronSchedule ----------------------------
(***************************************************************************)
(* When a trigger is due: isDueForPolling and the functions under it.      *)
(*                                                                         *)
(* Time is counted in ticks from the start of a calendar whose minutes,    *)
(* days, weeks and months are as long as the constants say: the code's     *)
(* arithmetic is on dates and does not depend on their lengths, and a      *)
(* month too short for the day of a schedule is reached in a few days.     *)
(***************************************************************************)
EXTENDS Integers, Sequences

CONSTANTS
    MinuteLength,   \* ticks in a minute, an hour and a day
    HourLength,
    DayLength,
    WeekLength,     \* days in a week; day 0 is the first day of one
    MonthLengths,   \* days of the months of a year
    Never           \* the lastPolledAt of a trigger that was never polled

ASSUME CalendarAssumption ==
    /\ {MinuteLength, HourLength, DayLength, WeekLength} \subseteq Nat \ {0}
    /\ MonthLengths \in Seq(Nat \ {0}) /\ MonthLengths # <<>>
    /\ Never \notin Nat

DayOf(t) == t \div DayLength
WeekDayOf(day) == day % WeekLength

\* The first day of a month, months being counted from 0 across the years.
MonthStart ==
    LET start[m \in Nat] ==
            IF m = 0 THEN 0
            ELSE start[m - 1] + MonthLengths[((m - 1) % Len(MonthLengths)) + 1]
    IN start

MonthOf(t) == CHOOSE m \in 0..DayOf(t) :
    MonthStart[m] <= DayOf(t) /\ DayOf(t) < MonthStart[m + 1]

\* time.Date with a day of the month, counted from 1: a day that the month
\* does not have is one of the next month.
Date(month, dayOfMonth, time) ==
    (MonthStart[month] + dayOfMonth - 1) * DayLength + time

\* Seeded fault: the minute is added.
ServedLater(last, candidate) == last # Never /\ last > candidate + MinuteLength

\* A poll in the last minute before the candidate counts as one for it.
Served(last, candidate) == last # Never /\ last > candidate - MinuteLength

NextDaily(cron, last, now) ==
    LET today == DayOf(now) * DayLength + cron.time
    IN IF Served(last, today) THEN today + DayLength ELSE today

\* Seeded fault: the day itself counts as one of next week.
NextWeeklyAfterToday(cron, last, now) ==
    LET ahead == ((cron.day - WeekDayOf(DayOf(now)) - 1) % WeekLength) + 1
        candidate == (DayOf(now) + ahead) * DayLength + cron.time
    IN IF Served(last, candidate) THEN candidate + WeekLength * DayLength ELSE candidate

NextWeekly(cron, last, now) ==
    LET ahead == (cron.day - WeekDayOf(DayOf(now))) % WeekLength
        candidate == (DayOf(now) + ahead) * DayLength + cron.time
    IN IF Served(last, candidate) THEN candidate + WeekLength * DayLength ELSE candidate

NextMonthly(cron, last, now) ==
    LET month == MonthOf(now)
        drawn == Date(month, cron.day, cron.time)
        candidate == IF MonthOf(drawn) # month /\ drawn < now
                     THEN Date(month + 1, cron.day, cron.time) ELSE drawn
    IN IF Served(last, candidate) THEN Date(month + 1, cron.day, cron.time)
       ELSE candidate

NextScheduled(cron, last, now) ==
    CASE cron.mode = "daily"   -> NextDaily(cron, last, now)
      [] cron.mode = "weekly"  -> NextWeekly(cron, last, now)
      [] cron.mode = "monthly" -> NextMonthly(cron, last, now)

Interval(cron) ==
    cron.value * (CASE cron.unit = "hours" -> HourLength
                    [] cron.unit = "days"  -> DayLength
                    [] OTHER               -> MinuteLength)

Scheduled(cron) == cron.mode \in {"daily", "weekly", "monthly"}

\* What a clock may be set to: a time of the day, a day of the week or a day
\* of the month, as models/triggers.go has them; the form asks for nothing
\* else, and the server looks only whether they are there.
WellSet(cron) ==
    IF Scheduled(cron)
    THEN /\ cron.time \in 0..(DayLength - 1)
         /\ cron.mode = "weekly" => cron.day \in 0..(WeekLength - 1)
         /\ cron.mode = "monthly" => cron.day \in Nat \ {0}
    ELSE cron.value \in Int

\* A trigger that was never polled is due at once, unless it has a schedule;
\* one that is no cron trigger has mode "polled" and its polling interval.
Due(cron, last, now) ==
    IF Scheduled(cron) THEN now > NextScheduled(cron, last, now)
    ELSE last # Never => now > last + Interval(cron)

-----------------------------------------------------------------------------
(* For the properties: the moments a schedule names.  A monthly one names   *)
(* none in a month without its day.                                         *)
Instant(cron, t) ==
    /\ t % DayLength = cron.time
    /\ CASE cron.mode = "daily"   -> TRUE
         [] cron.mode = "weekly"  -> WeekDayOf(DayOf(t)) = cron.day
         [] cron.mode = "monthly" -> DayOf(t) - MonthStart[MonthOf(t)] + 1 = cron.day
=============================================================================
