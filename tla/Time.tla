-------------------------------- MODULE Time --------------------------------
(***************************************************************************)
(* src/time.c.  A calendar that is turned over one day at a time by the    *)
(* rules everybody knows, beside the closed formulas of the code; and the  *)
(* sleeping calls, which a signal may interrupt.  C's division rounds      *)
(* towards zero.  Seconds are compared only for the days whose seconds     *)
(* since 1970 TLC can hold; the date formulas for all days.                *)
(***************************************************************************)
EXTENDS Integers, Sequences, FiniteSets

CONSTANTS Years,         \* the years whose every day is visited
          PerSecond,     \* what a second is divided in: 1000 or 1000000 in the code
          MaxSleep,      \* bound on what is asked for
          MaxSignals     \* bound on the signals that interrupt one sleep

VARIABLES day,           \* days since 1970-01-01
          today,         \* the calendar: [year, month, day, day_of_week, day_of_year]
          pc, asked, rest, slept, signals   \* a sleeping call

vars == <<day, today, pc, asked, rest, slept, signals>>

Quot(a, b) == IF a >= 0 THEN a \div b ELSE - ((- a) \div b)
Rem(a, b) == a - b * Quot(a, b)

is_leap_year(y) == (Rem(y, 4) = 0 /\ Rem(y, 100) # 0) \/ Rem(y, 400) = 0

-----------------------------------------------------------------------------
(* Mutated forms of the operations below, for sensitivity checks only.     *)

\* The era of a day before March of year 0 is rounded towards zero.
DaysToDateTruncates(n) ==
    LET days == n + 719468
        era == Quot(days, 146097)
        doe == days - era * 146097
        yoe == Quot(doe - Quot(doe, 1460) + Quot(doe, 36524) - Quot(doe, 146096), 365)
        doy == doe - (365 * yoe + Quot(yoe, 4) - Quot(yoe, 100))
        mp == Quot(5 * doy + 2, 153)
        m == mp + (IF mp < 10 THEN 3 ELSE - 9)
    IN  [year |-> yoe + era * 400 + (IF m <= 2 THEN 1 ELSE 0), month |-> m,
         day |-> doy - Quot(153 * mp + 2, 5) + 1]

\* An interrupted sleep is taken for a finished one.
WakeUpReturns ==
    /\ pc = "sleep" /\ rest > 0 /\ signals < MaxSignals
    /\ signals' = signals + 1
    /\ pc' = "idle"
    /\ UNCHANGED <<day, today, asked, rest, slept>>

-----------------------------------------------------------------------------
(* The formulas of the code.                                               *)

days_to_date(n) ==
    LET days == n + 719468
        era == Quot(IF days >= 0 THEN days ELSE days - 146096, 146097)
        doe == days - era * 146097
        yoe == Quot(doe - Quot(doe, 1460) + Quot(doe, 36524) - Quot(doe, 146096), 365)
        doy == doe - (365 * yoe + Quot(yoe, 4) - Quot(yoe, 100))
        mp == Quot(5 * doy + 2, 153)
        m == mp + (IF mp < 10 THEN 3 ELSE - 9)
    IN  [year |-> yoe + era * 400 + (IF m <= 2 THEN 1 ELSE 0), month |-> m,
         day |-> doy - Quot(153 * mp + 2, 5) + 1]

date_to_days(year, month, d) ==
    LET y == IF month <= 2 THEN year - 1 ELSE year
        m == IF month <= 2 THEN month + 9 ELSE month - 3
        era == Quot(IF y >= 0 THEN y ELSE y - 399, 400)
        yoe == y - era * 400
        doy == Quot(153 * m + 2, 5) + d - 1
    IN  era * 146097 + yoe * 365 + Quot(yoe, 4) - Quot(yoe, 100) + doy - 719468

cumulative_days == <<0, 31, 59, 90, 120, 151, 181, 212, 243, 273, 304, 334>>
compute_day_of_year(year, month, d) ==
    cumulative_days[month] + d - 1 + (IF month > 2 /\ is_leap_year(year) THEN 1 ELSE 0)

day_of_week(days) == LET dow == Rem(Rem(days, 7) + 4, 7) IN IF dow < 0 THEN dow + 7 ELSE dow

\* lc_time_from_unix.
from_unix(seconds) ==
    LET rem == Rem(seconds, 86400)
        s == IF rem < 0 THEN rem + 86400 ELSE rem
        days == Quot(seconds, 86400) - (IF rem < 0 THEN 1 ELSE 0)
        date == days_to_date(days)
    IN  [year |-> date.year, month |-> date.month, day |-> date.day,
         hour |-> s \div 3600, minute |-> (s % 3600) \div 60, second |-> s % 60,
         day_of_week |-> day_of_week(days),
         day_of_year |-> compute_day_of_year(date.year, date.month, date.day)]

\* lc_time_to_unix.
to_unix(dt) == date_to_days(dt.year, dt.month, dt.day) * 86400
               + dt.hour * 3600 + dt.minute * 60 + dt.second

\* lc_format_add_unsigned_padded with zeros: at least width digits.
Padded(v, width) ==
    LET k == CHOOSE k \in width..10 : v < 10^k /\ (k = width \/ v >= 10^(k - 1))
    IN  [i \in 1..k |-> (v \div 10^(k - i)) % 10]

\* The digits of lc_time_format_date and lc_time_format_time; lc_time_format and
\* lc_time_format_iso8601 write the one after the other.
format_date(dt) == Padded(dt.year, 4) \o Padded(dt.month, 2) \o Padded(dt.day, 2)
format_time(dt) == Padded(dt.hour, 2) \o Padded(dt.minute, 2) \o Padded(dt.second, 2)
format_iso8601(dt) == format_date(dt) \o format_time(dt)

-----------------------------------------------------------------------------
(* The calendar on the wall.                                               *)

MonthLength(y, m) == IF m = 2 THEN (IF is_leap_year(y) THEN 29 ELSE 28)
                     ELSE IF m \in {4, 6, 9, 11} THEN 30 ELSE 31

\* Days from 1970-01-01 to the first of January of year y, by counting years.
NewYear(y) == IF y >= 1970
              THEN 365 * (y - 1970) + Cardinality({k \in 1970..(y - 1) : is_leap_year(k)})
              ELSE 365 * (y - 1970) - Cardinality({k \in y..1969 : is_leap_year(k)})

Tomorrow ==
    /\ ~ (today.month = 12 /\ today.day = 31)
    /\ LET turn == today.day = MonthLength(today.year, today.month)
       IN  today' = [today EXCEPT !.month = IF turn THEN @ + 1 ELSE @,
                                  !.day = IF turn THEN 1 ELSE @ + 1,
                                  !.day_of_week = (@ + 1) % 7,
                                  !.day_of_year = @ + 1]
    /\ day' = day + 1
    /\ asked = 0
    /\ UNCHANGED <<pc, asked, rest, slept, signals>>

-----------------------------------------------------------------------------
(* lc_time_sleep_milliseconds and lc_time_sleep_microseconds.              *)

\* The timespec of a sleep: whole seconds and the part that is left.
Timespec(n) == [seconds |-> n \div PerSecond, part |-> n % PerSecond]

Sleep(n) ==
    /\ pc = "idle" /\ asked = 0 /\ today.day_of_year = 0
    /\ asked' = n
    /\ LET ts == Timespec(n) IN rest' = ts.seconds * PerSecond + ts.part
    /\ pc' = "sleep" /\ slept' = 0 /\ signals' = 0
    /\ UNCHANGED <<day, today>>

Pass ==
    /\ pc = "sleep" /\ rest > 0
    /\ rest' = rest - 1 /\ slept' = slept + 1
    /\ UNCHANGED <<day, today, pc, asked, signals>>

\* EINTR: the loop starts the whole sleep again.
WakeUp ==
    /\ pc = "sleep" /\ rest > 0 /\ signals < MaxSignals
    /\ signals' = signals + 1
    /\ rest' = asked
    /\ UNCHANGED <<day, today, pc, asked, slept>>

SleepReturns ==
    /\ pc = "sleep" /\ rest = 0
    /\ pc' = "idle"
    /\ UNCHANGED <<day, today, asked, rest, slept, signals>>

-----------------------------------------------------------------------------
Init ==
    /\ \E y \in Years :
          /\ day = NewYear(y)
          /\ today = [year |-> y, month |-> 1, day |-> 1, day_of_year |-> 0,
                      day_of_week |-> (NewYear(y) + 4) % 7]
    /\ pc = "idle" /\ asked = 0 /\ rest = 0 /\ slept = 0 /\ signals = 0

Next == Tomorrow \/ (\E n \in 1..MaxSleep : Sleep(n)) \/ Pass \/ WakeUp \/ SleepReturns

Spec == Init /\ [][Next]_vars

-----------------------------------------------------------------------------
Times == {0, 59, 60, 3599, 3600, 86399}

\* On every day the code's formulas give the date, the weekday and the day of
\* the year that counting gives, before 1970 and across leap centuries too; the
\* two conversions are inverse to the second, and the formatted times of a year
\* from 0 to 9999 have one length and sort as the times do.
CalendarExact ==
    /\ days_to_date(day) = [year |-> today.year, month |-> today.month, day |-> today.day]
    /\ date_to_days(today.year, today.month, today.day) = day
    /\ compute_day_of_year(today.year, today.month, today.day) = today.day_of_year
    /\ day_of_week(day) = today.day_of_week
    /\ day \in -24000..24000 =>
          \A s \in Times :
             LET dt == from_unix(day * 86400 + s)
             IN  /\ dt.year = today.year /\ dt.month = today.month /\ dt.day = today.day
                 /\ dt.day_of_week = today.day_of_week /\ dt.day_of_year = today.day_of_year
                 /\ dt.hour \in 0..23 /\ dt.minute \in 0..59 /\ dt.second \in 0..59
                 /\ dt.hour * 3600 + dt.minute * 60 + dt.second = s
                 /\ to_unix(dt) = day * 86400 + s
                 /\ LET a == format_iso8601(dt)
                        b == format_iso8601(from_unix(day * 86400 + s + 1))
                    IN  /\ Len(a) = 14 /\ Len(b) = 14
                        /\ \E i \in 1..14 : a[i] < b[i] /\ \A j \in 1..(i - 1) : a[j] = b[j]

\* A sleep, however often a signal interrupts it, lasts at least as long as was
\* asked for.
SleepsLongEnough == pc = "idle" /\ asked > 0 => slept >= asked

=============================================================================
