------------------------------ MODULE RailsDates ------------------------------
(* The timestamps of tools/rails/rails2zb.py: to_rfc3339 moves a Rails datetime
   with an offset to UTC by arithmetic on a day count, for the years 0 to 9999.
   The reference is a calendar that is walked day by day.                     *)
EXTENDS Integers

CONSTANTS
  Starts,     \* the years whose first of December a walk begins on
  WalkDays,   \* its length
  Times,      \* seconds of the day tried on every day of a walk
  Offsets     \* offsets to UTC tried, in minutes

Rejected == "refused"
DaySeconds == 86400
FourDigits == 0..9999     \* the years RFC 3339 can write

-------------------------------------------------------------------------------
(* the code *)
_is_leap(year) == year % 4 = 0 /\ (year % 100 # 0 \/ year % 400 = 0)

_days_in_month(year, month) ==
  IF month = 2 /\ _is_leap(year) THEN 29
  ELSE <<31, 28, 31, 30, 31, 30, 31, 31, 30, 31, 30, 31>>[month]

(* Mutant: the year is not moved to begin in March. *)
DaysFromJanuary(year, month, day) ==
  LET era == year \div 400
      yearOfEra == year - era * 400
      position == month + IF month > 2 THEN -3 ELSE 9
      dayOfYear == (153 * position + 2) \div 5 + day - 1
  IN era * 146097 + yearOfEra * 365 + yearOfEra \div 4 - yearOfEra \div 100
       + dayOfYear - 719468

(* a year that begins in March, counted from the year 0; \div is Python's // *)
_days_from_civil(y, month, day) ==
  LET year == y - IF month <= 2 THEN 1 ELSE 0
      era == year \div 400
      yearOfEra == year - era * 400
      position == month + IF month > 2 THEN -3 ELSE 9
      dayOfYear == (153 * position + 2) \div 5 + day - 1
  IN era * 146097 + yearOfEra * 365 + yearOfEra \div 4 - yearOfEra \div 100
       + dayOfYear - 719468

_civil_from_days(d) ==
  LET days == d + 719468
      era == days \div 146097
      dayOfEra == days - era * 146097
      yearOfEra == (dayOfEra - dayOfEra \div 1460 + dayOfEra \div 36524
                      - dayOfEra \div 146096) \div 365
      dayOfYear == dayOfEra - (365 * yearOfEra + yearOfEra \div 4 - yearOfEra \div 100)
      position == (5 * dayOfYear + 2) \div 153
      month == position + IF position < 10 THEN 3 ELSE -9
  IN [year  |-> yearOfEra + era * 400 + IF month <= 2 THEN 1 ELSE 0,
      month |-> month,
      day   |-> dayOfYear - (153 * position + 2) \div 5 + 1]

(* _refuse_impossible_datetime; a time that was written is a second of the day *)
Possible(date) ==
  date.month \in 1..12 /\ date.day \in 1.._days_in_month(date.year, date.month)

(* the seconds since 1970, divided by the seconds of a day *)
Moment(date, second, offset) ==
  LET rest == second - offset * 60
  IN [days |-> _days_from_civil(date.year, date.month, date.day) + rest \div DaySeconds,
      rest |-> rest % DaySeconds]

(* What is written for a date, the fields of its time ("none", "minutes" or
   "seconds"), whether it has a fraction, and its offset, of sign 0 where none or Z
   is written.  A fraction is copied as it is.  offset_hours and offset_minutes
   are those of the offset's absolute value. *)
to_rfc3339(date, form, second, fraction, offset) ==
  IF ~Possible(date) THEN Rejected
  ELSE IF form = "none" THEN [date |-> date, second |-> 0]
  ELSE IF form = "minutes" /\ fraction THEN Rejected
  ELSE IF offset.sign = 0 THEN [date |-> date, second |-> second]
  ELSE IF offset.minutes > 59 \/ offset.hours > 23 THEN Rejected
  ELSE LET minutes == (offset.hours * 60 + offset.minutes) * offset.sign
           moment == Moment(date, second, minutes)
           utc == _civil_from_days(moment.days)
       IN IF utc.year \notin FourDigits THEN Rejected
          ELSE [date |-> utc, second |-> moment.rest]

-------------------------------------------------------------------------------
(* the reference: a walk over the calendar *)
VARIABLES
  today,    \* the date
  number,   \* its day number; 1970-01-01 is day 0
  walked    \* days since the start of the walk

dvars == <<today, number, walked>>

Leap(year) ==
  LET by(n) == \E k \in 0..100 : k * n = year % 400 IN by(4) /\ (~by(100) \/ by(400))
Long(month) == month \in {1, 3, 5, 7, 8, 10, 12}
LastDay(year, month) ==
  IF Long(month) THEN 31 ELSE IF month # 2 THEN 30 ELSE IF Leap(year) THEN 29 ELSE 28

Tomorrow(d) ==
  IF d.day < LastDay(d.year, d.month) THEN [d EXCEPT !.day = @ + 1]
  ELSE IF d.month < 12 THEN [d EXCEPT !.day = 1, !.month = @ + 1]
  ELSE [year |-> d.year + 1, month |-> 1, day |-> 1]

Yesterday(d) ==
  IF d.day > 1 THEN [d EXCEPT !.day = @ - 1]
  ELSE IF d.month > 1 THEN [d EXCEPT !.day = LastDay(d.year, d.month - 1), !.month = @ - 1]
  ELSE [year |-> d.year - 1, month |-> 12, day |-> 31]

(* the day number of 1 December: 31 days before the next year, which begins
   after 365 days and a leap day for every year so far *)
NumberOfDecember(year) ==
  365 * (year + 1) + year \div 4 - year \div 100 + year \div 400 + 1 - 719528 - 31

DatesInit ==
  /\ today = [year |-> 1969, month |-> 12, day |-> 31] /\ number = -1
  /\ walked = -1

(* The walk from 1969-12-31 needs no formula; the others begin at NumberOfDecember. *)
DatesNext ==
  \/ /\ walked = -1
     /\ \E year \in Starts :
          /\ today' = [year |-> year, month |-> 12, day |-> 1]
          /\ number' = NumberOfDecember(year)
     /\ walked' = 0
  \/ /\ walked \in 0..WalkDays - 1 \/ (today.year \in 1969..1972)
     /\ today' = Tomorrow(today) /\ number' = number + 1
     /\ walked' = IF walked = -1 THEN 0 ELSE walked + 1

DatesSpec == DatesInit /\ [][DatesNext]_dvars

-------------------------------------------------------------------------------
(* The day count is the calendar's, both ways, through the leap rules and the
   years before 1, and no day that the calendar lacks is possible. *)
DayCountIsCalendar ==
  /\ _days_from_civil(today.year, today.month, today.day) = number
  /\ _civil_from_days(number) = today
  /\ Possible(today)
  /\ Possible([today EXCEPT !.day = @ + 1]) <=> Tomorrow(today).month = today.month

(* A timestamp with an offset is written as the same moment in UTC: on the day
   the offset moves it to, at the second it moves it to, or it is refused because
   that day is outside the years 0 to 9999 ("rewriting 09:00+05:00 as 09:00Z moves
   the row five hours"). *)
MomentKept ==
  today.year \in FourDigits =>
    \A second \in Times, minutes \in Offsets :
      LET size == IF minutes < 0 THEN -minutes ELSE minutes
          offset == [sign |-> IF minutes < 0 THEN -1 ELSE 1,
                     hours |-> size \div 60, minutes |-> size % 60]
          utc == second - minutes * 60
          day == IF utc < 0 THEN Yesterday(today)
                 ELSE IF utc >= DaySeconds THEN Tomorrow(today) ELSE today
      IN to_rfc3339(today, "seconds", second, TRUE, offset) =
           IF day.year \in FourDigits THEN [date |-> day, second |-> utc % DaySeconds]
           ELSE Rejected

(* A timestamp in a bundle is the moment it was in the source. *)
DatesKept == DayCountIsCalendar /\ MomentKept

===============================================================================
