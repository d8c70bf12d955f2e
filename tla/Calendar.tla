------------------------------ MODULE Calendar ------------------------------
(* The dates a comparison observes: anniversaries of src/hodl/model.py.  A moment
   is a record [year, month, day, second] of UTC and a timestamp its Unix time, as
   Python's datetime (external) has them for the years 1970 to 2037. *)
EXTENDS Integers

Leap(year) == year % 4 = 0
MonthLength(year, month) ==
  CASE month = 2 -> IF Leap(year) THEN 29 ELSE 28
    [] month \in {4, 6, 9, 11} -> 30
    [] OTHER -> 31

\* days of a year before its month: (153 m + 2) / 5 counts them from March on
DaysBefore(year, month) ==
  IF month <= 2 THEN 31 * (month - 1)
  ELSE (153 * (month - 3) + 2) \div 5 + (IF Leap(year) THEN 60 ELSE 59)
DayNumber(year, month, day) ==
  365 * (year - 1970) + (year - 1969) \div 4 + DaysBefore(year, month) + day - 1
Timestamp(d) == 86400 * DayNumber(d.year, d.month, d.day) + d.second

IsMoment(d) ==
  /\ d \in [year : Nat, month : 1..12, day : Nat, second : Nat]
  /\ 1970 <= d.year /\ d.year <= 2037 /\ d.second < 86400
  /\ 1 <= d.day /\ d.day <= MonthLength(d.year, d.month)
LastMoment == [year |-> 2037, month |-> 12, day |-> 31, second |-> 86399]

\* divmod(date.year * 12 + date.month - 1 + offset, 12)
Months(d, offset) == d.year * 12 + d.month - 1 + offset
YearOf(months) == months \div 12
MonthOf(months) == (months % 12) + 1

\* the day of a month that stands for the start's day of the month
ClampedDay(day, months) ==
  LET last == MonthLength(YearOf(months), MonthOf(months))
  IN  IF day < last THEN day ELSE last
\* the same, from each date to the next: what a short month cuts is never regained
DriftingMoment(d, offset) ==
  LET days == {ClampedDay(d.day, Months(d, k)) : k \in 0..offset}
  IN  [d EXCEPT !.year = YearOf(Months(d, offset)), !.month = MonthOf(Months(d, offset)),
                !.day = CHOOSE least \in days : \A day \in days : least <= day]
Moment(d, offset) ==
  [d EXCEPT !.year = YearOf(Months(d, offset)), !.month = MonthOf(Months(d, offset)),
            !.day = ClampedDay(d.day, Months(d, offset))]
point(d, offset) == Timestamp(Moment(d, offset))
=============================================================================
