-------------------------------- MODULE Cron --------------------------------
(***************************************************************************)
(* Cron schedules (tasks/cron.py): how an expression is parsed, which      *)
(* minutes it matches and how the next fire is found.  A moment is the     *)
(* number of minutes since midnight on the first day of a year, a Sunday;  *)
(* every year of the calendar has the same months.                         *)
(*                                                                         *)
(* An item of a field is *, a value or a range, with or without a step; a  *)
(* field is a sequence of items; names of months and weekdays are the      *)
(* values they stand for.                                                  *)
(***************************************************************************)
EXTENDS Integers, Sequences, FiniteSetsExt

CONSTANTS
  MinutesPerHour, HoursPerDay, DaysPerWeek,
  MonthDays,       \* the days of each month, in order
  MaxIterations    \* _MAX_ITERATIONS

ASSUME CalendarAssumption ==
  /\ {MinutesPerHour, HoursPerDay, DaysPerWeek, MaxIterations} \subseteq Nat \ {0}
  /\ MonthDays \in Seq(Nat \ {0}) /\ MonthDays # <<>>

-----------------------------------------------------------------------------
(* The calendar *)

MinutesPerDay == MinutesPerHour * HoursPerDay

(* The days of the first n months. *)
Days[n \in 0 .. Len(MonthDays)] == IF n = 0 THEN 0 ELSE Days[n - 1] + MonthDays[n]

(* The days of a year before its m-th month. *)
DaysBefore(m) == Days[m - 1]

DaysPerYear == DaysBefore(Len(MonthDays) + 1)

DayOf(t) == t \div MinutesPerDay

MonthOf(t) == CHOOSE m \in DOMAIN MonthDays :
  LET day == DayOf(t) % DaysPerYear
  IN  DaysBefore(m) <= day /\ day < DaysBefore(m + 1)

DateOf(t) == 1 + (DayOf(t) % DaysPerYear) - DaysBefore(MonthOf(t))

HourOf(t) == (t % MinutesPerDay) \div MinutesPerHour

MinuteOf(t) == t % MinutesPerHour

_cron_weekday(t) == DayOf(t) % DaysPerWeek

Midnight(day) == day * MinutesPerDay

_first_of_next_month(t) == Midnight((DayOf(t) - DateOf(t)) + 1 + MonthDays[MonthOf(t)])

-----------------------------------------------------------------------------
(* Parsing *)

NoStep == -1

Item(base, from, to, step) == [base |-> base, from |-> from, to |-> to, step |-> step]

Star == <<Item("*", 0, 0, NoStep)>>
EmptyItem == Item("", 0, 0, NoStep)
Just(v) == <<Item("value", v, v, NoStep)>>
Every(n) == <<Item("*", 0, 0, n)>>

Shorthands == [
  yearly   |-> <<Just(0), Just(0), Just(1), Just(1), Star>>,
  annually |-> <<Just(0), Just(0), Just(1), Just(1), Star>>,
  monthly  |-> <<Just(0), Just(0), Just(1), Star, Star>>,
  weekly   |-> <<Just(0), Just(0), Star, Star, Just(0)>>,
  daily    |-> <<Just(0), Just(0), Star, Star, Star>>,
  midnight |-> <<Just(0), Just(0), Star, Star, Star>>,
  hourly   |-> <<Just(0), Star, Star, Star, Star>>]

Weekday == 5

(* The least and greatest value of a field: minute, hour, day, month, weekday. *)
Bounds == <<
  <<0, MinutesPerHour - 1>>, <<0, HoursPerDay - 1>>,
  <<1, Max({MonthDays[m] : m \in DOMAIN MonthDays})>>, <<1, Len(MonthDays)>>,
  <<0, DaysPerWeek - 1>> >>

(* The week's last day plus one is its first. *)
_resolve(v, i) == IF i = Weekday /\ v = DaysPerWeek THEN 0 ELSE v

From(item, i) == IF item.base = "*" THEN Bounds[i][1] ELSE _resolve(item.from, i)
Upto(item, i) ==
  CASE item.base = "*"     -> Bounds[i][2]
    [] item.base = "value" -> From(item, i)
    [] OTHER               -> _resolve(item.to, i)

Malformed(item, i) ==
  \/ item.base = ""
  \/ item.step = 0
  \/ item.base = "value" /\ item.step # NoStep
  \/ From(item, i) < Bounds[i][1] \/ Upto(item, i) > Bounds[i][2]
  \/ From(item, i) > Upto(item, i)

Step(item) == IF item.step = NoStep THEN 1 ELSE item.step

_parse_field(field, i) ==
  UNION {{v \in From(item, i) .. Upto(item, i) : (v - From(item, i)) % Step(item) = 0} :
         item \in {field[j] : j \in DOMAIN field}}

Fields(expression) ==
  IF expression.name # "" THEN Shorthands[expression.name] ELSE expression.fields

(* No CronError. *)
Parses(expression) ==
  /\ expression.name \in DOMAIN Shorthands \cup {""}
  /\ LET fields == Fields(expression)
     IN  /\ Len(fields) = Len(Bounds)
         /\ \A i \in DOMAIN fields :
              fields[i] # <<>> /\ \A j \in DOMAIN fields[i] : ~Malformed(fields[i][j], i)

parse_cron(expression) ==
  LET fields == Fields(expression)
  IN  [minutes |-> _parse_field(fields[1], 1), hours |-> _parse_field(fields[2], 2),
       days |-> _parse_field(fields[3], 3), months |-> _parse_field(fields[4], 4),
       weekdays |-> _parse_field(fields[5], 5),
       day_restricted |-> fields[3] # Star, weekday_restricted |-> fields[5] # Star]

-----------------------------------------------------------------------------
(* CronSchedule *)

(* Mutant: both restricted fields must match. *)
_day_matches_Both(s, t) ==
  /\ s.day_restricted => DateOf(t) \in s.days
  /\ s.weekday_restricted => _cron_weekday(t) \in s.weekdays

(* The day of the month or of the week when both are restricted. *)
_day_matches(s, t) ==
  LET dom_ok == DateOf(t) \in s.days
      dow_ok == _cron_weekday(t) \in s.weekdays
  IN  IF s.day_restricted /\ s.weekday_restricted THEN dom_ok \/ dow_ok
      ELSE (s.day_restricted => dom_ok) /\ (s.weekday_restricted => dow_ok)

matches(s, t) ==
  /\ MinuteOf(t) \in s.minutes /\ HourOf(t) \in s.hours /\ MonthOf(t) \in s.months
  /\ _day_matches(s, t)

NoFire == -1

(* The next candidate after one that does not match: a whole unit on. *)
RollForward(s, t) ==
  IF MonthOf(t) \notin s.months THEN _first_of_next_month(t)
  ELSE IF ~_day_matches(s, t) THEN Midnight(DayOf(t) + 1)
  ELSE IF HourOf(t) \notin s.hours THEN (t - MinuteOf(t)) + MinutesPerHour
  ELSE t + 1

(* The candidate of each iteration, the minute after at first.  NoFire stands for the  *)
(* CronError of a search that finds nothing.                                           *)
next_fire(s, after) ==
  LET candidate[n \in 0 .. MaxIterations - 1] ==
        IF n = 0 THEN after + 1
        ELSE LET t == candidate[n - 1] IN IF matches(s, t) THEN t ELSE RollForward(s, t)
      found == candidate[MaxIterations - 1]
  IN  IF matches(s, found) THEN found ELSE NoFire
=============================================================================
