-------------------------- MODULE CountedCalendar --------------------------
(***************************************************************************)
(* The calendar algorithms against a calendar that is advanced day by day: *)
(* month lengths, the Gregorian leap rule and the seven days of the week.  *)
(***************************************************************************)
EXTENDS Calendar, FiniteSets

CONSTANTS FirstYear, LastYear

VARIABLES abs,      \* the absolute day
          date,     \* its date, counted
          weekday   \* its day of the week, counted; Sunday is 0
vars == <<abs, date, weekday>>

Gregorian(y) == (y % 4 = 0 /\ y % 100 # 0) \/ y % 400 = 0
Length(m, y) ==
  CASE m \in {4, 6, 9, 11} -> 30
    [] m = 2 -> IF Gregorian(y) THEN 29 ELSE 28
    [] OTHER -> 31

(* Behaviours begin at New Year of any year; 1 January 2000 was a          *)
(* Saturday, and each year shifts the weekday by one or two days.          *)
NewYear(y) ==
  LET after == {x \in 2000..(y - 1) : Gregorian(x)}  before == {x \in y..1999 : Gregorian(x)}
  IN  (6 + (y - 2000) + Cardinality(after) - Cardinality(before)) % 7

Init ==
  \E y \in FirstYear..LastYear :
    /\ date = [year |-> y, month |-> 1, day |-> 1]
    /\ abs = DateToAbsDays(y, 1, 1)
    /\ weekday = NewYear(y)

NextDay ==
  /\ date # [year |-> LastYear, month |-> 12, day |-> 31]
  /\ abs' = abs + 1
  /\ weekday' = (weekday + 1) % 7
  /\ date' = IF date.day < Length(date.month, date.year) THEN [date EXCEPT !.day = @ + 1]
             ELSE IF date.month < 12 THEN [date EXCEPT !.day = 1, !.month = @ + 1]
             ELSE [year |-> date.year + 1, month |-> 1, day |-> 1]

Spec == Init /\ [][NextDay]_vars

(* civil_from_unix and date_to_abs_days agree with the counted calendar in *)
(* both directions, also for a day past the end of its month, and          *)
(* abs_days_year_yday numbers the days of the year from 1.                 *)
CalendarAgrees ==
  /\ CivilDate(abs) = date
  /\ DateToAbsDays(date.year, date.month, date.day) = abs
  /\ date.month = 12 => DateToAbsDays(date.year, 11, 30 + date.day) = abs
  /\ YearYday(abs) = <<date.year, 1 + abs - DateToAbsDays(date.year, 1, 1)>>

(* tzrule_time puts the rule "week w, day d of month m" on a day that has  *)
(* this weekday and is the w-th such day of its month, or the last one     *)
(* when w is 5.                                                            *)
RuleDayAgrees ==
  LET yday == abs - DateToAbsDays(date.year, 1, 1)
      Rule(w) == [kind |-> "mwd", mon |-> date.month, week |-> w, day |-> weekday, time |-> 0]
      nth  == 1 + (date.day - 1) \div 7
      last == date.day + 7 > Length(date.month, date.year)
  IN  \A w \in 1..5 :
        (TzRuleTime(date.year, Rule(w), 0) = yday * DaySeconds) <=> (w = nth \/ (last /\ w > nth))
=============================================================================
