------------------------------ MODULE Calendar ------------------------------
(***************************************************************************)
(* Civil dates and the rules of POSIX time-zone footers: the calendar      *)
(* algorithms of sdks/rust/src/v2/tzdb.rs.                                 *)
(*                                                                         *)
(* The calendar is the real one.  The clock is scaled: a day has           *)
(* MinutesPerDay minutes of SecondsPerMinute seconds.                      *)
(***************************************************************************)
EXTENDS Integers, Sequences

CONSTANTS SecondsPerMinute, MinutesPerDay

ClockAssumption ==
  SecondsPerMinute \in Nat \ {0} /\ MinutesPerDay \in Nat \ {0}

DaySeconds == SecondsPerMinute * MinutesPerDay
B2N(b) == IF b THEN 1 ELSE 0

-----------------------------------------------------------------------------
(* The calendar.  Absolute days count from the first of March of year 0;   *)
(* the code starts a multiple of 400 years earlier.                        *)

(* is_leap: a year that is not a multiple of 25 is tested with mask 3, the *)
(* others with mask 15.                                                    *)
IsLeap(year) == IF year % 25 # 0 THEN year % 4 = 0 ELSE year % 16 = 0

DaysBefore(m) == (214 * m - 211) \div 7 + (IF m >= 3 THEN -2 ELSE 0)

DaysIn(m, year) ==
  IF m = 2 THEN 28 + B2N(IsLeap(year)) ELSE 30 + ((m + m \div 8) % 2)

(* abs_days_split: century, year in it and day of a year that begins in    *)
(* March.  The product with 2939745 shifted by 32 is the division by 1461. *)
AbsDaysSplit(days) ==
  LET d  == 4 * days + 3
      cd == 4 * ((d % 146097) \div 4) + 3
  IN  [century |-> d \div 146097, cyear |-> cd \div 1461, ayday |-> (cd % 1461) \div 4]

JanFeb(ayday) == B2N(ayday >= 306)
AbsYear(s) == 100 * s.century + s.cyear + JanFeb(s.ayday)

(* abs_days_year_yday, with days of the year from 1.                       *)
SplitYearYday(s, jf) ==
  LET leap == s.cyear % 4 = 0 /\ (s.cyear # 0 \/ s.century % 4 = 0)
  IN  <<AbsYear(s), s.ayday + 60 + (IF leap /\ jf = 0 THEN 1 ELSE 0) - 365 * jf>>
SplitDate(s, d) ==
  [year  |-> AbsYear(s),
   month |-> d \div 65536 - 12 * JanFeb(s.ayday),
   day   |-> 1 + (d % 65536) \div 2141]

YearYday(days) == LET s == AbsDaysSplit(days) IN SplitYearYday(s, JanFeb(s.ayday))

(* civil_from_unix, the date.                                              *)
CivilDate(days) == LET s == AbsDaysSplit(days) IN SplitDate(s, 2141 * s.ayday + 197913)

(* date_to_abs_days; day may be outside the month.                         *)
DateToAbsDays(year, month, day) ==
  LET jf == B2N(month < 3)
      y  == year - jf
      ayday == (979 * (month + 12 * jf) - 2919) \div 32
  IN  (146097 * (y \div 100)) \div 4 + (1461 * (y % 100)) \div 4 + ayday + day - 1

EpochDay == DateToAbsDays(1970, 1, 1)

(* unix_from_civil_utc, with a minute of the day that may be out of range. *)
UnixFromCivil(year, month, day, minute) ==
  (DateToAbsDays(year, month, day) - EpochDay) * DaySeconds + minute * SecondsPerMinute

(* tzrule_time: seconds from the start of the year, by Zeller's congruence *)
(* for month, week and day.  A week of 5 is the last one.                  *)
Zeller(m1, century, yy) ==
  ((26 * m1 - 2) \div 10 + 1 + yy + yy \div 4 + century \div 4 - 2 * century) % 7
RuleDay(d0, week, length) ==
  LET weeks == {w \in 0..(week - 1) : w = 0 \/ d0 + 7 * w < length}
  IN  d0 + 7 * (CHOOSE w \in weeks : \A x \in weeks : x <= w)
TzRuleTime(year, r, off) ==
  LET yy0 == year - B2N(r.mon <= 2)
      dow == Zeller(((r.mon + 9) % 12) + 1, yy0 \div 100, yy0 % 100)
      d   == RuleDay((r.day - dow) % 7, r.week, DaysIn(r.mon, year))
  IN  CASE r.kind = "julian" -> (r.day - 1 + B2N(IsLeap(year) /\ r.day >= 60)) * DaySeconds + r.time - off
        [] r.kind = "doy"    -> r.day * DaySeconds + r.time - off
        [] OTHER -> (d + DaysBefore(r.mon) + B2N(IsLeap(year) /\ r.mon > 2)) * DaySeconds + r.time - off

=============================================================================
