------------------------------ MODULE CivilTime ------------------------------
(***************************************************************************)
(* Time zones and the horizon of time_window constraints:                  *)
(* sdks/rust/src/v2/tzdb.rs and authorization.rs.  A zone is               *)
(* [types, tx, footer]: types are [offset, dst], tx the sorted transitions *)
(* [when, type], footer the parsed POSIX rule, or NoFooter.                *)
(***************************************************************************)
EXTENDS Calendar

CONSTANTS
  \* the last second of the timestamp domain
  MaxTimestamp,
  \* sets of time_window constraints [zone, start, end] a chain may carry
  Chains,
  \* the instants at which a behaviour may begin, and how long it lasts
  Starts, Span

TimeAssumption ==
  MaxTimestamp \in Nat /\ Span \in Nat /\ Starts \subseteq 0..MaxTimestamp

Alpha == -1
Omega == MaxTimestamp + 400 * DaySeconds

-----------------------------------------------------------------------------
(* Zones.                                                                  *)

NoFooter == [std |-> 0, hasDst |-> FALSE, present |-> FALSE]

(* tzset: the period of the footer rule that holds sec, from the seconds   *)
(* of its year at which daylight saving starts and ends.  Past the last    *)
(* transition of a year the period ends 365 days after the year began.     *)
YearPeriod(f, ysec, ystart, s, e) ==
  LET flip  == e < s
      lo    == IF flip THEN e ELSE s
      hi    == IF flip THEN s ELSE e
      outer == IF flip THEN f.dst ELSE f.std
      inner == IF flip THEN f.std ELSE f.dst
  IN  CASE ysec < lo  -> [offset |-> outer, start |-> ystart, end |-> lo + ystart]
        [] ysec >= hi -> [offset |-> outer, start |-> hi + ystart, end |-> ystart + 365 * DaySeconds]
        [] OTHER      -> [offset |-> inner, start |-> lo + ystart, end |-> hi + ystart]
FooterPeriod(f, sec, year, ysec) ==
  YearPeriod(f, ysec, sec - ysec, TzRuleTime(year, f.from, f.std), TzRuleTime(year, f.to, f.dst))
TzSet(f, last, sec) ==
  IF ~f.hasDst THEN [offset |-> f.std, start |-> last, end |-> Omega]
  ELSE LET yy == YearYday(sec \div DaySeconds + EpochDay)
       IN  FooterPeriod(f, sec, yy[1], (yy[2] - 1) * DaySeconds + (sec % DaySeconds))

(* lookup_first_zone: the type in force before the first transition.       *)
LookupFirstZone(z) ==
  LET std == {i \in DOMAIN z.types : ~z.types[i].dst}
      first == z.tx[1].type
      before == {i \in std : i < first}
      Largest(S) == CHOOSE i \in S : \A j \in S : j <= i
      Least(S) == CHOOSE i \in S : \A j \in S : i <= j
  IN  IF \A i \in DOMAIN z.tx : z.tx[i].type # 1 THEN 1
      ELSE IF z.types[first].dst /\ before # {} THEN Largest(before)
      ELSE IF std # {} THEN Least(std) ELSE 1

(* lookup: the last transition that is not after sec (a binary search),    *)
(* and the footer once the last of them is past.                           *)
Lookup(z, sec) ==
  LET past == {i \in DOMAIN z.tx : z.tx[i].when <= sec}
      lo   == CHOOSE i \in past : \A j \in past : j <= i
      next == IF lo = Len(z.tx) THEN Omega ELSE z.tx[lo + 1].when
  IN  IF z.types = <<>> THEN [offset |-> 0, start |-> Alpha, end |-> Omega]
      ELSE IF past = {}
      THEN [offset |-> z.types[IF z.tx = <<>> THEN 1 ELSE LookupFirstZone(z)].offset,
            start |-> Alpha, end |-> IF z.tx = <<>> THEN Omega ELSE z.tx[1].when]
      ELSE IF lo = Len(z.tx) /\ z.footer.present THEN TzSet(z.footer, z.tx[lo].when, sec)
      ELSE [offset |-> z.types[z.tx[lo].type].offset, start |-> z.tx[lo].when, end |-> next]

Offset(z, sec) == Lookup(z, sec).offset

(* The bound a period reports, or the next year when the 365 days of a     *)
(* leap year end where they were computed.                                 *)
Bound(end, t) ==
  IF end = Omega \/ end > t THEN end
  ELSE UnixFromCivil(CivilDate(t \div DaySeconds + EpochDay).year + 1, 1, 1, 0)
Step(z, t) == Bound(Lookup(z, t).end, t)

(* next_utc_offset_change_v2, with Omega for none.                         *)
Changed(z, offset, end) == end # Omega /\ Offset(z, end) # offset
ChangeFrom(z, offset, now) ==
  LET Search[t \in Nat] ==
        LET end == Step(z, t)
        IN  IF Changed(z, offset, end) THEN end
            ELSE IF end > MaxTimestamp THEN Omega ELSE Search[end]
  IN  Search[now]
NextOffsetChange(z, now) == ChangeFrom(z, Offset(z, now), now)

-----------------------------------------------------------------------------
(* Time windows.                                                           *)

(* local_time: the date and the minute of the day in the zone.             *)
LocalDate(z, t) == CivilDate((t + Offset(z, t)) \div DaySeconds + EpochDay)
MinuteOfDay(z, t) == ((t + Offset(z, t)) % DaySeconds) \div SecondsPerMinute

(* evaluate_constraint_v2 on a time_window; both ends are inclusive.       *)
InWindow(c, m) == IF c.start <= c.end THEN m \in c.start..c.end ELSE m >= c.start \/ m <= c.end
Inside(c, t) == InWindow(c, MinuteOfDay(c.zone, t))

MinOf(S) == CHOOSE h \in S : \A u \in S : h <= u
Lesser(x, y) == IF x < y THEN x ELSE y

(* The end of the window that is open at this date and minute.             *)
WindowEnd(c, date, minute, offset) ==
  UnixFromCivil(date.year, date.month, date.day + B2N(c.start > c.end /\ minute >= c.start), c.end + 1) - offset

(* Faulty variant: a change of the offset does not end the window.         *)
WindowValidUntilNoChange(c, now) ==
  WindowEnd(c, LocalDate(c.zone, now), MinuteOfDay(c.zone, now), Offset(c.zone, now))

(* The contribution of one window to local_time_window_valid_until_v2.     *)
WindowValidUntil(c, now) ==
  Lesser(WindowEnd(c, LocalDate(c.zone, now), MinuteOfDay(c.zone, now), Offset(c.zone, now)),
         NextOffsetChange(c.zone, now))

(* local_time_window_valid_until_v2: -1 when the windows do not hold, 0    *)
(* when there are none.  A horizon is clamped to the timestamp domain.     *)
Horizon(until, now) == IF until <= now THEN -1 ELSE Lesser(until, MaxTimestamp)
LocalValidUntil(chain, now) ==
  IF chain = {} THEN 0
  ELSE IF \E c \in chain : ~Inside(c, now) THEN -1
  ELSE Horizon(MinOf({WindowValidUntil(c, now) : c \in chain}), now)

-----------------------------------------------------------------------------
(* A verifier evaluates the windows of a chain at any time; what it allows *)
(* may be acted on until the horizon.                                      *)

VARIABLES now, chain, first, grant
vars == <<now, chain, first, grant>>

NoGrant == [at |-> 0, until |-> 0]

Init ==
  /\ now \in Starts /\ first = now
  /\ chain \in Chains
  /\ grant = NoGrant

Evaluate ==
  \E until \in {LocalValidUntil(chain, now)} :
    /\ until > 0
    /\ grant' = [at |-> now, until |-> until]
    /\ UNCHANGED <<now, chain, first>>

Tick ==
  /\ now < first + Span /\ now < MaxTimestamp
  /\ now' = now + 1
  /\ UNCHANGED <<chain, first, grant>>

Next == Evaluate \/ Tick
Spec == Init /\ [][Next]_vars

-----------------------------------------------------------------------------
(* Types.                                                                  *)
TypeOK ==
  /\ now \in 0..MaxTimestamp /\ chain \in Chains /\ first \in Starts
  /\ grant.at \in 0..MaxTimestamp /\ grant.until \in 0..MaxTimestamp

(* An allow that is used before its horizon is used while every window of  *)
(* its chain holds, whatever transition of a zone falls in between         *)
(* (local_time_window_valid_until_v2 against evaluate_constraint_v2).      *)
GrantInsideWindows ==
  grant.at <= now /\ now < grant.until => \A c \in chain : Inside(c, now)

(* A horizon is not shorter than it has to be: at that second a window is  *)
(* over, a window that covers the whole day begins again, a zone changes   *)
(* its offset, or the timestamp domain ends.                               *)
GrantMaximal ==
  now = grant.until /\ now # 0 =>
    \/ now = MaxTimestamp
    \/ \E c \in chain : \/ ~Inside(c, now)
                        \/ (c.end + 1) % MinutesPerDay = c.start
                        \/ Offset(c.zone, now) # Offset(c.zone, now - 1)

(* next_utc_offset_change_v2 finds the first second with another offset:   *)
(* no period bound is taken for a change and no change is stepped over,    *)
(* the end of a leap year included.                                        *)
NextChangeExact ==
  \A c \in chain :
    LET next == NextOffsetChange(c.zone, now)
    IN  /\ next > now
        /\ \A t \in now..(now + DaySeconds) :
             /\ t < next => Offset(c.zone, t) = Offset(c.zone, now)
             /\ t = next => Offset(c.zone, t) # Offset(c.zone, now)
=============================================================================
