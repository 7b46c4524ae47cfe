---------------------------- MODULE MCConstraints ----------------------------
(***************************************************************************)
(* The constraints of a v2 chain in one run, a scenario chosen at the      *)
(* start: the calendar, time windows over zones, the evaluation of a       *)
(* chain, and receiver audiences.                                          *)
(***************************************************************************)
EXTENDS Audience, ConstraintEvaluation, TLC

VARIABLES scenario,
          abs, date, weekday,    \* CountedCalendar
          chain, first, grant    \* CivilTime

calendarVars == <<abs, date, weekday>>
civilOnly == <<chain, first, grant>>
audienceOnly == <<links, ms, skew, last>>
allVars == <<scenario, calendarVars, civilOnly, vars, audienceVars>>

(* Days of three minutes of two seconds.                                   *)
SecondsPerMinute == 2
MinutesPerDay == 3
Counted == INSTANCE CountedCalendar WITH FirstYear <- 1895, LastYear <- 2105

-----------------------------------------------------------------------------
(* Zones with a northern, a southern and no daylight-saving rule and one   *)
(* with explicit transitions, around transitions and year ends.            *)
M(mon, week, day) == [kind |-> "mwd", mon |-> mon, week |-> week, day |-> day, time |-> 2]
NoFooter == [std |-> 0, hasDst |-> FALSE, present |-> FALSE]
Dst(from, to) == [std |-> 0, dst |-> 2, hasDst |-> TRUE, present |-> TRUE, from |-> from, to |-> to]
Fixed == [NoFooter EXCEPT !.std = 3, !.present = TRUE]

Types == <<[offset |-> 0, dst |-> FALSE], [offset |-> 2, dst |-> TRUE], [offset |-> -2, dst |-> FALSE]>>
Zone(tx, footer) == [types |-> Types, tx |-> tx, footer |-> footer]
At(when, type) == [when |-> when, type |-> type]

Day(y, m, d) == Counted!UnixFromCivil(y, m, d, 0)
North == Zone(<<At(0, 1)>>, Dst(M(3, 5, 0), M(10, 5, 0)))
South == Zone(<<At(0, 1)>>, Dst(M(10, 1, 0), M(4, 1, 0)))
YearEnd == Zone(<<At(0, 1)>>, Dst([kind |-> "julian", day |-> 365, time |-> 0], [kind |-> "doy", day |-> 1, time |-> 4]))
Table == Zone(<<At(Day(2000, 3, 26), 2), At(Day(2000, 3, 27), 1), At(Day(2000, 3, 27) + 1, 3)>>, NoFooter)
Constant == Zone(<<At(0, 1)>>, Fixed)

Window(z, s, e) == [zone |-> z, start |-> s, end |-> e]
Windows == {Window(z, s, e) : z \in {North, South, YearEnd, Table, Constant}, s \in 0..2, e \in 0..2}
WindowChains ==
  {{w} : w \in Windows} \cup {{Window(North, 0, 1), Window(South, 1, 2)}, {Window(Table, 2, 0), Window(YearEnd, 2, 1)}}
LastSecond == Day(2005, 1, 15)
WindowStarts ==
  {Day(y, m, d) : y \in {2000, 2001}, m \in {3, 10}, d \in {25, 26, 28}}
    \cup {Day(y, 12, d) : y \in {2000, 2001, 2003, 2004}, d \in {29, 30, 31}}
    \cup {Day(2001, 4, 1) - 2, Day(2000, 10, 1) - 2, LastSecond - 5}
Civil == INSTANCE CivilTime WITH
  MaxTimestamp <- LastSecond, Chains <- WindowChains, Starts <- WindowStarts, Span <- 15

-----------------------------------------------------------------------------
(* Chains of three or four constraints with custom and standard            *)
(* extensions.                                                             *)
On(cert, c) == c @@ [issuer |-> "iss", cert |-> cert]
Custom(name) == [kind |-> name]
Rate(n, w) == [kind |-> "max_rate", count |-> n, window |-> w]
Amount(m) == [kind |-> "max_amount", currency |-> "EUR", max |-> m]
TimeW(known, inside) == [kind |-> "time_window", zoneKnown |-> known, inside |-> inside]
Path(s) == [rooted |-> TRUE, segs |-> s]
Resource(prefix) == [kind |-> "resource_path", resource |-> "db", prefix |-> prefix]
Count(m) == [kind |-> "max_count", wellFormed |-> TRUE, counter |-> "n", max |-> m]
Value(a, ok) == [kind |-> "allowed_values", wellFormed |-> ok, field |-> "f", allowed |-> a]

ExtChains == {<<On("c1", Custom("x")), On("c1", Custom("y")), On("c2", Amount(2))>>}
ExtContexts == {[hasAmount |-> TRUE, amount |-> 2, currency |-> "EUR", hasResource |-> FALSE, resource |-> "none",
                 path |-> Paths!NoPath, counts |-> <<>>, values |-> <<>>]}
ExtResults == {Result("pass", n) : n \in {0, 5, 6, 9}} \cup {Result("denied", n) : n \in {0, 6}}
              \cup {Result("unverifiable", 0), Result("invalid", 0)}
ExtRegistries == {<<"x", "y">>, <<"y">>}
Extensions == INSTANCE ConstraintEvaluation WITH
  Chains <- ExtChains, Contexts <- ExtContexts, Registries <- ExtRegistries,
  Timeouts <- {1, 2, 9}, Modes <- {"worker", "calling"}, Results <- ExtResults,
  TzdbVersions <- {"pinned"}

KindChains ==
  {<<On("c1", a), On("c1", b), On("c2", Rate(1, 60)), On("c2", Rate(2, 60))>> :
     a \in {Amount(2), TimeW(TRUE, TRUE), TimeW(TRUE, FALSE), TimeW(FALSE, TRUE), Count(1), Value({"u"}, TRUE), Custom("unknown"), [kind |-> "receiver_audience"]},
     b \in {Resource(Paths!NoPath), Resource(Path(<<"src">>)), Resource(Path(<<"..">>)), Rate(3, 60), Value({"u"}, FALSE)}}
Ctx(a, r, p, n, v) ==
  [hasAmount |-> a >= 0, amount |-> IF a >= 0 THEN a ELSE 0, currency |-> IF a >= 0 THEN "EUR" ELSE "none",
   hasResource |-> r # "none", resource |-> r, path |-> p, counts |-> n, values |-> v]
KindContexts ==
  {Ctx(a, r, p, n, v) : a \in {-1, 2, 3}, r \in {"none", "db", "other"}, p \in {Paths!NoPath, Path(<<"src", "a">>), Path(<<"srcs">>)},
                        n \in {<<>>, [x \in {"n"} |-> 1], [x \in {"n"} |-> 2], [x \in {"n"} |-> 99]}, v \in {<<>>, [x \in {"f"} |-> "u"]}}
KindRegistries == {<<"max_count", "allowed_values">>, <<"max_count", "max_count">>, <<"max_amount">>, <<>>}
Kinds == INSTANCE ConstraintEvaluation WITH
  Chains <- KindChains, Contexts <- KindContexts,
  Registries <- KindRegistries,
  Timeouts <- {1}, Modes <- {"worker"},
  Results <- {Result("pass", 0), Result("pass", 6), Result("denied", 0)},
  TzdbVersions <- {"pinned", "other"}

-----------------------------------------------------------------------------
(* Two links; memberships that are missing, doubled, for another receiver, *)
(* early, late or expiring.                                                *)
Link(e, d, a) == [exact |-> e, domains |-> d, age |-> a]
Links == {Link(<<"r1">>, <<>>, 0), Link(<<"r2">>, <<>>, 0), Link(<<"r2">>, <<"d1">>, 2), Link(<<>>, <<"d1", "d2">>, 4),
          Link(<<"r1">>, <<"d2">>, 1), Link(<<"r1", "r1">>, <<>>, 0), Link(<<>>, <<"d1">>, 9)}
Member(i, r, d, from, to) == [link |-> i, receiver |-> r, domains |-> d, issued |-> from, expires |-> to]
Own(i) == {Member(i, r, d, from, to) : r \in {"r1", "r2"}, d \in {<<"d1">>, <<"d3">>, <<"d1", "d1">>}, from \in {1, 3}, to \in {3, 6}}
MemberLists ==
  {<<>>} \cup {<<m>> : m \in Own(1)} \cup {<<a, b>> : a \in Own(1), b \in Own(2)}
    \cup {<<Member(1, "r1", <<"d1">>, 1, 5), Member(1, "r1", <<"d1">>, 1, 6), Member(2, "r1", <<"d3">>, 1, 7)>>}
OneOrTwoLinks == {<<a>> : a \in Links} \cup {<<a, b>> : a, b \in Links}

AllChains == ExtChains \cup KindChains
AllContexts == ExtContexts \cup KindContexts
AllRegistries == ExtRegistries \cup KindRegistries

ASSUME Counted!ClockAssumption /\ Civil!TimeAssumption

-----------------------------------------------------------------------------
off == "off"
CalendarIdle == abs = off /\ date = off /\ weekday = off
CivilIdle == chain = off /\ first = off /\ grant = off
EvalIdle == /\ config = off /\ phase = off /\ pos = 1 /\ verdicts = <<>> /\ horizon = 0
            /\ elapsed = 0 /\ threads = <<>> /\ channel = <<>> /\ received = None
            /\ basis = <<>> /\ counters = {}
AudienceIdle == links = <<>> /\ ms = <<>> /\ skew = 0 /\ last = NoAssessment

ConstraintsInit ==
  \/ scenario = "calendar" /\ Counted!Init /\ now = 0 /\ CivilIdle /\ EvalIdle /\ AudienceIdle
  \/ scenario = "civil" /\ Civil!Init /\ CalendarIdle /\ EvalIdle /\ AudienceIdle
  \/ scenario = "extensions" /\ Extensions!Init /\ now = 0 /\ CalendarIdle /\ CivilIdle /\ AudienceIdle
  \/ scenario = "kinds" /\ Kinds!Init /\ now = 0 /\ CalendarIdle /\ CivilIdle /\ AudienceIdle
  \/ scenario = "audience" /\ AudienceInit /\ CalendarIdle /\ CivilIdle /\ EvalIdle

ConstraintsNext ==
  /\ UNCHANGED scenario
  /\ \/ scenario = "calendar" /\ Counted!NextDay /\ UNCHANGED <<civilOnly, vars, audienceVars>>
     \/ scenario = "civil" /\ Civil!Next /\ UNCHANGED <<calendarVars, vars, audienceOnly>>
     \/ /\ \/ scenario = "extensions" /\ Extensions!Next
           \/ scenario = "kinds" /\ Kinds!Next
        /\ UNCHANGED <<calendarVars, civilOnly, audienceVars>>
     \/ scenario = "audience" /\ AudienceNext /\ UNCHANGED <<calendarVars, civilOnly, vars>>

ConstraintsSpec == ConstraintsInit /\ [][ConstraintsNext]_allVars

-----------------------------------------------------------------------------
(* An allow is used exactly while every window of its chain holds, over    *)
(* the changes of every zone, in a calendar that agrees with one counted   *)
(* day by day.                                                             *)
GrantExact ==
  /\ scenario = "calendar" => Counted!CalendarAgrees /\ Counted!RuleDayAgrees
  /\ scenario = "civil" => Civil!GrantInsideWindows /\ Civil!GrantMaximal /\ Civil!NextChangeExact
=============================================================================
