---------------------------- MODULE ConstraintsV1 ----------------------------
(***************************************************************************)
(* Protocol v1 scopes and constraints: sdks/rust/src/scope.rs,             *)
(* constraints.rs and resource_path.rs.                                    *)
(*                                                                         *)
(* The scope vocabulary is a part of the real one with every kind of       *)
(* member: ordinary, sensitive, nested wildcards and a custom extension.   *)
(* A path is [rooted, segs]: whether it begins with "/", and the segments  *)
(* that splitting the rest at "/" gives; "bad" is a segment with a NUL or  *)
(* a backslash.  Coordinates and minutes are small integers; a context     *)
(* value of -1 (or None) is absent.                                        *)
(***************************************************************************)
EXTENDS Integers, Sequences, FiniteSets

None == "none"
Absent == -1

-----------------------------------------------------------------------------
(* Scopes.                                                                 *)

Sensitive == {"identity:delegate", "comms:message:delete", "data:write"}
Ordinary == {"comms:message:read", "comms:message:send", "comms:calendar:read",
             "data:read", "data:share"}
Custom == {"custom:x"}

Wildcards == {"comms:message:*", "comms:*", "data:*"}

(* wildcard_expansion: the ordinary members only.                          *)
WildcardExpansion(w) ==
  CASE w = "comms:message:*" -> {"comms:message:read", "comms:message:send"}
    [] w = "comms:*" -> {"comms:message:read", "comms:message:send", "comms:calendar:read"}
    [] w = "data:*" -> {"data:read", "data:share"}
    [] w \notin Wildcards -> {}

(* validate_scopes.                                                        *)
ValidScopes(scopes) == scopes \subseteq Sensitive \cup Ordinary \cup Custom \cup Wildcards

(* expand_scopes.                                                          *)
Expand(scopes) ==
  UNION {IF s \in Wildcards THEN WildcardExpansion(s) ELSE {s} : s \in scopes}

(* Faulty variant: only the agent's own certificate counts.                *)
IntersectScopesFirst(lists) == Expand(lists[1])

(* intersect_scopes over the certificates of a chain.                      *)
IntersectScopes(lists) ==
  {s \in Expand(lists[1]) : \A i \in DOMAIN lists : s \in Expand(lists[i])}

-----------------------------------------------------------------------------
(* Logical paths.                                                          *)

NoPath == [rooted |-> FALSE, segs |-> <<"absent">>]
EmptyPath == [rooted |-> FALSE, segs |-> <<>>]
Root == [rooted |-> TRUE, segs |-> <<"">>]

(* At most one trailing slash is trimmed, except of the root itself.       *)
Trimmed(p) ==
  IF p = Root THEN <<>>
  ELSE IF p.segs[Len(p.segs)] = "" THEN SubSeq(p.segs, 1, Len(p.segs) - 1) ELSE p.segs

(* normalize_resource_path succeeds, with Trimmed(p) the comparison form.  *)
ValidPath(p) ==
  /\ p.rooted
  /\ \A i \in DOMAIN Trimmed(p) : Trimmed(p)[i] \notin {"", ".", "..", "bad"}

(* resource_path_matches, on segment boundaries.                           *)
PathMatches(prefix, path) ==
  LET p == Trimmed(prefix)  q == Trimmed(path)
  IN  /\ ValidPath(prefix) /\ ValidPath(path)
      /\ Len(p) <= Len(q) /\ SubSeq(q, 1, Len(p)) = p

(* resource_paths_nested: an absent prefix orders as "/", and an empty one *)
(* is read as absent (unwrap_or).                                          *)
Nested(a, b) ==
  LET p == IF a \in {NoPath, EmptyPath} THEN Root ELSE a
      q == IF b \in {NoPath, EmptyPath} THEN Root ELSE b
  IN  PathMatches(p, q) \/ PathMatches(q, p)

(* Faulty variant: each prefix is compared with the one before it only.    *)
IssuableAdjacent(cs) ==
  /\ \A i \in DOMAIN cs : cs[i].resource # None /\ (cs[i].prefix \in {NoPath, EmptyPath} \/ ValidPath(cs[i].prefix))
  /\ \A i \in DOMAIN cs : cs[i].resource = cs[1].resource
  /\ \A i \in DOMAIN cs : i > 1 => Nested(cs[i - 1].prefix, cs[i].prefix)

(* validate_resource_constraints over the resource_path constraints of one *)
(* certificate.                                                            *)
Issuable(cs) ==
  /\ \A i \in DOMAIN cs : cs[i].resource # None /\ (cs[i].prefix \in {NoPath, EmptyPath} \/ ValidPath(cs[i].prefix))
  /\ \A i \in DOMAIN cs : cs[i].resource = cs[1].resource
  /\ \A i, j \in DOMAIN cs : Nested(cs[j].prefix, cs[i].prefix)

-----------------------------------------------------------------------------
(* evaluate_constraint, per kind.  Each answers "ok" or the identity       *)
(* status the failure is routed to.                                        *)

ResourcePath(c, ctx) ==
  IF ctx.resource = None THEN "constraint_unverifiable"
  ELSE IF c.resource = None \/ ctx.resource # c.resource THEN "constraint_denied"
  ELSE IF c.prefix = NoPath THEN "ok"
  ELSE IF ~ValidPath(c.prefix) THEN "constraint_denied"
  ELSE IF ctx.path \in {NoPath, EmptyPath} THEN "constraint_unverifiable"
  ELSE IF ValidPath(ctx.path) /\ PathMatches(c.prefix, ctx.path) THEN "ok"
  ELSE "constraint_denied"

(* The interval from..to, wrapping when from > to: a time window over the  *)
(* minutes of the day, a bounding box over longitudes.                     *)
InInterval(x, from, to) == IF from <= to THEN from <= x /\ x <= to ELSE x >= from \/ x <= to

GeoBox(c, ctx) ==
  IF ctx.lat = Absent \/ ctx.lon = Absent THEN "constraint_unverifiable"
  ELSE IF ctx.lat \notin c.minLat..c.maxLat THEN "constraint_denied"
  ELSE IF ~InInterval(ctx.lon, c.minLon, c.maxLon) THEN "constraint_denied"
  ELSE IF c.minAlt = 0 /\ c.maxAlt = 0 THEN "ok"
  ELSE IF ctx.alt = Absent THEN "constraint_unverifiable"
  ELSE IF ctx.alt \in c.minAlt..c.maxAlt THEN "ok" ELSE "constraint_denied"

(* geo_circle and geo_polygon: area is the set of positions inside; a      *)
(* polygon of more than half the globe has no area it can be tested for.   *)
GeoArea(c, ctx) ==
  IF ctx.lat = Absent \/ ctx.lon = Absent THEN "constraint_unverifiable"
  ELSE IF ~c.spansAntimeridian /\ <<ctx.lat, ctx.lon>> \in c.area THEN "ok"
  ELSE "constraint_denied"

TimeWindow(c, minute) ==
  IF ~c.wellFormed THEN "constraint_denied"
  ELSE IF InInterval(minute, c.start, c.end) THEN "ok" ELSE "constraint_denied"

MaxSpeed(c, ctx) ==
  IF ctx.speed = Absent THEN "constraint_unverifiable"
  ELSE IF ctx.speed > c.max THEN "constraint_denied" ELSE "ok"

MaxAmount(c, ctx) ==
  IF ctx.amount = Absent \/ ctx.currency = None THEN "constraint_unverifiable"
  ELSE IF ctx.currency # c.currency \/ ctx.amount > c.max THEN "constraint_denied" ELSE "ok"

(* A negative answer of the counter is no count.                           *)
MaxRate(c, ctx) ==
  IF ~ctx.counter THEN "constraint_unverifiable"
  ELSE IF c.count <= 0 \/ c.window <= 0 THEN "constraint_denied"
  ELSE IF ctx.count < 0 THEN "constraint_unverifiable"
  ELSE IF ctx.count >= c.count THEN "constraint_denied" ELSE "ok"

BuiltInKinds == {"resource_path", "geo_bbox", "geo_area", "time_window", "max_speed_mps",
                 "max_amount", "max_rate"}

(* Built-in kinds first; an extension evaluator only for an unknown kind.  *)
EvaluateConstraint(c, ctx) ==
  CASE c.kind = "resource_path" -> ResourcePath(c, ctx)
    [] c.kind = "geo_bbox"      -> GeoBox(c, ctx)
    [] c.kind = "geo_area"      -> GeoArea(c, ctx)
    [] c.kind = "time_window"   -> TimeWindow(c, ctx.minute)
    [] c.kind = "max_speed_mps" -> MaxSpeed(c, ctx)
    [] c.kind = "max_amount"    -> MaxAmount(c, ctx)
    [] c.kind = "max_rate"      -> MaxRate(c, ctx)
    [] c.kind \notin BuiltInKinds ->
         IF c.kind \in DOMAIN ctx.evaluators THEN ctx.evaluators[c.kind] ELSE "constraint_unknown"

(* evaluate_constraints: the first constraint that does not pass decides.  *)
EvaluateConstraints(cs, ctx) ==
  LET failed == {i \in DOMAIN cs : EvaluateConstraint(cs[i], ctx) # "ok"}
  IN  IF failed = {} THEN "ok"
      ELSE EvaluateConstraint(cs[CHOOSE i \in failed : \A j \in failed : i <= j], ctx)
=============================================================================
