-------------------------- MODULE ConstraintDrafts --------------------------
(***************************************************************************)
(* An issuer drafts the resource constraints of one certificate and a      *)
(* verifier evaluates a request against them; in parallel, an interval and *)
(* a point of a day (or of a circle of longitude) of Points units.         *)
(***************************************************************************)
EXTENDS ConstraintsV1

CONSTANTS Points, MaxConstraints

VARIABLES draft, interval, granted, probe

Path(segs) == [rooted |-> TRUE, segs |-> segs]
Paths == {Root, Path(<<"src">>), Path(<<"src", "">>), Path(<<"src", "a">>),
          Path(<<"src", "..">>), Path(<<"src-old">>), Path(<<"src", "a", "a">>),
          Path(<<"src", "", "a">>), [rooted |-> FALSE, segs |-> <<"src">>]}
WirePrefixes == Paths \cup {NoPath}
Resource(r, p) == [kind |-> "resource_path", resource |-> r, prefix |-> p]
Requests == {[resource |-> r, path |-> p, evaluators |-> <<>>] : r \in {None, "r1", "r2"}, p \in WirePrefixes}

(* One constraint of every kind, and contexts around its limits.           *)
Kinds == {[kind |-> "geo_bbox", minLat |-> 1, maxLat |-> 2, minLon |-> 3, maxLon |-> 1, minAlt |-> a, maxAlt |-> 2 * a] : a \in 0..1}
         \cup {[kind |-> "geo_area", spansAntimeridian |-> s, area |-> {<<1, 1>>, <<2, 3>>}] : s \in BOOLEAN}
         \cup {[kind |-> "max_speed_mps", max |-> 1], [kind |-> "max_amount", max |-> 1, currency |-> "usd"]}
         \cup {[kind |-> "max_rate", count |-> n, window |-> 1] : n \in 0..2}
         \cup {[kind |-> "unknown"], [kind |-> "extension"]}
Here == [lat |-> 0, lon |-> 0, alt |-> Absent, speed |-> 1, amount |-> 1, currency |-> "usd",
         counter |-> TRUE, count |-> 1, evaluators |-> [k \in {"extension"} |-> "ok"]]
Contexts == {[Here EXCEPT !.lat = x, !.lon = y, !.alt = z] : x \in -1..3, y \in -1..3, z \in -1..3}
            \cup {[Here EXCEPT !.speed = x, !.amount = y, !.currency = u, !.counter = k, !.count = n] :
                    x \in -1..2, y \in -1..2, u \in {None, "usd", "eur"}, k \in BOOLEAN, n \in -1..2}

Init ==
  /\ draft = <<>> /\ granted = {}
  /\ \/ interval \in (0..Points-1) \X (0..Points-1) /\ probe = <<[kind |-> "unknown"], Here>>
     \/ interval = <<0, 0>> /\ probe \in Kinds \X Contexts

(* The requests a certificate with the draft's constraints admits.         *)
Admitted(cs) == {q \in Requests : EvaluateConstraints(cs, q) = "ok"}

AddConstraint(r, p) ==
  /\ Len(draft) < MaxConstraints /\ probe[1].kind = "unknown"
  /\ draft' = Append(draft, Resource(r, p))
  /\ granted' = Admitted(draft')
  /\ interval' = <<0, 0>>
  /\ probe' = <<[kind |-> "unknown"], Here>>

Next == \E r \in {None, "r1", "r2"}, p \in WirePrefixes : AddConstraint(r, p)

Spec == Init /\ [][Next]_<<draft, interval, granted, probe>>

(* An issuer may sign a certificate exactly if its resource constraints    *)
(* are jointly satisfiable: validate_resource_constraints, which only      *)
(* compares the constraints pairwise, accepts a draft if and only if the   *)
(* verifier's evaluate_constraints admits some request.                    *)
IssuableIffSatisfiable == draft # <<>> => (Issuable(draft) <=> granted # {})

(* A request is admitted only inside the subtree of every prefix: a        *)
(* sibling whose name merely begins with the prefix is not, and neither is *)
(* a path that climbs out of it.                                           *)
Inside(prefix, path) == \E k \in 0..Len(Trimmed(path)) : SubSeq(Trimmed(path), 1, k) = Trimmed(prefix)
AdmittedInside ==
  \A q \in granted : \A i \in DOMAIN draft :
    /\ q.resource = draft[i].resource
    /\ draft[i].prefix # NoPath => /\ q.path.rooted /\ ".." \notin {q.path.segs[k] : k \in DOMAIN q.path.segs}
                                   /\ Inside(draft[i].prefix, q.path)

(* An interval admits the points met on the walk from its start upwards,   *)
(* past the end of the circle if need be, to its end: a time window over   *)
(* midnight and a bounding box over the antimeridian.                      *)
Walk(from, to) ==
  {(from + k) % Points : k \in 0..((to - from) % Points)}
IntervalIsWalk ==
  \A x \in 0..Points-1 : InInterval(x, interval[1], interval[2]) <=> x \in Walk(interval[1], interval[2])

(* A context that satisfies a constraint and then loses a fact the         *)
(* constraint is about neither satisfies it nor is denied by it: the       *)
(* verifier answers that it cannot tell.                                   *)
Facts == [geo_bbox |-> {"lat", "lon", "alt"}, geo_area |-> {"lat", "lon"}, max_speed_mps |-> {"speed"},
          max_amount |-> {"amount"}, max_rate |-> {"counter"}, unknown |-> {}, extension |-> {}]
Unbounded(c, fact) == c.kind = "geo_bbox" /\ fact = "alt" /\ c.minAlt = 0 /\ c.maxAlt = 0
MissingFactUnverifiable ==
  LET c == probe[1]  ctx == probe[2]
  IN  EvaluateConstraint(c, ctx) = "ok" =>
        \A fact \in Facts[c.kind] :
          EvaluateConstraint(c, [ctx EXCEPT ![fact] = IF fact = "counter" THEN FALSE ELSE Absent]) =
            IF Unbounded(c, fact) THEN "ok" ELSE "constraint_unverifiable"
=============================================================================
