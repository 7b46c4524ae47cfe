------------------------------- MODULE Audience -------------------------------
(***************************************************************************)
(* Receiver audiences: the registry's check of a signed audience           *)
(* (sdks/rust/src/v2/constraints.rs), the exact-only check of preflight    *)
(* (preflight.rs) and the evaluation of memberships (audience.rs).         *)
(*                                                                         *)
(* A link is [exact, domains, age]: sequences of receivers and of trust    *)
(* domains, and the membership age, 0 when the member is absent.  A        *)
(* membership is what the caller's provider returned for a link.           *)
(***************************************************************************)
EXTENDS Integers, Sequences, FiniteSets

CONSTANTS
  Receiver,      \* the verifier's authenticated expected receiver
  LinkLists,     \* the audience constraints a chain may carry
  Memberships,   \* sequences of provider results
  Skews,         \* configured future skews
  MaxIds, MaxAge, MaxSkew, MaxTime

ASSUME LimitsAssumption ==
  /\ {MaxIds, MaxAge, MaxSkew, MaxTime} \subseteq Nat /\ 1 < MaxTime
  /\ Skews \subseteq Int

(* The stage has at least one audience constraint, and a provider's times  *)
(* are seconds.                                                            *)
ASSUME AudienceAssumption ==
  /\ \A ls \in LinkLists : /\ Len(ls) \in Nat \ {0} /\ DOMAIN ls = 1..Len(ls)
                           /\ \A i \in DOMAIN ls : ls[i].age \in Nat
  /\ \A m \in Memberships : \A k \in DOMAIN m : m[k].issued \in Int /\ m[k].expires \in Int

Members(s) == {s[i] : i \in DOMAIN s}
Unique(s) == Cardinality(Members(s)) = Len(s)

(* validate_v2_receiver_audience.                                          *)
ValidLink(l) ==
  /\ l.exact # <<>> \/ l.domains # <<>>
  /\ \A ids \in {l.exact, l.domains} : Len(ids) <= MaxIds /\ Unique(ids) /\ "none" \notin Members(ids)
  /\ IF l.domains = <<>> THEN l.age = 0 ELSE l.age \in 1..MaxAge

Named(l) == Receiver \in Members(l.exact)

(* check_exact_receiver_audience_v2.                                       *)
PreflightPasses(links) ==
  \A i \in DOMAIN links : links[i].domains # <<>> \/ Named(links[i])

MinOf(S) == CHOOSE x \in S : \A y \in S : x <= y

(* The strictest age of all links that name trust domains.                 *)
MembershipAge(links) ==
  MinOf({links[i].age : i \in {i \in DOMAIN links : links[i].domains # <<>>}} \cup {MaxTime})

(* Faulty variant: a membership still counts in the second it expires.     *)
CurrentInclusive(m, age, now, skew) ==
  /\ m.receiver = Receiver /\ m.issued < m.expires
  /\ now <= m.expires /\ m.issued - now <= skew /\ now - m.issued < age

(* A membership that may be used at this time; ages and expiry are         *)
(* exclusive.                                                              *)
Current(m, age, now, skew) ==
  /\ m.receiver = Receiver /\ m.issued < m.expires
  /\ now < m.expires /\ m.issued - now <= skew /\ now - m.issued < age

(* What one link contributes: nothing, "denied", "unavailable", a horizon  *)
(* or, for an exact-only mismatch, an error.                               *)
LinkResult(links, i, ms, now, skew) ==
  LET l     == links[i]
      own   == {k \in DOMAIN ms : ms[k].link = i}
      m     == ms[CHOOSE k \in own : TRUE]
      age   == MembershipAge(links)
  IN  IF Named(l) THEN [status |-> "passed", until |-> MaxTime, evidence |-> {}]
      ELSE IF l.domains = <<>> THEN [status |-> "error", until |-> 0, evidence |-> {}]
      ELSE IF Cardinality(own) # 1 THEN [status |-> "unavailable", until |-> 0, evidence |-> {}]
      ELSE IF ~Current(m, age, now, skew) \/ ~Unique(m.domains)
      THEN [status |-> "unavailable", until |-> 0, evidence |-> {}]
      ELSE IF Members(m.domains) \cap Members(l.domains) = {}
      THEN [status |-> "denied", until |-> 0, evidence |-> {i}]
      ELSE [status |-> "passed", until |-> MinOf({m.expires, m.issued + age}), evidence |-> {i}]

(* evaluate_receiver_audience_inner: a proven mismatch outranks an         *)
(* unavailable membership of another link.                                 *)
Assess(links, ms, now, skew) ==
  LET results == {LinkResult(links, i, ms, now, skew) : i \in DOMAIN links}
      Has(s) == \E r \in results : r.status = s
      out(s, u) == [status |-> s, until |-> u, evidence |-> UNION {r.evidence : r \in results}]
  IN  IF Has("error") THEN out("error", 0)
      ELSE IF Has("denied") THEN out("constraint_denied", 0)
      ELSE IF Has("unavailable") THEN out("constraint_unverifiable", 0)
      ELSE out("passed", MinOf({r.until : r \in results}))

-----------------------------------------------------------------------------
(* The provider's answer is fixed; verifiers assess it at any time.        *)
VARIABLES links, ms, skew, now, last
audienceVars == <<links, ms, skew, now, last>>

NoAssessment == [status |-> "none", until |-> 0, evidence |-> {}, at |-> 0]

AudienceInit ==
  /\ links \in {ls \in LinkLists : PreflightPasses(ls) /\ \A i \in DOMAIN ls : ValidLink(ls[i])}
  /\ ms \in Memberships /\ skew \in Skews \cap 0..MaxSkew
  /\ now = 1 /\ last = NoAssessment

EvaluateAudience ==
  LET a == Assess(links, ms, now, skew)
  IN  /\ last' = [status |-> a.status, until |-> a.until, evidence |-> a.evidence, at |-> now]
      /\ UNCHANGED <<links, ms, skew, now>>

ClockTick ==
  /\ now < MaxTime - 1
  /\ now' = now + 1
  /\ UNCHANGED <<links, ms, skew, last>>

AudienceNext == EvaluateAudience \/ ClockTick
AudienceSpec == AudienceInit /\ [][AudienceNext]_audienceVars

-----------------------------------------------------------------------------
(* The horizon of a passed audience is exact: the same memberships pass at *)
(* every second before it and at none after it (fresh_until).              *)
HorizonExact ==
  last.status = "passed" => (Assess(links, ms, now, skew).status = "passed" <=> now < last.until)

(* A mismatch that is proven by a current membership is reported although  *)
(* the membership of another link is missing, doubled or stale.            *)
ProvenMismatchReported ==
  last.at = now /\ last.at # 0 =>
    ((\E i \in DOMAIN links : LinkResult(links, i, ms, now, skew).status = "denied") => last.status = "constraint_denied")

(* An exact-only audience that preflight let through never fails here: the *)
(* two checks agree on who is named.                                       *)
NoLateMismatch == last.status # "error"

(* The horizon of a passed audience is exact, a proven mismatch is         *)
(* reported although another membership is missing, and the preflight and  *)
(* the evaluation agree on who is named.                                   *)
AudienceExact == HorizonExact /\ ProvenMismatchReported /\ NoLateMismatch
=============================================================================
