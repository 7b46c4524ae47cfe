--------------------------- MODULE ConstraintsProofs ---------------------------
(***************************************************************************)
(* Receiver audiences and the evaluation of the constraints of a chain,    *)
(* for every provider's answer, every evaluator and every schedule of      *)
(* their threads.                                                          *)
(*                                                                         *)
(* A kept audience assessment is the one of its own time, and a link that  *)
(* passed goes on passing exactly up to its horizon.  The invariant of the *)
(* evaluation follows the cursor: each call below it has its own thread or *)
(* its own answer, and each verdict below it is judged by that answer.     *)
(***************************************************************************)
EXTENDS Audience, ConstraintEvaluation, SequenceTheorems, FiniteSetTheorems, WellFoundedInduction, TLAPS

-----------------------------------------------------------------------------
(* A set of seconds or counts that is not empty has a least element.       *)
LEMMA LeastExists ==
  ASSUME NEW S, S \subseteq Nat, S # {}
  PROVE  MinOf(S) \in S /\ \A y \in S : MinOf(S) <= y
<1> DEFINE R == {p \in Nat \X Nat : p[1] < p[2]}
<1>1. R = OpToRel(<, Nat)
  BY Zenon DEF OpToRel
<1>2. IsWellFoundedOn(R, Nat)
  BY <1>1, NatLessThanWellFounded, Zenon
<1>3. PICK x \in S : \A y \in S : <<y, x>> \notin R
  <2> HIDE DEF R
  <2> QED
    BY <1>2, WFMin
<1>4. ASSUME NEW y \in S PROVE x <= y
  <2>1. x \in Nat /\ y \in Nat /\ <<y, x>> \in Nat \X Nat /\ <<y, x>>[1] = y /\ <<y, x>>[2] = x
    OBVIOUS
  <2>2. ~(y < x)
    BY <1>3, <2>1, Zenon
  <2> QED
    BY <2>1, <2>2
<1> QED
  BY <1>4 DEF MinOf

Answered(i, t) == LinkResult(links, i, ms, t, skew)

Fixed ==
  /\ links \in LinkLists /\ PreflightPasses(links)
  /\ ms \in Memberships /\ skew \in Int

LEMMA AgeOfLinks == ASSUME Fixed PROVE MembershipAge(links) \in Nat
<1> DEFINE S == {links[i].age : i \in {i \in DOMAIN links : links[i].domains # <<>>}} \cup {MaxTime}
<1>1. S \subseteq Nat /\ S # {}
  BY AudienceAssumption, LimitsAssumption DEF Fixed
<1> HIDE DEF S
<1>2. MinOf(S) \in Nat
  BY <1>1, LeastExists
<1> QED
  BY <1>2 DEF MembershipAge, S

(* A link that passes goes on passing up to its horizon and never after.   *)
LEMMA LinkOverTime ==
  ASSUME Fixed, NEW i \in DOMAIN links, NEW t \in 1..(MaxTime - 1)
  PROVE  /\ Answered(i, t).status \in {"passed", "denied", "unavailable"}
         /\ Answered(i, t).status = "passed" =>
              /\ Answered(i, t).until \in Nat
              /\ \A u \in t..(MaxTime - 1) : Answered(i, u).status = "passed" <=> u < Answered(i, t).until
<1> DEFINE own == {k \in DOMAIN ms : ms[k].link = i}
           m   == ms[CHOOSE k \in own : TRUE]
           age == MembershipAge(links)
<1>1. ~Named(links[i]) => links[i].domains # <<>>
  BY DEF Fixed, PreflightPasses
<1>2. CASE Named(links[i])
  BY <1>2, LimitsAssumption DEF Answered, LinkResult
<1>3. CASE ~Named(links[i]) /\ Cardinality(own) # 1
  BY <1>1, <1>3 DEF Answered, LinkResult
<1>4. CASE ~Named(links[i]) /\ Cardinality(own) = 1
  <2>1. own # {}
    BY <1>4, FS_EmptySet
  <2>2. m.issued \in Int /\ m.expires \in Int /\ age \in Nat /\ skew \in Int
    BY <2>1, AgeOfLinks, AudienceAssumption DEF Fixed
  <2>3. \A x, y \in Int : MinOf({x, y}) = IF x <= y THEN x ELSE y
    BY DEF MinOf
  <2> DEFINE disjoint == Members(m.domains) \cap Members(links[i].domains) = {}
             until == MinOf({m.expires, m.issued + age})
  <2> HIDE DEF m, age, own
  <2>4. until = IF m.expires <= m.issued + age THEN m.expires ELSE m.issued + age
    BY <2>2, <2>3
  <2>5. ASSUME NEW u \in Int
        PROVE  Answered(i, u) =
                 IF ~Current(m, age, u, skew) \/ ~Unique(m.domains)
                 THEN [status |-> "unavailable", until |-> 0, evidence |-> {}]
                 ELSE IF disjoint THEN [status |-> "denied", until |-> 0, evidence |-> {i}]
                 ELSE [status |-> "passed", until |-> until, evidence |-> {i}]
    BY <1>1, <1>4 DEF Answered, LinkResult, own, m, age
  <2>6. ASSUME NEW u \in t..(MaxTime - 1), Current(m, age, t, skew)
        PROVE  Current(m, age, u, skew) <=> u < until
    BY <2>2, <2>4, <2>6, LimitsAssumption DEF Current
  <2>7. Current(m, age, t, skew) => until \in Nat
    BY <2>2, <2>4, LimitsAssumption DEF Current
  <2> HIDE DEF disjoint, until
  <2>8. t \in Int /\ t..(MaxTime - 1) \subseteq Int
    BY LimitsAssumption
  <2> QED
    BY <2>5, <2>6, <2>7, <2>8
<1> QED
  BY <1>2, <1>3, <1>4

LEMMA AssessOverTime ==
  ASSUME Fixed, NEW t \in 1..(MaxTime - 1)
  PROVE  LET a == Assess(links, ms, t, skew)
         IN  /\ a.status # "error" /\ a.status # "none"
             /\ a.status = "passed" <=> \A i \in DOMAIN links : Answered(i, t).status = "passed"
             /\ a.status = "passed" => a.until = MinOf({Answered(i, t).until : i \in DOMAIN links})
             /\ (\E i \in DOMAIN links : Answered(i, t).status = "denied") => a.status = "constraint_denied"
<1> DEFINE results == {Answered(i, t) : i \in DOMAIN links}
           Has(s) == \E r \in results : r.status = s
           out(s, u) == [status |-> s, until |-> u, evidence |-> UNION {r.evidence : r \in results}]
           a == Assess(links, ms, t, skew)
<1>1. a = IF Has("error") THEN out("error", 0)
          ELSE IF Has("denied") THEN out("constraint_denied", 0)
          ELSE IF Has("unavailable") THEN out("constraint_unverifiable", 0)
          ELSE out("passed", MinOf({r.until : r \in results}))
  BY DEF Assess, Answered
<1>2. \A i \in DOMAIN links : Answered(i, t).status \in {"passed", "denied", "unavailable"}
  BY LinkOverTime
<1>3. {r.until : r \in results} = {Answered(i, t).until : i \in DOMAIN links}
  OBVIOUS
<1> HIDE DEF a
<1>4. ~Has("error")
  BY <1>2
<1>5. Has("denied") <=> \E i \in DOMAIN links : Answered(i, t).status = "denied"
  OBVIOUS
<1>6. Has("unavailable") <=> \E i \in DOMAIN links : Answered(i, t).status = "unavailable"
  OBVIOUS
<1>7. a.status = "passed" <=> ~Has("denied") /\ ~Has("unavailable")
  BY <1>1, <1>4
<1> HIDE DEF Has, results
<1>8. a.status # "error" /\ a.status # "none"
  BY <1>1, <1>4
<1>9. a.status = "passed" => a.until = MinOf({r.until : r \in results})
  BY <1>1, <1>4
<1>10. Has("denied") => a.status = "constraint_denied"
  BY <1>1, <1>4
<1> HIDE DEF a
<1>11. a.status = "passed" <=> \A i \in DOMAIN links : Answered(i, t).status = "passed"
  BY <1>2, <1>5, <1>6, <1>7
<1> QED
  BY <1>3, <1>5, <1>8, <1>9, <1>10, <1>11 DEF a

-----------------------------------------------------------------------------
(* The assessment that was kept is the one of its time, which is not later *)
(* than the clock.                                                         *)
AudienceInv ==
  /\ Fixed /\ now \in 1..(MaxTime - 1)
  /\ last # NoAssessment =>
       /\ last.at \in 1..now
       /\ LET a == Assess(links, ms, last.at, skew)
          IN  last = [status |-> a.status, until |-> a.until, evidence |-> a.evidence, at |-> last.at]

LEMMA AudienceInvInductive == AudienceSpec => []AudienceInv
<1>1. AudienceInit => AudienceInv
  BY LimitsAssumption DEF AudienceInit, AudienceInv, Fixed
<1>2. AudienceInv /\ [AudienceNext]_audienceVars => AudienceInv'
  <2> SUFFICES ASSUME AudienceInv, [AudienceNext]_audienceVars PROVE AudienceInv'
    OBVIOUS
  <2>1. CASE EvaluateAudience
    <3>1. Fixed' /\ now' = now
      BY <2>1 DEF EvaluateAudience, AudienceInv, Fixed
    <3>2. last' = [status |-> Assess(links, ms, now, skew).status, until |-> Assess(links, ms, now, skew).until,
                   evidence |-> Assess(links, ms, now, skew).evidence, at |-> now]
      BY <2>1 DEF EvaluateAudience
    <3>3. last'.at = now /\ UNCHANGED <<links, ms, skew, now>>
      BY <2>1, <3>2 DEF EvaluateAudience
    <3> QED
      BY <3>1, <3>2, <3>3, LimitsAssumption DEF AudienceInv
  <2>2. CASE ClockTick
    BY <2>2, LimitsAssumption DEF ClockTick, AudienceInv, Fixed
  <2>3. CASE UNCHANGED audienceVars
    BY <2>3 DEF audienceVars, AudienceInv, Fixed
  <2> QED
    BY <2>1, <2>2, <2>3 DEF AudienceNext
<1> QED
  BY <1>1, <1>2, PTL DEF AudienceSpec

(* In every state the kept assessment passes now exactly if its horizon is *)
(* not reached.                                                            *)
LEMMA AudienceInvExact == AudienceInv => AudienceExact
<1> SUFFICES ASSUME AudienceInv PROVE AudienceExact
  OBVIOUS
<1> DEFINE t == last.at
<1>1. CASE last = NoAssessment
  BY <1>1 DEF NoAssessment, AudienceExact, HorizonExact, ProvenMismatchReported, NoLateMismatch
<1>2. CASE last # NoAssessment
  <2>1. t \in 1..(MaxTime - 1) /\ now \in t..(MaxTime - 1) /\ now \in 1..(MaxTime - 1) /\ Fixed
    BY <1>2, LimitsAssumption DEF AudienceInv
  <2>2. last.status = Assess(links, ms, t, skew).status /\ last.until = Assess(links, ms, t, skew).until
    BY <1>2 DEF AudienceInv
  <2> HIDE DEF t
  <2>3. NoLateMismatch
    BY <2>1, <2>2, AssessOverTime DEF NoLateMismatch
  <2>4. ProvenMismatchReported
    <3> SUFFICES ASSUME t = now, NEW i \in DOMAIN links, Answered(i, t).status = "denied"
                 PROVE  last.status = "constraint_denied"
      BY DEF ProvenMismatchReported, Answered, t
    <3> QED
      BY <2>1, <2>2, AssessOverTime
  <2>5. HorizonExact
    <3> SUFFICES ASSUME last.status = "passed"
                 PROVE  Assess(links, ms, now, skew).status = "passed" <=> now < last.until
      BY DEF HorizonExact
    <3> DEFINE S == {Answered(i, t).until : i \in DOMAIN links}
    <3>1. /\ \A i \in DOMAIN links : Answered(i, t).status = "passed"
          /\ last.until = MinOf(S)
      BY <2>1, <2>2, AssessOverTime
    <3>2. \A i \in DOMAIN links : /\ Answered(i, t).until \in Nat
                                  /\ Answered(i, now).status = "passed" <=> now < Answered(i, t).until
      BY <2>1, <3>1, LinkOverTime
    <3>3. S \subseteq Nat /\ S # {}
      <4>1. 1 \in DOMAIN links
        BY <2>1, AudienceAssumption DEF Fixed
      <4>2. S # {}
        BY <4>1
      <4>3. S \subseteq Nat
        BY <3>2
      <4> QED
        BY <4>2, <4>3
    <3>4. MinOf(S) \in S /\ \A y \in S : MinOf(S) <= y
      BY <3>3, LeastExists
    <3>5. (\A y \in S : now < y) <=> \A i \in DOMAIN links : now < Answered(i, t).until
      OBVIOUS
    <3> HIDE DEF S
    <3>6. (\A y \in S : now < y) <=> now < MinOf(S)
      <4>1. now \in Int
        BY <2>1, LimitsAssumption
      <4>2. MinOf(S) \in Nat
        BY <3>3, <3>4
      <4> QED
        BY <3>3, <3>4, <4>1, <4>2
    <3>7. Assess(links, ms, now, skew).status = "passed" <=> \A i \in DOMAIN links : Answered(i, now).status = "passed"
      BY <2>1, AssessOverTime
    <3>8. (\A i \in DOMAIN links : Answered(i, now).status = "passed")
            <=> \A i \in DOMAIN links : now < Answered(i, t).until
      BY <3>2
    <3> QED
      BY <3>1, <3>5, <3>6, <3>7, <3>8
  <2> QED
    BY <2>3, <2>4, <2>5 DEF AudienceExact
<1> QED
  BY <1>1, <1>2

(* In every state the assessment in hand is exact (AudienceExact): at any  *)
(* later second the same memberships pass if and only if its horizon is    *)
(* not reached, a proven mismatch is reported, and no exact-only mismatch  *)
(* passes preflight.                                                       *)
THEOREM AudienceHolds == AudienceSpec => []AudienceExact
  BY AudienceInvInductive, AudienceInvExact, PTL
-----------------------------------------------------------------------------
Verdicts == {"ok", "deferred", "constraint_denied", "constraint_unknown", "constraint_unverifiable"}

(* What a registered constraint may answer.                                *)
LEMMA LocalVerdict ==
  ASSUME NEW c, NEW ctx, NEW tzdb PROVE EvaluateConstraint(c, ctx, tzdb) \in Verdicts
  BY DEF EvaluateConstraint, ResourcePath, TimeWindow, MaxAmount, Verdicts

(* An answer that neither passes nor denies settles nothing, and a pass    *)
(* has no horizon or one after the claim.                                  *)
LEMMA Mapped ==
  ASSUME NEW r
  PROVE  LET m == MapResult(r)
         IN  /\ m.verdict \in Verdicts
             /\ m.horizon # 0 => m.horizon > ClaimTime
             /\ m.verdict = "ok" => r.outcome = "pass"
             /\ m.verdict = "constraint_denied" => r.outcome = "denied"
  BY BoundsAssumption DEF MapResult, Verdicts

LEMMA TimedOut == MapResult(Result("timeout", 0)).verdict = "constraint_unverifiable"
  BY DEF MapResult, Result

-----------------------------------------------------------------------------
(* The evaluation of a chain: the cursor and what is settled below it.     *)
Open == phase \in {"waiting", "answered"}
Called == IF Open THEN pos ELSE pos - 1

Shape ==
  /\ config.chain \in Chains /\ config.timeout \in Nat
  /\ phase \in {"refused", "next", "waiting", "answered", "done"}
  /\ pos \in 1..(Len(config.chain) + 1) /\ elapsed \in Nat
  /\ Open => pos <= Len(config.chain)
  /\ phase = "done" => pos = Len(config.chain) + 1 /\ counters = RateBatch(config.chain)
  /\ verdicts \in Seq(Verdicts) /\ Len(verdicts) = pos - 1
  /\ basis \in Seq([from : Nat, sent : Nat])
  /\ Len(basis) = IF phase = "answered" THEN pos ELSE pos - 1
  /\ horizon # 0 => horizon > ClaimTime

(* Each call has its own thread or its own answer, never both.             *)
Calls ==
  /\ DOMAIN threads \subseteq 1..Called /\ DOMAIN channel \subseteq 1..Called
  /\ DOMAIN threads \cap DOMAIN channel = {}
  /\ \A p \in DOMAIN channel : channel[p].sent \in Nat
  /\ Open /\ pos \in DOMAIN channel => channel[pos].sent <= elapsed

(* What the open call took: its own answer, or nothing after its deadline. *)
Taken ==
  phase = "answered" =>
    \/ basis[pos] = NoBasis /\ elapsed >= config.timeout
    \/ /\ pos \in DOMAIN channel /\ received = channel[pos].result
       /\ basis[pos] = [from |-> pos, sent |-> channel[pos].sent]

JudgedBy(c, i, v, b, answers) ==
  /\ b # NoBasis => /\ i \in DOMAIN answers /\ b.from = i /\ b.sent < c.timeout
                    /\ v = MapResult(answers[i].result).verdict
  /\ b = NoBasis /\ c.chain[i].kind \notin Registered /\ c.chain[i].kind \in {c.types[k] : k \in DOMAIN c.types}
       => v = "constraint_unverifiable"
Judged == \A i \in 1..(pos - 1) : JudgedBy(config, i, verdicts[i], basis[i], channel)

ChainInv == Shape /\ Calls /\ Taken /\ Judged

LEMMA ChainInit == Init => ChainInv
<1> SUFFICES ASSUME Init PROVE ChainInv
  OBVIOUS
<1>1. config.chain \in Chains /\ config.timeout \in Nat
  BY InputAssumption DEF Init
<1>2. phase \in {"next", "refused"} /\ pos = 1 /\ verdicts = <<>> /\ basis = <<>> /\ elapsed = 0
      /\ horizon = 0 /\ threads = <<>> /\ channel = <<>>
  BY DEF Init
<1>3. pos \in 1..(Len(config.chain) + 1)
  BY <1>1, <1>2, InputAssumption
<1>4. Shape
  BY <1>1, <1>2, <1>3 DEF Shape, Open
<1>5. Calls /\ Taken /\ Judged
  BY <1>2 DEF Calls, Taken, Judged, Called, Open
<1> QED
  BY <1>4, <1>5 DEF ChainInv

(* A constraint is settled without an answer.                              *)
LEMMA SettleKeeps ==
  ASSUME ChainInv, phase = "next", pos <= Len(config.chain), NEW v \in Verdicts, Settle(v, 0, NoBasis),
         config.chain[pos].kind \notin Registered /\ config.chain[pos].kind \in Sealed
           => v = "constraint_unverifiable",
         UNCHANGED <<config, elapsed, threads, channel, received, counters>>
  PROVE  ChainInv'
<1>1. /\ phase' = "next" /\ pos' = pos + 1 /\ verdicts' = Append(verdicts, v)
      /\ basis' = Append(basis, NoBasis) /\ horizon' = horizon /\ pos \in Nat \ {0}
  BY DEF Settle, ChainInv, Shape
<1>2. NoBasis \in [from : Nat, sent : Nat]
  BY DEF NoBasis
<1>3. Len(config.chain) \in Nat
  BY InputAssumption DEF ChainInv, Shape
<1>4. Shape'
  BY <1>1, <1>2, <1>3 DEF ChainInv, Shape, Open
<1>5. Calls' /\ Taken'
  BY <1>1 DEF ChainInv, Calls, Taken, Called, Open
<1>6. \A i \in 1..(pos - 1) : verdicts'[i] = verdicts[i] /\ basis'[i] = basis[i]
  BY <1>1 DEF ChainInv, Shape
<1>7. verdicts'[pos] = v /\ basis'[pos] = NoBasis
  BY <1>1 DEF ChainInv, Shape
<1>8. Judged'
  <2> SUFFICES ASSUME NEW i \in 1..pos PROVE JudgedBy(config, i, verdicts'[i], basis'[i], channel)
    <3>1. pos' - 1 = pos /\ config' = config /\ channel' = channel
      BY <1>1
    <3> QED
      BY <3>1 DEF Judged
  <2>1. CASE i = pos
    BY <2>1, <1>7 DEF JudgedBy, Sealed
  <2>2. CASE i # pos
    <3>1. i \in 1..(pos - 1)
      BY <2>2, <1>1
    <3> QED
      BY <3>1, <1>6 DEF ChainInv, Judged, JudgedBy, Sealed
  <2> QED
    BY <2>1, <2>2
<1> QED
  BY <1>4, <1>5, <1>8 DEF ChainInv

(* A step that leaves the verdicts alone keeps them judged, if an answer   *)
(* that was there stays.                                                   *)
LEMMA JudgedStays ==
  ASSUME ChainInv, UNCHANGED <<config, pos, verdicts>>,
         \A i \in 1..(pos - 1) : basis'[i] = basis[i],
         \A p \in DOMAIN channel : p \in DOMAIN channel' /\ channel'[p] = channel[p]
  PROVE  Judged'
<1>1. \A i \in 1..(pos - 1) : JudgedBy(config, i, verdicts[i], basis[i], channel)
  BY DEF ChainInv, Judged
<1> QED
  BY <1>1 DEF Judged, JudgedBy

LEMMA StartKeeps == ASSUME ChainInv, StartEvaluator PROVE ChainInv'
<1>1. /\ phase = "next" /\ pos <= Len(config.chain) /\ phase' = "waiting" /\ elapsed' = 0
      /\ DOMAIN threads' = DOMAIN threads \cup {pos}
      /\ UNCHANGED <<config, pos, verdicts, horizon, channel, received, basis, counters>>
  BY DEF StartEvaluator, IsExtension
<1>2. pos \in Nat \ {0} /\ ~Open /\ Open'
  BY <1>1 DEF Open, ChainInv, Shape
<1>3. Shape'
  BY <1>1, <1>2 DEF ChainInv, Shape, Open
<1>4. Calls' /\ Taken'
  <2>1. pos \notin DOMAIN threads /\ pos \notin DOMAIN channel
    BY <1>2 DEF ChainInv, Calls, Called
  <2> QED
    BY <1>1, <1>2, <2>1 DEF ChainInv, Calls, Taken, Called
<1>5. Judged'
  BY <1>1, JudgedStays
<1> QED
  BY <1>3, <1>4, <1>5 DEF ChainInv

LEMMA AnswerKeeps == ASSUME ChainInv, NEW p \in DOMAIN threads, Answer(p) PROVE ChainInv'
<1> DEFINE sent == IF p = pos THEN elapsed ELSE MaxElapsed
<1>1. PICK r \in threads[p] :
        channel' = [q \in DOMAIN channel \cup {p} |-> IF q = p THEN [result |-> r, sent |-> sent] ELSE channel[q]]
  BY DEF Answer
<1>2. /\ threads' = [q \in DOMAIN threads \ {p} |-> threads[q]]
      /\ UNCHANGED <<config, phase, pos, verdicts, horizon, elapsed, received, basis, counters>>
  BY DEF Answer
<1>3. DOMAIN threads' = DOMAIN threads \ {p} /\ DOMAIN channel' = DOMAIN channel \cup {p}
  BY <1>1, <1>2
<1>4. p \notin DOMAIN channel /\ p \in 1..Called /\ Called' = Called /\ Open' = Open
  BY <1>2 DEF ChainInv, Calls, Called, Open
<1>5. \A q \in DOMAIN channel : channel'[q] = channel[q]
  BY <1>1, <1>4
<1>6. channel'[p].sent = sent /\ sent \in Nat /\ (p = pos => sent = elapsed)
  BY <1>1, BoundsAssumption DEF ChainInv, Shape
<1>7. Shape'
  BY <1>2, <1>4 DEF ChainInv, Shape
<1>8. Calls'
  <2> HIDE DEF sent
  <2>1. \A q \in DOMAIN channel' : channel'[q].sent \in Nat
    BY <1>3, <1>5, <1>6 DEF ChainInv, Calls
  <2>2. Open /\ pos \in DOMAIN channel' => channel'[pos].sent <= elapsed
    BY <1>3, <1>5, <1>6 DEF ChainInv, Calls, Shape
  <2> QED
    BY <1>2, <1>3, <1>4, <2>1, <2>2 DEF ChainInv, Calls
<1>9. Taken'
  BY <1>2, <1>3, <1>5 DEF ChainInv, Taken
<1>10. Judged'
  BY <1>2, <1>3, <1>5, JudgedStays
<1> QED
  BY <1>7, <1>8, <1>9, <1>10 DEF ChainInv

LEMMA ReceiveKeeps == ASSUME ChainInv, Receive PROVE ChainInv'
<1>1. /\ phase = "waiting" /\ phase' = "answered"
      /\ UNCHANGED <<config, pos, verdicts, horizon, elapsed, threads, channel, counters>>
  BY DEF Receive
<1>2. PICK b \in [from : Nat, sent : Nat] :
        /\ basis' = Append(basis, b)
        /\ \/ b = NoBasis /\ elapsed >= config.timeout
           \/ /\ pos \in DOMAIN channel /\ received' = channel[pos].result
              /\ b = [from |-> pos, sent |-> channel[pos].sent]
  <2>1. CASE \E p \in Receivable :
               received' = channel[p].result /\ basis' = Append(basis, [from |-> p, sent |-> channel[p].sent])
    <3>1. /\ pos \in DOMAIN channel /\ received' = channel[pos].result
          /\ basis' = Append(basis, [from |-> pos, sent |-> channel[pos].sent])
      BY <2>1 DEF Receivable
    <3>2. [from |-> pos, sent |-> channel[pos].sent] \in [from : Nat, sent : Nat]
      BY <3>1 DEF ChainInv, Calls, Shape
    <3> QED
      BY <3>1, <3>2
  <2>2. CASE elapsed >= config.timeout /\ basis' = Append(basis, NoBasis)
    <3>1. NoBasis \in [from : Nat, sent : Nat]
      BY DEF NoBasis
    <3> QED
      BY <2>2, <3>1
  <2> QED
    BY <2>1, <2>2 DEF Receive
<1>3. pos \in Nat \ {0} /\ Len(basis) = pos - 1 /\ basis \in Seq([from : Nat, sent : Nat])
  BY <1>1 DEF ChainInv, Shape
<1>4. /\ basis' \in Seq([from : Nat, sent : Nat]) /\ Len(basis') = pos /\ basis'[pos] = b
      /\ \A i \in 1..(pos - 1) : basis'[i] = basis[i]
  BY <1>2, <1>3
<1>5. Open /\ Open' /\ Called' = Called
  BY <1>1 DEF Open, Called
<1>6. Shape'
  BY <1>1, <1>4, <1>5 DEF ChainInv, Shape
<1>7. Calls'
  BY <1>1, <1>5 DEF ChainInv, Calls
<1>8. Taken'
  BY <1>1, <1>2, <1>4 DEF Taken
<1>9. Judged'
  BY <1>1, <1>4, JudgedStays
<1> QED
  BY <1>6, <1>7, <1>8, <1>9 DEF ChainInv

LEMMA ResumeKeeps == ASSUME ChainInv, Resume PROVE ChainInv'
<1> DEFINE o == Outcome  late == elapsed >= config.timeout
           b == IF late THEN NoBasis ELSE basis[pos]
<1>1. /\ phase = "answered" /\ verdicts' = Append(verdicts, o.verdict)
      /\ horizon' = IF o.horizon # 0 /\ (horizon = 0 \/ o.horizon < horizon) THEN o.horizon ELSE horizon
      /\ basis' = IF late THEN [basis EXCEPT ![pos] = NoBasis] ELSE basis
      /\ received' = None /\ pos' = pos + 1 /\ phase' = "next"
      /\ UNCHANGED <<config, elapsed, threads, channel, counters>>
  BY DEF Resume
<1>2. o.verdict \in Verdicts /\ (o.horizon # 0 => o.horizon > ClaimTime)
  BY Mapped DEF Outcome
<1>3. pos \in Nat \ {0} /\ pos <= Len(config.chain) /\ Len(config.chain) \in Nat
      /\ Len(basis) = pos /\ Len(verdicts) = pos - 1
      /\ basis \in Seq([from : Nat, sent : Nat]) /\ verdicts \in Seq(Verdicts)
  BY <1>1, InputAssumption DEF ChainInv, Shape, Open
<1>4. NoBasis \in [from : Nat, sent : Nat]
  BY DEF NoBasis
<1>5. /\ basis' \in Seq([from : Nat, sent : Nat]) /\ Len(basis') = pos /\ basis'[pos] = b
      /\ \A i \in 1..(pos - 1) : basis'[i] = basis[i]
  <2>1. CASE late
    <3>1. basis' = [basis EXCEPT ![pos] = NoBasis] /\ b = NoBasis /\ pos \in 1..Len(basis)
      BY <1>1, <1>3, <2>1
    <3>2. basis' \in Seq([from : Nat, sent : Nat]) /\ Len(basis') = Len(basis)
      BY <1>3, <1>4, <3>1, ExceptSeq
    <3>3. DOMAIN basis = 1..pos
      BY <1>3
    <3> QED
      BY <1>3, <3>1, <3>2, <3>3
  <2>2. CASE ~late
    BY <1>1, <1>3, <2>2
  <2> QED
    BY <2>1, <2>2
<1>6. verdicts' \in Seq(Verdicts) /\ Len(verdicts') = pos /\ verdicts'[pos] = o.verdict
      /\ \A i \in 1..(pos - 1) : verdicts'[i] = verdicts[i]
  BY <1>1, <1>2, <1>3
<1>7. horizon' # 0 => horizon' > ClaimTime
  BY <1>1, <1>2 DEF ChainInv, Shape
<1>8. Shape'
  BY <1>1, <1>3, <1>5, <1>6, <1>7 DEF ChainInv, Shape, Open
<1>9. Calls' /\ Taken'
  BY <1>1, <1>3 DEF ChainInv, Calls, Taken, Called, Open
<1>10. JudgedBy(config, pos, o.verdict, b, channel)
  <2>1. CASE late
    BY <2>1, TimedOut DEF JudgedBy, Outcome
  <2>2. CASE ~late
    <3>1. /\ pos \in DOMAIN channel /\ received = channel[pos].result
          /\ basis[pos] = [from |-> pos, sent |-> channel[pos].sent]
      BY <1>1, <2>2 DEF ChainInv, Taken
    <3>2. channel[pos].sent \in Nat /\ channel[pos].sent <= elapsed /\ elapsed \in Nat /\ config.timeout \in Nat
      BY <1>1, <3>1 DEF ChainInv, Calls, Open, Shape
    <3>3. b.from = pos /\ b.sent < config.timeout /\ b # NoBasis
      BY <1>3, <2>2, <3>1, <3>2 DEF NoBasis
    <3>4. o.verdict = MapResult(channel[pos].result).verdict
      BY <2>2, <3>1 DEF Outcome
    <3> HIDE DEF b, o
    <3> QED
      BY <3>1, <3>3, <3>4 DEF JudgedBy
  <2> QED
    BY <2>1, <2>2
<1>11. Judged'
  <2> SUFFICES ASSUME NEW i \in 1..pos PROVE JudgedBy(config, i, verdicts'[i], basis'[i], channel)
    <3>1. pos' - 1 = pos /\ config' = config /\ channel' = channel
      BY <1>1, <1>3
    <3> QED
      BY <3>1 DEF Judged
  <2>1. CASE i = pos
    BY <2>1, <1>5, <1>6, <1>10
  <2>2. CASE i # pos
    <3>1. i \in 1..(pos - 1)
      BY <2>2, <1>3
    <3> QED
      BY <3>1, <1>5, <1>6 DEF ChainInv, Judged
  <2> QED
    BY <2>1, <2>2
<1> QED
  BY <1>8, <1>9, <1>11 DEF ChainInv

LEMMA FinishAndTickKeep == ASSUME ChainInv, Finish \/ Tick PROVE ChainInv'
<1>1. CASE Finish
  <2>1. /\ phase = "next" /\ pos > Len(config.chain) /\ phase' = "done" /\ counters' = RateBatch(config.chain)
        /\ UNCHANGED <<config, pos, verdicts, horizon, elapsed, threads, channel, received, basis>>
    BY <1>1 DEF Finish
  <2>2. Len(config.chain) \in Nat /\ ~Open /\ ~Open'
    BY <2>1, InputAssumption DEF ChainInv, Shape, Open
  <2>3. Shape'
    BY <2>1, <2>2 DEF ChainInv, Shape
  <2>4. Calls' /\ Taken'
    BY <2>1, <2>2 DEF ChainInv, Calls, Taken, Called
  <2>5. Judged'
    BY <2>1, JudgedStays
  <2> QED
    BY <2>3, <2>4, <2>5 DEF ChainInv
<1>2. CASE Tick
  <2>1. /\ elapsed' = elapsed + 1
        /\ UNCHANGED <<config, phase, pos, verdicts, horizon, threads, channel, received, basis, counters>>
    BY <1>2 DEF Tick
  <2>2. Shape'
    BY <2>1 DEF ChainInv, Shape, Open
  <2>3. Calls' /\ Taken'
    BY <2>1 DEF ChainInv, Shape, Calls, Taken, Called, Open
  <2>4. Judged'
    BY <2>1, JudgedStays
  <2> QED
    BY <2>2, <2>3, <2>4 DEF ChainInv
<1> QED
  BY <1>1, <1>2

LEMMA ChainStep == ASSUME ChainInv, [Next]_vars PROVE ChainInv'
<1>1. CASE EvaluateLocally
  <2> DEFINE v == IF Item.kind \in Deferred THEN "deferred" ELSE EvaluateConstraint(Item, config.ctx, config.tzdb)
  <2>1. v \in Verdicts
    BY LocalVerdict DEF Verdicts
  <2>2. /\ phase = "next" /\ pos <= Len(config.chain) /\ Settle(v, 0, NoBasis)
        /\ Item.kind \in Registered \/ Item.kind \notin Sealed
        /\ UNCHANGED <<config, elapsed, threads, channel, received, counters>>
    BY <1>1 DEF EvaluateLocally
  <2> HIDE DEF v
  <2> QED
    BY <2>1, <2>2, SettleKeeps DEF Item
<1>2. CASE NotStarted
  <2>1. "constraint_unverifiable" \in Verdicts
    BY DEF Verdicts
  <2> QED
    BY <1>2, <2>1, SettleKeeps DEF NotStarted, IsExtension
<1>3. CASE UNCHANGED vars
  <2>1. UNCHANGED <<config, phase, pos, verdicts, horizon, elapsed, threads, channel, received, basis, counters>>
    BY <1>3 DEF vars
  <2>2. Shape' /\ Calls' /\ Taken'
    BY <2>1 DEF ChainInv, Shape, Calls, Taken, Called, Open
  <2>3. Judged'
    BY <2>1, JudgedStays
  <2> QED
    BY <2>2, <2>3 DEF ChainInv
<1> QED
  BY <1>1, <1>2, <1>3, StartKeeps, AnswerKeeps, ReceiveKeeps, ResumeKeeps, FinishAndTickKeep DEF Next, Verifier
-----------------------------------------------------------------------------
(* The status is the gravest of the failures, whatever their order.        *)
LEMMA StatusGravest ==
  ASSUME NEW vs, \A i \in DOMAIN vs : vs[i] \in Verdicts
  PROVE  LET s == ConstraintStatus(vs)
         IN  /\ (\E i \in DOMAIN vs : vs[i] = "constraint_denied") => s = "constraint_denied"
             /\ s = "passed" <=> \A i \in DOMAIN vs : vs[i] \in {"ok", "deferred"}
             /\ s = "constraint_unverifiable" => \A i \in DOMAIN vs : vs[i] # "constraint_unknown"
<1> DEFINE failed == {i \in DOMAIN vs : vs[i] \notin {"ok", "deferred"}}
           w == CHOOSE i \in failed : \A j \in failed : Precedence(vs[j]) <= Precedence(vs[i])
           s == ConstraintStatus(vs)
<1>1. s = IF failed = {} THEN "passed" ELSE vs[w]
  BY DEF ConstraintStatus
<1>2. \A i \in failed : vs[i] \in {"constraint_denied", "constraint_unknown", "constraint_unverifiable"}
  BY DEF Verdicts
<1>3. ASSUME failed # {}
      PROVE  \E i \in failed : \A j \in failed : Precedence(vs[j]) <= Precedence(vs[i])
  <2>1. CASE \E i \in failed : vs[i] = "constraint_denied"
    BY <1>2, <2>1 DEF Precedence
  <2>2. CASE (\A i \in failed : vs[i] # "constraint_denied") /\ \E i \in failed : vs[i] = "constraint_unknown"
    BY <1>2, <2>2 DEF Precedence
  <2>3. CASE \A i \in failed : vs[i] = "constraint_unverifiable"
    BY <1>3, <2>3 DEF Precedence
  <2> QED
    BY <1>2, <2>1, <2>2, <2>3
<1>4. failed # {} => w \in failed /\ \A j \in failed : Precedence(vs[j]) <= Precedence(vs[w])
  BY <1>3
<1> HIDE DEF w, s
<1>5. (\E i \in DOMAIN vs : vs[i] = "constraint_denied") => s = "constraint_denied"
  <2> SUFFICES ASSUME NEW i \in DOMAIN vs, vs[i] = "constraint_denied" PROVE vs[w] = "constraint_denied"
    BY <1>1
  <2> QED
    BY <1>2, <1>4 DEF Precedence
<1>6. s = "passed" <=> \A i \in DOMAIN vs : vs[i] \in {"ok", "deferred"}
  BY <1>1, <1>2, <1>4
<1>7. s = "constraint_unverifiable" => \A i \in DOMAIN vs : vs[i] # "constraint_unknown"
  <2> SUFFICES ASSUME s = "constraint_unverifiable", NEW i \in DOMAIN vs, vs[i] = "constraint_unknown" PROVE FALSE
    OBVIOUS
  <2>1. i \in failed /\ vs[w] = "constraint_unverifiable"
    BY <1>1
  <2> QED
    BY <1>4, <2>1 DEF Precedence
<1> QED
  BY <1>5, <1>6, <1>7 DEF s

(* Among the rate limits of one window of one certificate there is one     *)
(* smallest count.                                                         *)
LEMMA BatchOfChain ==
  ASSUME NEW chain \in Chains, NEW i \in DOMAIN chain, chain[i].kind = "max_rate"
  PROVE  LET c == chain[i]
             mine == {k \in RateBatch(chain) : k.issuer = c.issuer /\ k.cert = c.cert /\ k.window = c.window}
         IN  Cardinality(mine) = 1 /\ \A k \in mine : k.limit <= c.count
<1> DEFINE rates == {j \in DOMAIN chain : chain[j].kind = "max_rate"}
           Key(j) == <<chain[j].issuer, chain[j].cert, chain[j].window>>
           Least(j) == \A k \in rates : Key(k) = Key(j) => chain[j].count <= chain[k].count
           Counter(j) == [issuer |-> chain[j].issuer, cert |-> chain[j].cert, window |-> chain[j].window,
                          limit |-> chain[j].count]
           c == chain[i]
           mine == {k \in RateBatch(chain) : k.issuer = c.issuer /\ k.cert = c.cert /\ k.window = c.window}
           same == {j \in rates : Key(j) = Key(i)}
           S == {chain[j].count : j \in same}
<1>1. RateBatch(chain) = {Counter(j) : j \in {j \in rates : Least(j)}}
  BY DEF RateBatch
<1>2. \A j \in rates : chain[j].count \in Nat
  BY InputAssumption
<1>3. i \in same
  OBVIOUS
<1>4. S \subseteq Nat /\ S # {}
  BY <1>2, <1>3
<1>5. MinOf(S) \in S /\ \A y \in S : MinOf(S) <= y
  <2> HIDE DEF S
  <2> QED
    BY <1>4, LeastExists
<1>6. PICK m \in same : \A j \in same : chain[m].count <= chain[j].count
  BY <1>5
<1>7. Least(m) /\ m \in rates
  BY <1>6
<1>8. Counter(m) \in mine
  BY <1>1, <1>6, <1>7
<1>9. ASSUME NEW k \in mine PROVE k = Counter(m) /\ k.limit <= c.count
  <2>1. PICK j \in rates : Least(j) /\ k = Counter(j)
    BY <1>1
  <2>2. j \in same
    BY <2>1
  <2>3. chain[j].count <= chain[m].count /\ chain[m].count <= chain[j].count /\ chain[j].count <= c.count
    BY <1>3, <1>6, <2>1, <2>2
  <2>4. chain[j].count = chain[m].count
    BY <1>2, <1>7, <2>3
  <2>5. Counter(j) = Counter(m)
    BY <1>6, <2>2, <2>4
  <2> QED
    BY <2>1, <2>3, <2>5
<1> HIDE DEF mine
<1>10. mine = {Counter(m)}
  BY <1>8, <1>9
<1>11. Cardinality(mine) = 1
  BY <1>10, FS_Singleton
<1> QED
  BY <1>9, <1>11 DEF mine

LEMMA ChainInvSound == ChainInv => VerdictsSound
<1> SUFFICES ASSUME ChainInv PROVE VerdictsSound
  OBVIOUS
<1>1. DOMAIN verdicts = 1..(pos - 1) /\ \A i \in DOMAIN verdicts : verdicts[i] \in Verdicts
  BY DEF ChainInv, Shape
<1>2. \A i \in DOMAIN verdicts : JudgedBy(config, i, verdicts[i], basis[i], channel)
  BY <1>1 DEF ChainInv, Judged
<1>3. OwnAnswerInTime
  BY <1>2 DEF OwnAnswerInTime, JudgedBy, Sealed
<1>4. ModesAgree
  <2> SUFFICES ASSUME NEW i \in DOMAIN verdicts, basis[i] # NoBasis
               PROVE  /\ verdicts[i] = MapResult(channel[i].result).verdict
                      /\ verdicts[i] = "ok" => channel[i].result.outcome = "pass" /\ (horizon # 0 => horizon > ClaimTime)
                      /\ verdicts[i] = "constraint_denied" => channel[i].result.outcome = "denied"
    BY DEF ModesAgree
  <2>1. verdicts[i] = MapResult(channel[i].result).verdict
    BY <1>2 DEF JudgedBy
  <2>2. horizon # 0 => horizon > ClaimTime
    BY DEF ChainInv, Shape
  <2> QED
    BY <2>1, <2>2, Mapped
<1>5. StatusByPrecedence
  <2> SUFFICES ASSUME phase = "done" PROVE StatusByPrecedence
    BY DEF StatusByPrecedence
  <2>1. Len(verdicts) = Len(config.chain)
    BY InputAssumption DEF ChainInv, Shape
  <2> QED
    BY <1>1, <2>1, StatusGravest DEF StatusByPrecedence
<1>6. BatchStrictest
  <2> SUFFICES ASSUME phase = "done" PROVE BatchStrictest
    BY DEF BatchStrictest
  <2>1. counters = RateBatch(config.chain) /\ config.chain \in Chains
    BY DEF ChainInv, Shape
  <2>2. \A k \in counters : \E i \in DOMAIN config.chain :
          config.chain[i].kind = "max_rate" /\ config.chain[i].count = k.limit
    BY <2>1 DEF RateBatch
  <2> QED
    BY <2>1, <2>2, BatchOfChain DEF BatchStrictest
<1> QED
  BY <1>3, <1>4, <1>5, <1>6 DEF VerdictsSound

(* Every verdict rests on the answer to its own call in time, in either    *)
(* mode; the status is the gravest failure and the rate batch holds the    *)
(* strictest limits (VerdictsSound).                                       *)
THEOREM VerdictsHold == Spec => []VerdictsSound
  BY ChainInit, ChainStep, ChainInvSound, PTL DEF Spec
=============================================================================
