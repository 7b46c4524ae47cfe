-------------------------- MODULE EvaluationProofs --------------------------
(***************************************************************************)
(* The live decision path is sound for any number of evaluators, recovery  *)
(* workers and claims, any clock, and whatever its stages find.            *)
(*                                                                         *)
(* Evaluators and workers reach the store only through its methods, so     *)
(* every step of EvalSpec is a step of the store's Spec and all that is    *)
(* proved of the store holds here too.  What is added says, for each place *)
(* of an evaluator, which progress its claim holds (Recorded): this and    *)
(* the lease, which no longer lets it write once recovery has read it, are *)
(* why a receipt tells exactly what was looked up, whoever commits it.     *)
(***************************************************************************)
EXTENDS Evaluation, ClaimStoreProofs, WellFoundedInduction

-----------------------------------------------------------------------------
(* The outcome of an evaluation, for every finding of its stages.          *)
(* A nonempty set of naturals has a least element.                         *)
LEMMA LeastNat ==
  ASSUME NEW S \in SUBSET Nat, S # {}
  PROVE  \E h \in S : \A b \in S : h <= b
<1> DEFINE R == {p \in Nat \X Nat : p[1] < p[2]}
<1>1. OpToRel(<, Nat) = R
  BY DEF OpToRel
<1>2. IsWellFoundedOn(R, Nat)
  BY <1>1, NatLessThanWellFounded
<1>3. \A a, b \in Nat : <<a, b>> \in R <=> a < b
  OBVIOUS
<1> HIDE DEF R
<1>4. \E h \in S : \A b \in S : ~(<<b, h>> \in R)
  BY <1>2, WFMin
<1> QED
  <2> PICK h \in S : \A b \in S : ~(<<b, h>> \in R)
    BY <1>4
  <2>1. \A b \in S : b \in Nat /\ h \in Nat /\ ~(b < h)
    BY <1>3
  <2> QED
    BY <2>1

(* The allow horizon is in the timestamp domain and no later than any of   *)
(* the freshness bounds (allow_horizon_v2).                                *)
LEMMA HorizonLeast ==
  ASSUME NEW i \in InputType
  PROVE  /\ AllowHorizon(i, MaxTimestamp) \in 0..MaxTimestamp
         /\ \A b \in i.bounds : AllowHorizon(i, MaxTimestamp) <= b
<1> DEFINE S == i.bounds \cup {MaxTimestamp}
<1>1. S \in SUBSET Nat /\ S # {}
  BY StoreAssumption DEF InputType
<1>2. \E h \in S : \A b \in S : h <= b
  BY <1>1, LeastNat
<1>3. AllowHorizon(i, MaxTimestamp) \in S /\ \A b \in S : AllowHorizon(i, MaxTimestamp) <= b
  BY <1>2 DEF AllowHorizon
<1> QED
  BY <1>1, <1>3, StoreAssumption

(* Only an evaluation in which every stage passed is authorized.           *)
LEMMA AuthorizedPassed ==
  ASSUME NEW i \in InputType, Reason(i) = "authorized"
  PROVE  AllPassed(i) /\ AfterLocal(i) = "pending"
<1>1. AfterLocal(i) = "pending"
  BY DEF Reason, AfterLocal
<1>2. i.trust = "trusted" /\ i.chain = "valid"
  BY <1>1 DEF AfterLocal, InputType
<1>3. i.status = "current"
  BY <1>1 DEF Reason, AfterStatus, InputType
<1>4. LocalFailure(i) = "passed"
  BY <1>1, <1>3
  DEF Reason, AfterStatus, AfterAudience, CombinableWithAudience, InputType,
      LocalFailure, Constraint
<1>5. /\ i.scope = "granted" /\ i.constraint = "passed"
      /\ i.context \in {"bound", "not_required"}
  BY <1>4 DEF LocalFailure, InputType
<1>6. /\ i.audience \in {"none", "passed"} /\ i.rate \in {"none", "reserved", "deferred"}
  BY <1>1, <1>3, <1>4
  DEF Reason, AfterStatus, AfterAudience, CombinableWithAudience, InputType, AfterRate
<1> QED
  BY <1>1, <1>2, <1>3, <1>5, <1>6 DEF AllPassed

(* Every reason an evaluation can reach is consistent with its assessments *)
(* (validate_decision of receipt.rs).                                      *)
LEMMA ReceiptFits ==
  ASSUME NEW i \in InputType
  PROVE  ValidDecision(Reason(i), Assess(i))
<1>1. CASE AfterLocal(i) # "pending"
  BY <1>1 DEF Reason, AfterLocal, Assess, ValidDecision, InputType
<1>2. CASE AfterLocal(i) = "pending"
  <2>1. i.trust = "trusted"
    BY <1>2 DEF AfterLocal, InputType
  <2> PICK a : a = Assess(i)
    OBVIOUS
  <2>2. /\ a.trust = "trusted" /\ a.status = i.status
        /\ a.context = i.context /\ a.context # "not_evaluated"
    BY <1>2, <2>1 DEF Assess, InputType
  <2> SUFFICES ValidDecision(Reason(i), a)
    OBVIOUS
  <2>3. CASE i.status # "current"
    BY <1>2, <2>2, <2>3 DEF Reason, AfterStatus, ValidDecision, InputType
  <2>4. CASE i.status = "current"
    <3>1. CASE LocalFailure(i) = "scope_denied"
      BY <1>2, <2>2, <2>4, <3>1
      DEF Reason, AfterStatus, CombinableWithAudience, ValidDecision
    <3>2. CASE LocalFailure(i) = "action_context_unverified"
      <4>1. i.context = "unverified"
        BY <3>2 DEF LocalFailure, InputType, Constraint
      <4> QED
        BY <1>2, <2>2, <2>4, <3>2, <4>1
        DEF Reason, AfterStatus, CombinableWithAudience, ValidDecision
    <3>3. CASE LocalFailure(i) = "constraint_denied"
      <4>1. i.context \in {"bound", "not_required", "mismatch"}
        BY <3>3 DEF LocalFailure, InputType, Constraint
      <4> QED
        BY <1>2, <2>2, <2>4, <3>3, <4>1
        DEF Reason, AfterStatus, CombinableWithAudience, ValidDecision,
             ConstraintReasons, Constraint
    <3>4. CASE LocalFailure(i) \in {"passed", "constraint_unknown", "constraint_unverifiable"}
      <4>1. i.context \in {"bound", "not_required"}
        BY <3>4 DEF LocalFailure, InputType
      <4>2. Reason(i) \in {"authorized"} \cup ConstraintReasons
        BY <1>2, <2>4, <3>4
        DEF Reason, AfterStatus, AfterAudience, AfterRate, CombinableWithAudience,
             InputType, ConstraintReasons, Constraint
      <4> QED
        BY <2>2, <2>4, <2>1, <4>1, <4>2 DEF ValidDecision
    <3>5. LocalFailure(i) \in {"scope_denied", "action_context_unverified"} \cup Constraint
      BY DEF LocalFailure, InputType, Constraint
    <3> QED
      BY <3>1, <3>2, <3>3, <3>4, <3>5 DEF Constraint
  <2> QED
    BY <2>3, <2>4
<1> QED
  BY <1>1, <1>2
(* What ends an evaluation is consistent with its assessments, the denial  *)
(* of an exhausted rate counter included, and is never the interrupted     *)
(* result.                                                                 *)
LEMMA FinalReceipt ==
  ASSUME NEW e \in Evaluators, eval[e].inputs \in InputType,
         eval[e].rateDenied => Reason(eval[e].inputs) = "authorized"
  PROVE  /\ ValidDecision(FinalReason(e), FinalBody(e).progress)
         /\ FinalBody(e).progress = Assess(eval[e].inputs)
         /\ FinalBody(e).result \in Results \ {"interrupted"}
         /\ FinalBody(e).result = "allow" =>
              AllPassed(eval[e].inputs) /\ FinalReason(e) = "authorized"
         /\ FinalReason(e) = "authorized" => Reason(eval[e].inputs) = "authorized"
<1> PICK i \in InputType : i = eval[e].inputs
  OBVIOUS
<1>1. FinalBody(e).progress = Assess(i) /\ FinalBody(e).result = Decision(FinalReason(e))
  BY DEF FinalBody
<1>2. ValidDecision(FinalReason(e), Assess(i))
  <2>1. CASE ~eval[e].rateDenied
    BY <2>1, ReceiptFits DEF FinalReason
  <2>2. CASE eval[e].rateDenied
    <3>1. AllPassed(i) /\ AfterLocal(i) = "pending"
      BY <2>2, AuthorizedPassed
    <3>2. PICK a : a = Assess(i)
      OBVIOUS
    <3>3. a.trust = "trusted" /\ a.status = "current" /\ a.context \in {"bound", "not_required"}
      BY <3>1, <3>2 DEF Assess, AllPassed
    <3>4. ValidDecision("constraint_denied", a)
      BY <3>3 DEF ValidDecision, ConstraintReasons, Constraint
    <3> QED
      BY <2>2, <3>2, <3>4 DEF FinalReason
  <2> QED
    BY <2>1, <2>2
<1>3. Decision(FinalReason(e)) \in {"allow", "deny", "indeterminate"}
  BY DEF Decision
<1>4. Decision(FinalReason(e)) = "allow" => FinalReason(e) = "authorized"
  BY DEF Decision
<1>5. FinalReason(e) = "authorized" => Reason(i) = "authorized"
  BY DEF FinalReason
<1>6. Reason(i) = "authorized" => AllPassed(i)
  BY AuthorizedPassed
<1> QED
  BY <1>1, <1>2, <1>3, <1>4, <1>5, <1>6 DEF Results

(* The progress of a claim always makes an interrupted receipt.            *)
LEMMA InterruptedFits ==
  ASSUME NEW p \in Assessment, ValidProgress(p)
  PROVE  ValidDecision("evaluation_interrupted", p)
<1>1. p.context \in {"not_evaluated", "bound", "not_required"}
  BY DEF Assessment, ValidProgress
<1> QED
  BY <1>1 DEF ValidProgress, ValidDecision

(* What an evaluation records and assesses is well formed.                 *)
LEMMA AssessTyped ==
  ASSUME NEW i \in InputType
  PROVE  Assess(i) \in Assessment
BY DEF Assess, Assessment, InputType

(* The progress recorded after the trust lookup.                           *)
LEMMA LocalProgressTyped ==
  ASSUME NEW i \in InputType
  PROVE  /\ LocalProgress(i) \in Assessment
         /\ LocalProgress(i).trust = Assess(i).trust
         /\ i.trust # "none" => LocalProgress(i).trust # "not_evaluated"
         /\ AfterLocal(i) = "pending" => /\ LocalProgress(i).status # "not_evaluated"
                                         /\ LocalProgress(i).trust # "not_evaluated"
<1>1. Assess(i) \in Assessment
  BY AssessTyped
<1>2. Assess(i).trust = IF i.trust = "none" THEN "not_evaluated" ELSE i.trust
  BY DEF Assess
<1>3. AfterLocal(i) = "pending" => i.trust # "none"
  BY DEF AfterLocal
<1>4. i.trust # "not_evaluated"
  BY DEF InputType
<1> QED
  BY <1>1, <1>2, <1>3, <1>4 DEF LocalProgress, Assessment

-----------------------------------------------------------------------------
(* The invariant.                                                          *)

Stages == {"trust_start", "trust", "status", "finalize"}
EvalType == [pc : Stages \cup {"idle", "done"}, claim : Claims \cup {NoClaim},
             inputs : InputType \cup {0}, looked : SUBSET {"trust", "status"},
             rateDenied : BOOLEAN]
WorkType == [pc : {"idle", "commit"}, claim : Claims \cup {NoClaim},
             body : Bodies \cup {NoBody}]

(* The progress an evaluator has recorded when it is at its place.         *)
Recorded(x) ==
  IF x.pc = "trust_start" THEN InitialProgress
  ELSE IF x.pc = "trust" THEN TrustStarted
  ELSE IF x.pc = "finalize" /\ AfterLocal(x.inputs) = "pending" THEN StatusProgress(x.inputs)
  ELSE LocalProgress(x.inputs)

(* Where the findings of its stages let it be.                             *)
Reached(x) ==
  /\ x.pc = "trust_start" => x.looked = {} /\ x.inputs.trust # "none"
  /\ x.pc = "trust" => x.looked \subseteq {"trust"} /\ x.inputs.trust # "none"
  /\ x.pc = "status" => AfterLocal(x.inputs) = "pending"

(* A running evaluator owns an accepted claim; nobody else records for it, *)
(* and only recovery may have ended it.                                    *)
EvalOk(x) ==
  LET r == claims[x.claim.id]
  IN  /\ x.pc = "idle" => x.claim = NoClaim
      /\ x.claim = NoClaim => x.pc \notin Stages /\ x.looked = {} /\ ~x.rateDenied
      /\ x.claim # NoClaim =>
           /\ x.inputs \in InputType /\ Accepted(x.claim.id) /\ r.claim = x.claim
           /\ \A l \in x.looked : r.progress[l] # "not_evaluated"
           /\ x.rateDenied => Reason(x.inputs) = "authorized"
           /\ x.pc \in Stages =>
                /\ Reached(x)
                /\ IF Terminal(x.claim.id) THEN r.terminal = "interrupted"
                                           ELSE r.progress = Recorded(x)

(* A worker holds the receipt of an accepted claim whose lease is over, so *)
(* that its progress no longer changes.                                    *)
WorkOk(y) ==
  LET r == claims[y.claim.id]
  IN  y.pc = "commit" =>
        /\ y.claim \in Claims /\ Accepted(y.claim.id) /\ r.claim = y.claim
        /\ y.body = InterruptedBody(y.claim, r.progress) /\ y.body \in Bodies
        /\ ~Terminal(y.claim.id) => r.leaseExpiresAt <= highWater

HandoffOk(h) ==
  /\ h.id \in ClaimIds /\ Terminal(h.id)
  /\ h = HandoffOf(claims[h.id].claim, claims[h.id].receiptBody, claims[h.id].allowHorizon)

(* A body tells the progress of its claim.                                 *)
Tells(b, p) ==
  /\ b.trust = p.trust /\ b.status = p.status
  /\ b.context \notin {"unverified", "mismatch"} => b.context = p.context

RecordOk(id) ==
  LET r == claims[id]
  IN  /\ ValidProgress(r.progress)
      /\ ~Terminal(id) => r.terminal = "none"
      /\ Accepted(id) => r.claim.id = id
      /\ Terminal(id) => Tells(r.receiptBody.progress, r.progress)

AllowOk(id) ==
  claims[id].terminal = "allow" =>
    \E e \in Evaluators : /\ eval[e].claim = claims[id].claim
                          /\ AllPassed(eval[e].inputs)
                          /\ \A b \in eval[e].inputs.bounds : claims[id].finalizedAt < b

EvalInv ==
  /\ StoreInv /\ WindowInv
  /\ eval \in [Evaluators -> EvalType] /\ worker \in [Workers -> WorkType]
  /\ \A id \in ClaimIds : RecordOk(id) /\ AllowOk(id)
  /\ \A e \in Evaluators : EvalOk(eval[e])
  /\ OneEvaluation
  /\ \A w \in Workers : WorkOk(worker[w])
  /\ \A h \in handoffs : HandoffOk(h)

-----------------------------------------------------------------------------
(* Nothing of this is undone by a step of the store.                       *)

StoreMoves ==
  /\ StoreInv /\ StoreInv' /\ WindowInv' /\ highWater <= highWater'
  /\ \A x \in ClaimIds : ClaimKept(x)

(* What only recovery does to a claim that is being evaluated.             *)
Undisturbed(x) ==
  /\ claims'[x].progress = claims[x].progress
  /\ Terminal(x)' /\ ~Terminal(x) => claims'[x].terminal = "interrupted"

(* A step of the store keeps what is proved of it.                         *)
LEMMA StoreStepMoves ==
  ASSUME EvalInv, [Next]_storeVars
  PROVE  StoreMoves
<1>1. StoreInv /\ WindowInv /\ TypeOK
  BY DEF EvalInv, StoreInv
<1> QED
  BY <1>1, NextKeepsStore, NextKeepsWindow, NextKeepsClaims, MarkForward DEF StoreMoves

(* An accepted claim stays what it is, and a committed one too.            *)
LEMMA ClaimStays ==
  ASSUME StoreMoves, NEW id \in ClaimIds, Accepted(id)
  PROVE  /\ Accepted(id)' /\ claims'[id].claim = claims[id].claim
         /\ claims'[id].leaseExpiresAt = claims[id].leaseExpiresAt
         /\ Terminal(id) => /\ Terminal(id)' /\ claims'[id].terminal = claims[id].terminal
                            /\ claims'[id].receiptBody = claims[id].receiptBody
                            /\ claims'[id].allowHorizon = claims[id].allowHorizon
                            /\ claims'[id].finalizedAt = claims[id].finalizedAt
                            /\ claims'[id].progress = claims[id].progress
<1>1. ClaimKept(id)
  BY DEF StoreMoves
<1> QED
  BY <1>1 DEF ClaimKept, ClaimFacts, CommitFacts

(* An evaluator's claim is one of the claim IDs.                           *)
LEMMA SealedId ==
  ASSUME NEW c \in Claims
  PROVE  c.id \in ClaimIds /\ c # NoClaim
BY StoreAssumption DEF ClaimType

(* What holds of an evaluator stays while its claim is undisturbed.        *)
LEMMA EvalKept ==
  ASSUME StoreMoves, NEW x \in EvalType, EvalOk(x),
         x.claim # NoClaim => Undisturbed(x.claim.id)
  PROVE  EvalOk(x)'
<1>1. CASE x.claim = NoClaim
  BY <1>1 DEF EvalOk
<1>2. CASE x.claim # NoClaim
  <2>1. x.claim.id \in ClaimIds /\ Accepted(x.claim.id)
    BY <1>2, SealedId DEF EvalType, EvalOk
  <2> QED
    BY <1>2, <2>1, ClaimStays DEF EvalOk, Undisturbed
<1> QED
  BY <1>1, <1>2

(* What holds of a worker stays while the progress of its claim stays.     *)
LEMMA WorkKept ==
  ASSUME StoreMoves, NEW y \in WorkType, WorkOk(y),
         y.pc = "commit" => claims'[y.claim.id].progress = claims[y.claim.id].progress
  PROVE  WorkOk(y)'
<1>1. CASE y.pc # "commit"
  BY <1>1 DEF WorkOk
<1>2. CASE y.pc = "commit"
  <2> PICK id : id = y.claim.id
    OBVIOUS
  <2>1. id \in ClaimIds /\ Accepted(id) /\ claims[id] \in ClaimRecord
    BY <1>2, SealedId DEF WorkOk, StoreMoves, StoreInv, TypeOK
  <2>2. /\ Accepted(id)' /\ claims'[id].claim = claims[id].claim
        /\ claims'[id].leaseExpiresAt = claims[id].leaseExpiresAt
        /\ Terminal(id) => Terminal(id)'
    BY <2>1, ClaimStays
  <2>3. ~Terminal(id)' => claims'[id].leaseExpiresAt <= highWater'
    <3>1. highWater \in Int /\ highWater' \in Int /\ claims[id].leaseExpiresAt \in Int
      BY <2>1 DEF StoreMoves, StoreInv, TypeOK, ClaimRecord
    <3> QED
      BY <1>2, <2>2, <3>1 DEF WorkOk, StoreMoves
  <2> QED
    BY <1>2, <2>2, <2>3 DEF WorkOk
<1> QED
  BY <1>1, <1>2

(* A handoff that was returned stays the result of its claim.              *)
LEMMA HandoffKept ==
  ASSUME StoreMoves, NEW h, HandoffOk(h)
  PROVE  HandoffOk(h)'
<1>1. h.id \in ClaimIds /\ Accepted(h.id) /\ Terminal(h.id)
  BY DEF HandoffOk, Accepted, Terminal
<1> QED
  BY <1>1, ClaimStays DEF HandoffOk

(* A claim whose record is the same, or recovered, is still well formed.   *)
LEMMA SameRecordOk ==
  ASSUME NEW id \in ClaimIds, RecordOk(id), claims'[id] = claims[id]
  PROVE  RecordOk(id)'
BY DEF RecordOk, Accepted, Terminal

EvalsKept ==
  \A e \in Evaluators : eval[e].claim # NoClaim =>
    eval'[e].claim = eval[e].claim /\ eval'[e].inputs = eval[e].inputs

(* An allow stays justified by the evaluation it came from.                *)
LEMMA AllowKept ==
  ASSUME EvalInv, StoreMoves, EvalsKept, NEW id \in ClaimIds, Terminal(id)
  PROVE  AllowOk(id)'
<1>1. /\ Accepted(id) /\ claims'[id].terminal = claims[id].terminal
      /\ claims'[id].claim = claims[id].claim
      /\ claims'[id].finalizedAt = claims[id].finalizedAt
  BY ClaimStays DEF Accepted, Terminal
<1> SUFFICES ASSUME claims[id].terminal = "allow" PROVE AllowOk(id)'
  BY <1>1 DEF AllowOk
<1>2. PICK e \in Evaluators : /\ eval[e].claim = claims[id].claim
                              /\ AllPassed(eval[e].inputs)
                              /\ \A b \in eval[e].inputs.bounds : claims[id].finalizedAt < b
  BY DEF EvalInv, AllowOk
<1>3. claims[id].claim \in Claims
  BY <1>1 DEF EvalInv, WindowInv, LeaseFollowsClaim
<1>4. eval[e].claim # NoClaim
  BY <1>2, <1>3, SealedId
<1>5. eval'[e].claim = eval[e].claim /\ eval'[e].inputs = eval[e].inputs
  BY <1>4 DEF EvalsKept
<1> QED
  BY <1>1, <1>2, <1>5 DEF AllowOk

-----------------------------------------------------------------------------
(* What a step must show.                                                  *)

Only(id) == \A other \in ClaimIds \ {id} : claims'[other] = claims[other]

(* A step of one evaluator that touches at most its own claim: nobody else *)
(* evaluates that claim.                                                   *)
LEMMA EvaluatorInv ==
  ASSUME EvalInv, StoreMoves, NEW e \in Evaluators, NEW x \in EvalType, NEW id \in ClaimIds,
         eval' = [eval EXCEPT ![e] = x], worker' = worker, Only(id),
         eval[e].claim = NoClaim =>
           \/ UNCHANGED claims /\ x.claim = NoClaim
           \/ ~Accepted(id) /\ (x.claim # NoClaim => x.claim.id = id),
         eval[e].claim # NoClaim =>
           eval[e].claim.id = id /\ x.claim = eval[e].claim /\ x.inputs = eval[e].inputs,
         RecordOk(id)', EvalOk(x)', ~Terminal(id) => AllowOk(id)',
         \A w \in Workers : worker[w].pc = "commit" /\ worker[w].claim.id = id =>
                              claims'[id].progress = claims[id].progress,
         \A h \in handoffs' : h \in handoffs \/ HandoffOk(h)'
  PROVE  EvalInv'
<1>1. /\ eval' \in [Evaluators -> EvalType] /\ worker' \in [Workers -> WorkType]
      /\ eval'[e] = x /\ \A d \in Evaluators \ {e} : eval'[d] = eval[d]
  BY DEF EvalInv
<1>2. EvalsKept
  BY <1>1 DEF EvalsKept
<1>3. ASSUME NEW d \in Evaluators \ {e}, eval[d].claim # NoClaim
      PROVE  /\ Id(d) \in ClaimIds /\ claims'[Id(d)] = claims[Id(d)]
             /\ x.claim # NoClaim => Id(d) # x.claim.id
  <2>1. Id(d) \in ClaimIds /\ Accepted(Id(d))
    BY <1>3, SealedId DEF EvalInv, EvalType, EvalOk, Id
  <2>2. CASE eval[e].claim # NoClaim
    <3>1. Id(d) # id
      BY <1>3, <2>2 DEF EvalInv, OneEvaluation, Id
    <3> QED
      BY <2>1, <2>2, <3>1 DEF Only
  <2>3. CASE eval[e].claim = NoClaim
    BY <2>1, <2>3 DEF Only
  <2> QED
    BY <2>2, <2>3
<1>4. ASSUME NEW d \in Evaluators PROVE EvalOk(eval[d])'
  <2>1. CASE d = e
    BY <1>1, <2>1
  <2>2. CASE d # e
    <3>1. eval[d] \in EvalType /\ EvalOk(eval[d]) /\ eval'[d] = eval[d]
      BY <1>1, <2>2 DEF EvalInv
    <3> PICK y \in EvalType : y = eval[d]
      BY <3>1
    <3>2. y.claim # NoClaim => Undisturbed(y.claim.id)
      BY <1>3, <2>2 DEF Undisturbed, Id, Terminal
    <3>3. EvalOk(y)'
      BY <3>1, <3>2, EvalKept
    <3> QED
      BY <3>1, <3>3
  <2> QED
    BY <2>1, <2>2
<1>5. OneEvaluation'
  <2> SUFFICES ASSUME NEW d \in Evaluators, NEW f \in Evaluators, d # f,
                      eval'[d].claim # NoClaim, eval'[f].claim # NoClaim
               PROVE  eval'[d].claim.id # eval'[f].claim.id
    BY DEF OneEvaluation, Id
  <2>1. CASE d # e /\ f # e
    BY <1>1, <2>1 DEF EvalInv, OneEvaluation, Id
  <2>2. CASE d = e
    BY <1>1, <1>3, <2>2 DEF Id
  <2>3. CASE f = e
    BY <1>1, <1>3, <2>3 DEF Id
  <2> QED
    BY <2>1, <2>2, <2>3
<1>6. ASSUME NEW w \in Workers PROVE WorkOk(worker[w])'
  <2>1. worker[w] \in WorkType /\ WorkOk(worker[w]) /\ worker'[w] = worker[w]
    BY DEF EvalInv
  <2> PICK y \in WorkType : y = worker[w]
    BY <2>1
  <2>2. y.pc = "commit" => y.claim.id \in ClaimIds
    BY <2>1, SealedId DEF WorkOk
  <2>3. y.pc = "commit" => claims'[y.claim.id].progress = claims[y.claim.id].progress
    BY <2>2 DEF Only
  <2>4. WorkOk(y)'
    BY <2>1, <2>3, WorkKept
  <2> QED
    BY <2>1, <2>4
<1>7. ASSUME NEW h \in handoffs' PROVE HandoffOk(h)'
  <2>1. CASE h \in handoffs
    BY <2>1, HandoffKept DEF EvalInv
  <2> QED
    BY <2>1
<1>8. ASSUME NEW other \in ClaimIds PROVE RecordOk(other)' /\ AllowOk(other)'
  <2>1. CASE other = id
    BY <1>2, <2>1, AllowKept
  <2>2. CASE other # id
    <3>1. claims'[other] = claims[other] /\ RecordOk(other)
      BY <2>2 DEF Only, EvalInv
    <3>2. RecordOk(other)'
      BY <3>1, SameRecordOk
    <3>3. CASE Terminal(other)
      BY <1>2, <3>2, <3>3, AllowKept
    <3>4. CASE ~Terminal(other)
      BY <3>1, <3>2, <3>4 DEF RecordOk, AllowOk
    <3> QED
      BY <3>3, <3>4
  <2> QED
    BY <2>1, <2>2
<1> QED
  BY <1>1, <1>4, <1>5, <1>6, <1>7, <1>8 DEF EvalInv, StoreMoves

(* A step of no evaluator: only recovery may have ended a claim.           *)
LEMMA QuietInv ==
  ASSUME EvalInv, StoreMoves, eval' = eval, worker' \in [Workers -> WorkType],
         \A id \in ClaimIds : /\ Undisturbed(id) /\ RecordOk(id)'
                              /\ ~Terminal(id) => claims'[id].terminal # "allow",
         \A w \in Workers : WorkOk(worker[w])',
         \A h \in handoffs' : h \in handoffs \/ HandoffOk(h)'
  PROVE  EvalInv'
<1>1. EvalsKept
  BY DEF EvalsKept
<1>2. ASSUME NEW d \in Evaluators PROVE EvalOk(eval[d])'
  <2>1. eval[d] \in EvalType /\ EvalOk(eval[d])
    BY DEF EvalInv
  <2> PICK y \in EvalType : y = eval[d]
    BY <2>1
  <2>2. y.claim # NoClaim => Undisturbed(y.claim.id)
    BY SealedId DEF EvalType
  <2>3. EvalOk(y)'
    BY <2>1, <2>2, EvalKept
  <2> QED
    BY <2>3
<1>3. OneEvaluation'
  BY DEF EvalInv, OneEvaluation, Id
<1>4. ASSUME NEW id \in ClaimIds PROVE AllowOk(id)'
  <2>1. CASE Terminal(id)
    BY <1>1, <2>1, AllowKept
  <2>2. CASE ~Terminal(id)
    BY <2>2 DEF AllowOk
  <2> QED
    BY <2>1, <2>2
<1>5. ASSUME NEW h \in handoffs' PROVE HandoffOk(h)'
  <2>1. CASE h \in handoffs
    BY <2>1, HandoffKept DEF EvalInv
  <2> QED
    BY <2>1
<1> QED
  BY <1>2, <1>3, <1>4, <1>5 DEF EvalInv, StoreMoves

(* A step that changes no claim disturbs none.                             *)
LEMMA SameClaims ==
  ASSUME EvalInv, StoreMoves, UNCHANGED claims
  PROVE  /\ \A id \in ClaimIds : /\ Undisturbed(id) /\ RecordOk(id)' /\ Only(id)
                                 /\ ~Terminal(id) => claims'[id].terminal # "allow"
                                 /\ ~Terminal(id) => AllowOk(id)'
         /\ \A w \in Workers : worker'[w] = worker[w] => WorkOk(worker[w])'
<1>1. ASSUME NEW id \in ClaimIds
      PROVE  /\ Undisturbed(id) /\ RecordOk(id)' /\ Only(id)
             /\ ~Terminal(id) => claims'[id].terminal # "allow"
             /\ ~Terminal(id) => AllowOk(id)'
  <2>1. RecordOk(id) /\ RecordOk(id)'
    BY SameRecordOk DEF EvalInv
  <2> QED
    BY <2>1 DEF Undisturbed, Terminal, Only, RecordOk, AllowOk
<1>2. ASSUME NEW w \in Workers, worker[w] = worker'[w] PROVE WorkOk(worker[w])'
  <2>1. worker[w] \in WorkType /\ WorkOk(worker[w])
    BY DEF EvalInv
  <2> PICK y \in WorkType : y = worker[w]
    BY <2>1
  <2>2. WorkOk(y)'
    BY <2>1, WorkKept
  <2> QED
    BY <1>2, <2>2
<1> QED
  BY <1>1, <1>2

-----------------------------------------------------------------------------
(* Evaluators and workers are callers of the store.                        *)

(* A call that only reads the clock is a reading of the clock.             *)
LEMMA ReadingIsStep ==
  ASSUME NEW reads \in BOOLEAN, ReadClockIf(reads),
         UNCHANGED <<now, claims, streams, outbox, switches, rateCommits>>
  PROVE  [Next]_storeVars
<1>1. CASE reads
  BY <1>1 DEF Next, ClockStep, AuthoritativeTime
<1>2. CASE ~reads
  BY <1>2 DEF ReadClockIf, storeVars, clockVars
<1> QED
  BY <1>1, <1>2

(* record_v2_evaluation_progress of an evaluator.  Without an anchor a     *)
(* change that is not kept is one the store never made.                    *)
LEMMA ProgressIsStep ==
  ASSUME NEW id \in ClaimIds, NEW p \in Assessment, NEW ok \in BOOLEAN,
         RecordProgress(id, id, p, ok)
  PROVE  [Next]_storeVars
<1>1. p \in Progresses
  BY EvaluationAssumption
<1>2. CASE ok \in Anchoring
  BY <1>1, <1>2 DEF Next, ProgressStep
<1>3. CASE ok \notin Anchoring
  <2>1. ~ok
    BY <1>3 DEF Anchoring
  <2>2. RecordProgressResult(id, id, p, ok) # "ok"
    BY <2>1 DEF RecordProgressResult
  <2>3. OwnerReadsClock(id, id) \in BOOLEAN
    BY DEF OwnerReadsClock
  <2> QED
    BY <2>2, <2>3, ReadingIsStep DEF RecordProgress
<1> QED
  BY <1>2, <1>3

(* finalize_v2_claim of an evaluator.                                      *)
LEMMA FinalizeIsStep ==
  ASSUME NEW id \in ClaimIds, NEW b \in Bodies, NEW h \in Horizons, NEW ok \in BOOLEAN,
         Finalize(id, id, b.result, b, h, ok)
  PROVE  [Next]_storeVars
<1>1. CASE ok \in Anchoring
  BY <1>1 DEF Next, FinalizeStep
<1>2. CASE ok \notin Anchoring
  <2>1. ~ok
    BY <1>2 DEF Anchoring
  <2>2. FinalizeResult(id, id, b.result, b, h, ok) # "committed"
    BY <2>1 DEF FinalizeResult, OwnerResult, ClockReading
  <2>3. OwnerReadsClock(id, id) \in BOOLEAN
    BY DEF OwnerReadsClock
  <2> QED
    BY <2>2, <2>3, ReadingIsStep DEF Finalize
<1> QED
  BY <1>1, <1>2

(* recover_interrupted_v2_claim of a worker.                               *)
LEMMA RecoverIsStep ==
  ASSUME NEW id \in ClaimIds, NEW b \in Bodies, NEW ok \in BOOLEAN, b.result = "interrupted",
         Recover(id, "interrupted", b, ok)
  PROVE  [Next]_storeVars
<1>1. CASE ok \in Anchoring
  BY <1>1 DEF Next, RecoveryStep
<1>2. CASE ok \notin Anchoring
  <2>1. ~ok
    BY <1>2 DEF Anchoring
  <2>2. RecoverResult(id, "interrupted", b, ok) # "committed"
    BY <2>1 DEF RecoverResult, ClockReading
  <2> QED
    BY <2>2, ReadingIsStep DEF Recover
<1> QED
  BY <1>1, <1>2

-----------------------------------------------------------------------------
(* The steps of an evaluator.                                              *)

(* A running evaluator has a claim.                                        *)
LEMMA RunningFacts ==
  ASSUME EvalInv, NEW e \in Evaluators, eval[e].pc \in Stages
  PROVE  /\ eval[e] \in EvalType /\ EvalOk(eval[e]) /\ eval[e].claim # NoClaim
         /\ eval[e].claim \in Claims /\ Id(e) \in ClaimIds /\ Id(e) = eval[e].claim.id
         /\ eval[e].inputs \in InputType /\ Accepted(Id(e))
         /\ claims[Id(e)].claim = eval[e].claim
<1>1. eval[e] \in EvalType /\ EvalOk(eval[e])
  BY DEF EvalInv
<1>2. eval[e].claim # NoClaim /\ eval[e].claim \in Claims
  BY <1>1 DEF EvalOk, EvalType
<1> QED
  BY <1>1, <1>2, SealedId DEF EvalOk, Id

(* The record of an evaluator that ends here.                              *)
Done(x) == [x EXCEPT !.pc = "done"]

(* An evaluator may end anywhere.                                          *)
LEMMA DoneOk ==
  ASSUME NEW x \in EvalType
  PROVE  /\ Done(x) \in EvalType /\ Done(x).pc = "done" /\ Done(x).claim = x.claim
         /\ Done(x).inputs = x.inputs /\ Done(x).looked = x.looked
         /\ Done(x).rateDenied = x.rateDenied /\ (EvalOk(x) => EvalOk(Done(x)))
<1>1. /\ Done(x) \in EvalType /\ Done(x).pc = "done" /\ Done(x).claim = x.claim
      /\ Done(x).inputs = x.inputs /\ Done(x).looked = x.looked
      /\ Done(x).rateDenied = x.rateDenied
  BY DEF Done, EvalType
<1>2. "done" \notin Stages
  BY DEF Stages
<1> QED
  BY <1>1, <1>2 DEF EvalOk

(* A step that ends an evaluator and changes no claim.                     *)
LEMMA EndInv ==
  ASSUME EvalInv, [Next]_storeVars, NEW e \in Evaluators, UNCHANGED claims,
         eval' = [eval EXCEPT ![e] = Done(eval[e])], worker' = worker, handoffs' = handoffs,
         NEW id \in ClaimIds, eval[e].claim # NoClaim => eval[e].claim.id = id
  PROVE  EvalInv'
<1>1. StoreMoves /\ eval[e] \in EvalType /\ EvalOk(eval[e])
  BY StoreStepMoves DEF EvalInv
<1> PICK x \in EvalType : x = Done(eval[e])
  BY <1>1, DoneOk
<1>2. EvalOk(x) /\ x.claim = eval[e].claim /\ x.inputs = eval[e].inputs
  BY <1>1, DoneOk
<1>3. EvalOk(x)'
  <2>1. x.claim # NoClaim => Undisturbed(x.claim.id)
    BY <1>1, <1>2, SameClaims
  <2> QED
    BY <1>1, <1>2, <2>1, EvalKept
<1>4. RecordOk(id)' /\ Only(id) /\ (~Terminal(id) => AllowOk(id)')
  BY <1>1, SameClaims
<1> QED
  BY <1>1, <1>2, <1>3, <1>4, EvaluatorInv

(* Preflight and claim: the claim is new, so nobody else evaluates it.     *)
LEMMA PresentInv ==
  ASSUME EvalInv, NEW e \in Evaluators, NEW c \in Claims, NEW i \in InputType,
         NEW ok \in BOOLEAN, NEW heard \in BOOLEAN, eval[e].pc = "idle",
         Present(e, c, i, ok, heard)
  PROVE  [Next]_storeVars /\ EvalInv'
<1>1. [Next]_storeVars
  BY DEF Present, Next, ClaimStep
<1>2. /\ StoreMoves /\ StoreInv /\ TypeOK /\ eval[e] \in EvalType /\ EvalOk(eval[e])
      /\ worker' = worker /\ handoffs' = handoffs
  BY <1>1, StoreStepMoves DEF EvalInv, StoreInv, Present
<1>3. eval[e].claim = NoClaim /\ eval[e].looked = {} /\ ~eval[e].rateDenied
  BY <1>2 DEF EvalOk
<1>4. CASE ClaimResult(c, ok) # "created"
  <2>1. UNCHANGED claims /\ eval' = [eval EXCEPT ![e] = Done(eval[e])]
    BY <1>4 DEF Present, Claim, Done
  <2>2. c.id \in ClaimIds
    BY SealedId
  <2> QED
    BY <1>1, <1>2, <1>3, <2>1, <2>2, EndInv
<1>5. CASE ClaimResult(c, ok) = "created"
  <2> PICK id : id = c.id
    OBVIOUS
  <2>1. id \in ClaimIds /\ ~Accepted(id) /\ ~Terminal(id) /\ c # NoClaim
    BY <1>2, <1>5, CreatedFresh, SealedId DEF Accepted, Terminal
  <2>2. /\ claims'[id] = NewRecord(c) /\ Only(id)
    BY <1>2, <1>5, <2>1 DEF Present, Claim, TypeOK, Only
  <2>3. /\ claims'[id].state = "evaluating" /\ claims'[id].claim = c
        /\ claims'[id].terminal = "none" /\ claims'[id].progress = InitialProgress
    BY <2>2 DEF NewRecord, Absent
  <2>4. Accepted(id)' /\ ~Terminal(id)' /\ AllowOk(id)'
    BY <2>3 DEF Accepted, Terminal, AllowOk
  <2>5. RecordOk(id)'
    <3>1. ValidProgress(InitialProgress)
      BY DEF ValidProgress, InitialProgress
    <3> QED
      BY <2>3, <2>4, <3>1 DEF RecordOk
  <2>6. \E x \in EvalType : /\ eval' = [eval EXCEPT ![e] = x] /\ EvalOk(x)'
                            /\ x.claim # NoClaim => x.claim.id = id
    <3>1. CASE heard
      <4> DEFINE pc == IF i.trust = "none" THEN "finalize" ELSE "trust_start"
                 x == [eval[e] EXCEPT !.claim = c, !.inputs = i, !.pc = pc]
      <4>1. eval' = [eval EXCEPT ![e] = x]
        BY <1>5, <3>1 DEF Present
      <4>2. pc \in {"finalize", "trust_start"} /\ {"finalize", "trust_start"} \subseteq Stages
        BY DEF Stages
      <4> HIDE DEF pc
      <4>3. /\ x \in EvalType /\ x.claim = c /\ x.inputs = i /\ x.pc = pc
            /\ x.looked = {} /\ ~x.rateDenied
        BY <1>2, <1>3, <4>2 DEF EvalType
      <4> HIDE DEF x
      <4>4. pc = "finalize" => Recorded(x) = InitialProgress
        <5>1. pc = "finalize" => i.trust = "none"
          BY DEF pc
        <5> SUFFICES ASSUME pc = "finalize" PROVE Recorded(x) = InitialProgress
          OBVIOUS
        <5>2. AfterLocal(i) = "not_delegated"
          BY <5>1 DEF AfterLocal
        <5>3. LocalProgress(i) = InitialProgress
          BY <5>1, <5>2 DEF LocalProgress, Assess, InitialProgress
        <5> QED
          BY <4>3, <5>2, <5>3 DEF Recorded
      <4>5. Recorded(x) = InitialProgress
        BY <4>2, <4>3, <4>4 DEF Recorded
      <4>6. Reached(x)
        BY <4>2, <4>3 DEF Reached, pc
      <4> PICK y \in EvalType : y = x
        BY <4>3
      <4>7. EvalOk(y)'
        BY <2>1, <2>3, <2>4, <4>2, <4>3, <4>5, <4>6 DEF EvalOk
      <4> QED
        BY <4>1, <4>3, <4>7
    <3>2. CASE ~heard
      <4>1. eval' = [eval EXCEPT ![e] = Done(eval[e])]
        BY <3>2 DEF Present, Done
      <4> PICK x \in EvalType : x = Done(eval[e])
        BY <1>2, DoneOk
      <4>2. x.claim = NoClaim /\ EvalOk(x)
        BY <1>2, <1>3, DoneOk
      <4>3. EvalOk(x)'
        BY <4>2, <1>2, EvalKept
      <4> QED
        BY <4>1, <4>2, <4>3
    <3> QED
      BY <3>1, <3>2
  <2> PICK x \in EvalType : /\ eval' = [eval EXCEPT ![e] = x] /\ EvalOk(x)'
                            /\ x.claim # NoClaim => x.claim.id = id
    BY <2>6
  <2>7. \A w \in Workers : ~(worker[w].pc = "commit" /\ worker[w].claim.id = id)
    BY <2>1 DEF EvalInv, WorkOk
  <2> QED
    BY <1>1, <1>2, <1>3, <2>1, <2>2, <2>4, <2>5, <2>7, EvaluatorInv
<1> QED
  BY <1>4, <1>5

(* A worker that has read an expired lease stops its evaluator: no         *)
(* progress is recorded any more.                                          *)
LEMMA LeaseOver ==
  ASSUME EvalInv, NEW id \in ClaimIds, NEW w \in Workers,
         worker[w].pc = "commit", worker[w].claim.id = id
  PROVE  OwnerResult(id, id) # "ok"
<1>1. TypeOK /\ claims[id] \in ClaimRecord /\ WorkOk(worker[w])
  BY DEF EvalInv, StoreInv, TypeOK
<1> SUFFICES ASSUME OwnerResult(id, id) = "ok" PROVE FALSE
  OBVIOUS
<1>2. claims[id].state = "evaluating" /\ ClockOk /\ now < claims[id].leaseExpiresAt
  BY <1>1, OwnerOk
<1>3. claims[id].leaseExpiresAt <= highWater
  BY <1>1, <1>2 DEF WorkOk, Terminal
<1>4. highWater <= now
  BY <1>1, <1>2, GoodReading
<1>5. /\ claims[id].leaseExpiresAt \in Int /\ highWater \in Int /\ now \in Int
  BY <1>1 DEF TypeOK, ClaimRecord
<1> QED
  BY <1>2, <1>3, <1>4, <1>5

(* The evaluator records a stage: what it wrote is what it will be         *)
(* reported with, and it goes on only when it was told.                    *)
LEMMA RecordThenInv ==
  ASSUME EvalInv, NEW e \in Evaluators, eval[e].pc \in Stages,
         NEW p \in Assessment, NEW next \in Stages, NEW lookup \in SUBSET {"trust", "status"},
         NEW ok \in BOOLEAN, NEW heard \in BOOLEAN,
         RecordThen(e, p, next, lookup, ok, heard),
         \A x \in EvalType :
           (/\ x.pc = next /\ x.inputs = eval[e].inputs
            /\ x.looked = eval[e].looked \cup lookup)
             => Reached(x) /\ Recorded(x) = p,
         \A l \in eval[e].looked \cup lookup : p[l] # "not_evaluated"
  PROVE  [Next]_storeVars /\ EvalInv'
<1> DEFINE result == RecordProgressResult(Id(e), Id(e), p, ok)
<1>1. /\ eval[e] \in EvalType /\ EvalOk(eval[e]) /\ eval[e].claim # NoClaim
      /\ Id(e) \in ClaimIds /\ Id(e) = eval[e].claim.id /\ Accepted(Id(e))
      /\ claims[Id(e)].claim = eval[e].claim
  BY RunningFacts
<1> PICK id \in ClaimIds : id = Id(e)
  BY <1>1
<1>2. RecordProgress(id, id, p, ok) /\ worker' = worker /\ handoffs' = handoffs
  BY DEF RecordThen
<1>3. [Next]_storeVars
  BY <1>2, ProgressIsStep
<1>4. StoreMoves /\ TypeOK
  BY <1>3, StoreStepMoves DEF EvalInv, StoreInv
<1>5. CASE result # "ok"
  <2>1. UNCHANGED claims /\ eval' = [eval EXCEPT ![e] = Done(eval[e])]
    BY <1>2, <1>5 DEF RecordProgress, RecordThen, Done
  <2> QED
    BY <1>1, <1>2, <1>3, <2>1, EndInv
<1>6. CASE result = "ok"
  <2>1. OwnerResult(id, id) = "ok" /\ ValidProgress(p)
    BY <1>6 DEF RecordProgressResult
  <2>2. claims[id].state = "evaluating"
    BY <1>4, <2>1, OwnerOk
  <2>3. claims' = [claims EXCEPT ![id] = [claims[id] EXCEPT !.progress = p]]
    BY <1>2, <1>6 DEF RecordProgress
  <2>4. Only(id) /\ claims'[id] = [claims[id] EXCEPT !.progress = p]
        /\ claims[id] \in ClaimRecord
    BY <1>4, <2>3 DEF Only, TypeOK
  <2>5. /\ claims'[id].progress = p /\ claims'[id].state = "evaluating"
        /\ claims'[id].claim = claims[id].claim /\ claims'[id].terminal = claims[id].terminal
    BY <2>2, <2>4 DEF ClaimRecord
  <2>6. ~Terminal(id) /\ ~Terminal(id)' /\ Accepted(id) /\ Accepted(id)'
    BY <2>2, <2>5 DEF Terminal, Accepted
  <2>7. claims[id].terminal = "none" /\ claims[id].claim.id = id
    BY <2>6 DEF EvalInv, RecordOk
  <2>8. RecordOk(id)' /\ AllowOk(id)'
    BY <2>1, <2>5, <2>6, <2>7 DEF RecordOk, AllowOk
  <2>9. \A w \in Workers : ~(worker[w].pc = "commit" /\ worker[w].claim.id = id)
    BY <2>1, LeaseOver
  <2>10. \E x \in EvalType : /\ eval' = [eval EXCEPT ![e] = x] /\ EvalOk(x)'
                             /\ x.claim = eval[e].claim /\ x.inputs = eval[e].inputs
    <3>1. CASE heard
      <4> DEFINE x == [eval[e] EXCEPT !.pc = next, !.looked = eval[e].looked \cup lookup]
      <4>1. eval' = [eval EXCEPT ![e] = x]
        BY <1>6, <3>1 DEF RecordThen
      <4>2. /\ x \in EvalType /\ x.pc = next /\ x.looked = eval[e].looked \cup lookup
            /\ x.claim = eval[e].claim /\ x.inputs = eval[e].inputs
            /\ x.rateDenied = eval[e].rateDenied
        BY <1>1 DEF EvalType
      <4> HIDE DEF x
      <4>3. Reached(x) /\ Recorded(x) = p
        BY <4>2
      <4> PICK y \in EvalType : y = x
        BY <4>2
      <4>4. next # "idle"
        BY DEF Stages
      <4>5. EvalOk(y)'
        BY <1>1, <2>5, <2>6, <4>2, <4>3, <4>4 DEF EvalOk
      <4> QED
        BY <4>1, <4>2, <4>5
    <3>2. CASE ~heard
      <4>1. eval' = [eval EXCEPT ![e] = Done(eval[e])]
        BY <3>2 DEF RecordThen, Done
      <4> PICK x \in EvalType : x = Done(eval[e])
        BY <1>1, DoneOk
      <4>2. /\ x.claim = eval[e].claim /\ x.inputs = eval[e].inputs /\ x.pc = "done"
            /\ x.looked = eval[e].looked /\ x.rateDenied = eval[e].rateDenied
        BY <1>1, DoneOk
      <4>3. "done" \notin Stages
        BY DEF Stages
      <4>4. EvalOk(x)'
        BY <1>1, <2>5, <2>6, <4>2, <4>3 DEF EvalOk
      <4> QED
        BY <4>1, <4>2, <4>4
    <3> QED
      BY <3>1, <3>2
  <2> PICK x \in EvalType : /\ eval' = [eval EXCEPT ![e] = x] /\ EvalOk(x)'
                            /\ x.claim = eval[e].claim /\ x.inputs = eval[e].inputs
    BY <2>10
  <2> QED
    BY <1>1, <1>2, <1>3, <1>4, <2>4, <2>8, <2>9, EvaluatorInv
<1> QED
  BY <1>5, <1>6

(* The trust lookup is recorded before it starts.                          *)
LEMMA RecordTrustStartedInv ==
  ASSUME EvalInv, NEW e \in Evaluators, NEW ok \in BOOLEAN, NEW heard \in BOOLEAN,
         RecordTrustStarted(e, ok, heard)
  PROVE  [Next]_storeVars /\ EvalInv'
<1>1. eval[e].pc = "trust_start" /\ {"trust_start", "trust"} \subseteq Stages
  BY DEF RecordTrustStarted, Stages
<1>2. EvalOk(eval[e]) /\ eval[e].claim # NoClaim
  BY <1>1, RunningFacts
<1>3. eval[e].looked = {} /\ eval[e].inputs.trust # "none"
  BY <1>1, <1>2 DEF EvalOk, Reached
<1>4. TrustStarted \in Assessment /\ TrustStarted["trust"] # "not_evaluated"
  BY DEF TrustStarted, InitialProgress, Assessment
<1>5. ASSUME NEW x \in EvalType, x.pc = "trust", x.inputs = eval[e].inputs,
             x.looked = eval[e].looked \cup {"trust"}
      PROVE  Reached(x) /\ Recorded(x) = TrustStarted
  BY <1>3, <1>5 DEF Reached, Recorded
<1>6. \A l \in eval[e].looked \cup {"trust"} : TrustStarted[l] # "not_evaluated"
  BY <1>3, <1>4
<1>7. RecordThen(e, TrustStarted, "trust", {"trust"}, ok, heard)
  BY DEF RecordTrustStarted
<1>8. /\ {"trust"} \in SUBSET {"trust", "status"}
      /\ "trust" \in Stages /\ eval[e].pc \in Stages
  BY <1>1
<1>9. PICK p \in Assessment : p = TrustStarted
  BY <1>4
<1>10. PICK lookup \in SUBSET {"trust", "status"} : lookup = {"trust"}
  BY <1>8
<1>11. \A x \in EvalType :
         (/\ x.pc = "trust" /\ x.inputs = eval[e].inputs /\ x.looked = eval[e].looked \cup lookup)
           => Reached(x) /\ Recorded(x) = p
  BY <1>5, <1>9, <1>10
<1>12. /\ RecordThen(e, p, "trust", lookup, ok, heard)
       /\ \A l \in eval[e].looked \cup lookup : p[l] # "not_evaluated"
  BY <1>6, <1>7, <1>9, <1>10
<1> QED
  BY <1>8, <1>11, <1>12, RecordThenInv

(* The result of the trust lookup, and the status lookup before it starts. *)
LEMMA RecordLocalInv ==
  ASSUME EvalInv, NEW e \in Evaluators, NEW ok \in BOOLEAN, NEW heard \in BOOLEAN,
         RecordLocal(e, ok, heard)
  PROVE  [Next]_storeVars /\ EvalInv'
<1>1. eval[e].pc = "trust" /\ {"trust", "status", "finalize"} \subseteq Stages
  BY DEF RecordLocal, Stages
<1>2. EvalOk(eval[e]) /\ eval[e].claim # NoClaim /\ eval[e].inputs \in InputType
  BY <1>1, RunningFacts
<1>3. eval[e].looked \subseteq {"trust"} /\ eval[e].inputs.trust # "none"
  BY <1>1, <1>2 DEF EvalOk, Reached
<1> PICK i \in InputType : i = eval[e].inputs
  BY <1>2
<1>4. /\ LocalProgress(i) \in Assessment /\ LocalProgress(i)["trust"] # "not_evaluated"
      /\ AfterLocal(i) = "pending" => LocalProgress(i)["status"] # "not_evaluated"
  BY <1>3, LocalProgressTyped
<1>5. CASE AfterLocal(i) = "pending"
  BY <1>1, <1>3, <1>4, <1>5, RecordThenInv DEF RecordLocal, Reached, Recorded
<1>6. CASE AfterLocal(i) # "pending"
  BY <1>1, <1>3, <1>4, <1>6, RecordThenInv DEF RecordLocal, Reached, Recorded
<1> QED
  BY <1>5, <1>6

(* The result of the status lookup.                                        *)
LEMMA RecordStatusInv ==
  ASSUME EvalInv, NEW e \in Evaluators, NEW ok \in BOOLEAN, NEW heard \in BOOLEAN,
         RecordStatus(e, ok, heard)
  PROVE  [Next]_storeVars /\ EvalInv'
<1>1. eval[e].pc = "status" /\ {"status", "finalize"} \subseteq Stages
  BY DEF RecordStatus, Stages
<1>2. /\ eval[e] \in EvalType /\ EvalOk(eval[e]) /\ eval[e].claim # NoClaim
      /\ eval[e].inputs \in InputType
  BY <1>1, RunningFacts
<1>3. eval[e].looked \subseteq {"trust", "status"} /\ AfterLocal(eval[e].inputs) = "pending"
  BY <1>1, <1>2 DEF EvalOk, Reached, EvalType
<1> PICK i \in InputType : i = eval[e].inputs
  BY <1>2
<1>4. /\ LocalProgress(i) \in Assessment /\ LocalProgress(i).trust # "not_evaluated"
      /\ i.status # "not_evaluated" /\ i.status \in {"current", "revoked", "stale", "unavailable"}
  BY <1>3, LocalProgressTyped DEF InputType
<1>5. /\ StatusProgress(i) \in Assessment /\ StatusProgress(i)["trust"] # "not_evaluated"
      /\ StatusProgress(i)["status"] # "not_evaluated"
  BY <1>4 DEF StatusProgress, Assessment
<1> QED
  BY <1>1, <1>3, <1>5, RecordThenInv DEF RecordStatus, Reached, Recorded

(* What is recorded when the evaluation ends tells what is assessed.       *)
LEMMA FinalTells ==
  ASSUME NEW x \in EvalType, x.pc = "finalize", x.inputs \in InputType
  PROVE  Tells(Assess(x.inputs), Recorded(x))
<1> PICK i \in InputType : i = x.inputs
  OBVIOUS
<1>1. LocalProgress(i).trust = Assess(i).trust
  BY LocalProgressTyped
<1>2. LocalProgress(i).context = IF Assess(i).context \in {"bound", "not_required"}
                                 THEN Assess(i).context ELSE "not_evaluated"
  BY DEF LocalProgress
<1>3. Assess(i).context \in {"not_evaluated", "bound", "not_required", "unverified", "mismatch"}
  BY AssessTyped DEF Assessment
<1>4. CASE AfterLocal(i) = "pending"
  <2>1. Recorded(x) = StatusProgress(i) /\ Assess(i).status = i.status
    BY <1>4 DEF Recorded, Assess
  <2>2. LocalProgress(i) \in Assessment
    BY LocalProgressTyped
  <2>3. /\ StatusProgress(i).trust = LocalProgress(i).trust
        /\ StatusProgress(i).context = LocalProgress(i).context
        /\ StatusProgress(i).status = i.status
    BY <2>2 DEF StatusProgress, Assessment
  <2> QED
    BY <1>1, <1>2, <1>3, <2>1, <2>3 DEF Tells
<1>5. CASE AfterLocal(i) # "pending"
  <2>1. Recorded(x) = LocalProgress(i)
    BY <1>5 DEF Recorded
  <2>2. LocalProgress(i).status = "not_evaluated" /\ Assess(i).status = "not_evaluated"
    BY <1>5 DEF LocalProgress, Assess
  <2> QED
    BY <1>1, <1>2, <1>3, <2>1, <2>2 DEF Tells
<1> QED
  BY <1>4, <1>5

(* What the evaluator hands to the store when it finalizes.                *)
LEMMA FinalFacts ==
  ASSUME EvalInv, NEW e \in Evaluators, eval[e].pc = "finalize"
  PROVE  /\ ValidDecision(FinalReason(e), FinalBody(e).progress)
         /\ FinalBody(e) \in Bodies /\ FinalHorizon(e) \in Horizons
         /\ FinalBody(e).progress = Assess(eval[e].inputs)
         /\ FinalBody(e).result \in Results \ {"interrupted"}
         /\ FinalHorizon(e) > 0 => Reason(eval[e].inputs) = "authorized"
         /\ FinalBody(e).result = "allow" =>
              /\ AllPassed(eval[e].inputs) /\ FinalHorizon(e) \in Int
              /\ \A b \in eval[e].inputs.bounds : b \in Int /\ FinalHorizon(e) <= b
<1>1. "finalize" \in Stages
  BY DEF Stages
<1>2. /\ EvalOk(eval[e]) /\ eval[e].claim # NoClaim /\ eval[e].claim \in Claims
      /\ eval[e].inputs \in InputType
  BY <1>1, RunningFacts
<1>3. eval[e].rateDenied => Reason(eval[e].inputs) = "authorized"
  BY <1>2 DEF EvalOk
<1> PICK i \in InputType : i = eval[e].inputs
  BY <1>2
<1>4. /\ ValidDecision(FinalReason(e), FinalBody(e).progress)
      /\ FinalBody(e).progress = Assess(i)
      /\ FinalBody(e).result \in Results \ {"interrupted"}
      /\ FinalBody(e).result = "allow" => AllPassed(i) /\ FinalReason(e) = "authorized"
      /\ FinalReason(e) = "authorized" => Reason(i) = "authorized"
  BY <1>2, <1>3, FinalReceipt
<1>5. /\ AllowHorizon(i, MaxTimestamp) \in 0..MaxTimestamp
      /\ \A b \in i.bounds : AllowHorizon(i, MaxTimestamp) <= b
  BY HorizonLeast
<1>6. FinalBody(e) \in Bodies
  <2>1. FinalBody(e) = [proof |-> eval[e].claim.proof, result |-> FinalBody(e).result,
                        progress |-> Assess(i)]
    BY DEF FinalBody
  <2> QED
    BY <1>2, <1>4, <2>1, AssessTyped, EvaluationAssumption
<1>7. FinalHorizon(e) \in 0..MaxTimestamp
  BY <1>5, StoreAssumption DEF FinalHorizon
<1>8. i.bounds \subseteq Int
  BY DEF InputType
<1>9. FinalReason(e) = "authorized" => FinalHorizon(e) = AllowHorizon(i, MaxTimestamp)
  BY DEF FinalHorizon
<1>10. FinalHorizon(e) > 0 => FinalReason(e) = "authorized"
  BY DEF FinalHorizon
<1> QED
  BY <1>4, <1>5, <1>6, <1>7, <1>8, <1>9, <1>10, EvaluationAssumption, StoreAssumption

(* Terminal finalization: the one commit of an evaluator, before the lease *)
(* ends, or nothing.                                                       *)
LEMMA FinalizeInv ==
  ASSUME EvalInv, NEW e \in Evaluators, NEW ok \in BOOLEAN, NEW heard \in BOOLEAN,
         FinalizeEvaluation(e, ok, heard)
  PROVE  [Next]_storeVars /\ EvalInv'
<1>1. eval[e].pc = "finalize" /\ eval[e].pc \in Stages
  BY DEF FinalizeEvaluation, Stages
<1>2. /\ eval[e] \in EvalType /\ EvalOk(eval[e]) /\ eval[e].claim # NoClaim
      /\ eval[e].claim \in Claims /\ Id(e) \in ClaimIds /\ Id(e) = eval[e].claim.id
      /\ eval[e].inputs \in InputType /\ Accepted(Id(e))
      /\ claims[Id(e)].claim = eval[e].claim
  BY <1>1, RunningFacts
<1> PICK id \in ClaimIds : id = Id(e)
  BY <1>2
<1> PICK body \in Bodies, horizon \in Horizons : body = FinalBody(e) /\ horizon = FinalHorizon(e)
  BY <1>1, FinalFacts
<1> DEFINE stored == FinalizeResult(id, id, body.result, body, horizon, ok)
           result == IF heard THEN stored ELSE "claim_store_unavailable"
<1>3. /\ Finalize(id, id, body.result, body, horizon, ok) /\ worker' = worker
      /\ IF result = "rate_limit_exceeded" /\ ~eval[e].rateDenied
         THEN eval' = [eval EXCEPT ![e].rateDenied = TRUE]
         ELSE eval' = [eval EXCEPT ![e] = Done(eval[e])]
      /\ handoffs' = IF result \in {"committed", "unchanged"}
                     THEN handoffs \cup {HandoffOf(eval[e].claim, body, horizon)}
                     ELSE handoffs
  BY <1>1, FinalFacts DEF FinalizeEvaluation, Goto, Done
<1>4. [Next]_storeVars
  BY <1>3, FinalizeIsStep
<1>5. StoreMoves /\ StoreInv /\ WindowInv /\ TypeOK /\ claims[id] \in ClaimRecord
  BY <1>4, StoreStepMoves DEF EvalInv, StoreInv, TypeOK
<1>6. stored # "unchanged"
  <2> SUFFICES ASSUME stored = "unchanged" PROVE FALSE
    OBVIOUS
  <2>1. /\ OwnerResult(id, id) = "claim_already_terminal"
        /\ claims[id].terminal = body.result
    BY DEF FinalizeResult, OwnerResult, ClockReading
  <2>2. Terminal(id)
    BY <2>1 DEF OwnerResult, Terminal, ClockReading
  <2> QED
    BY <1>1, <1>2, <2>1, <2>2, FinalFacts DEF EvalOk
<1>7. CASE stored # "committed" /\ ~(result = "rate_limit_exceeded" /\ ~eval[e].rateDenied)
  <2>1. UNCHANGED claims /\ handoffs' = handoffs
    BY <1>3, <1>6, <1>7 DEF Finalize
  <2> QED
    BY <1>2, <1>3, <1>4, <1>7, <2>1, EndInv
<1>8. CASE result = "rate_limit_exceeded" /\ ~eval[e].rateDenied
  <2> DEFINE x == [eval[e] EXCEPT !.rateDenied = TRUE]
  <2>1. UNCHANGED claims /\ handoffs' = handoffs /\ eval' = [eval EXCEPT ![e] = x]
    BY <1>3, <1>8 DEF Finalize
  <2>2. /\ x \in EvalType /\ x.pc = eval[e].pc /\ x.claim = eval[e].claim
        /\ x.inputs = eval[e].inputs /\ x.looked = eval[e].looked
    BY <1>2 DEF EvalType
  <2> HIDE DEF x
  <2>3. horizon > 0
    BY <1>8 DEF FinalizeResult, OwnerResult, ClockReading, AdmitsRate
  <2>4. Reason(x.inputs) = "authorized"
    BY <1>1, <2>2, <2>3, FinalFacts
  <2> PICK y \in EvalType : y = x
    BY <2>2
  <2>5. EvalOk(y)
    BY <1>2, <2>2, <2>4 DEF EvalOk, Reached, Recorded
  <2>6. y.claim # NoClaim => Undisturbed(y.claim.id)
    BY <1>2, <1>5, <2>1, <2>2, SameClaims
  <2>7. EvalOk(y)'
    BY <1>5, <2>5, <2>6, EvalKept
  <2>8. RecordOk(id)' /\ Only(id) /\ (~Terminal(id) => AllowOk(id)')
    BY <1>5, <2>1, SameClaims
  <2> QED
    BY <1>2, <1>3, <1>4, <1>5, <2>1, <2>2, <2>7, <2>8, EvaluatorInv
<1>9. CASE stored = "committed"
  <2>1. WindowNow(id, body.result, body, horizon)
    BY <1>5, <1>9, FinalizeInWindow DEF WindowInv
  <2>2. CommitDelta(id, body.result, body, horizon)
    BY <1>3, <1>5, <1>9, CommitEffect DEF Finalize
  <2>3. /\ claims'[id].progress = claims[id].progress /\ claims'[id].claim = claims[id].claim
        /\ claims'[id].terminal = body.result /\ claims'[id].receiptBody = body
        /\ claims'[id].allowHorizon = horizon /\ claims'[id].finalizedAt = now
        /\ Terminal(id)' /\ Accepted(id)' /\ ~Terminal(id) /\ Only(id)
    BY <2>1, <2>2 DEF CommitDelta, WindowNow, ClaimFacts, Terminal, Accepted, Only
  <2>4. RecordOk(id)'
    <3>1. ValidProgress(claims[id].progress) /\ claims[id].claim.id = id
      BY <1>2 DEF EvalInv, RecordOk
    <3>2. claims[id].progress = Recorded(eval[e])
      BY <1>1, <1>2, <2>3 DEF EvalOk
    <3>3. Tells(body.progress, claims[id].progress)
      BY <1>1, <1>2, <3>2, FinalFacts, FinalTells
    <3> QED
      BY <2>3, <3>1, <3>3 DEF RecordOk
  <2>5. /\ eval' = [eval EXCEPT ![e] = Done(eval[e])]
        /\ \A h \in handoffs' : h \in handoffs \/ h = HandoffOf(eval[e].claim, body, horizon)
    BY <1>3, <1>9
  <2> PICK x \in EvalType : x = Done(eval[e])
    BY <1>2, DoneOk
  <2>6. /\ x.claim = eval[e].claim /\ x.inputs = eval[e].inputs /\ x.pc = "done"
        /\ x.looked = eval[e].looked /\ x.rateDenied = eval[e].rateDenied
    BY <1>2, DoneOk
  <2>7. EvalOk(x)'
    <3>1. "done" \notin Stages
      BY DEF Stages
    <3> QED
      BY <1>2, <2>3, <2>6, <3>1 DEF EvalOk
  <2>8. AllowOk(id)'
    <3> SUFFICES ASSUME body.result = "allow" PROVE AllowOk(id)'
      BY <2>3 DEF AllowOk
    <3>1. /\ AllPassed(eval[e].inputs) /\ horizon \in Int
          /\ \A b \in eval[e].inputs.bounds : b \in Int /\ horizon <= b
      BY <1>1, FinalFacts
    <3>2. now < horizon /\ now \in Int
      BY <1>5, <2>1 DEF WindowNow, TypeOK
    <3>3. \A b \in eval[e].inputs.bounds : now < b
      BY <3>1, <3>2
    <3>4. eval'[e].claim = claims'[id].claim /\ eval'[e].inputs = eval[e].inputs
      BY <1>2, <2>3, <2>5, <2>6 DEF EvalInv
    <3> QED
      BY <2>3, <3>1, <3>3, <3>4 DEF AllowOk
  <2>9. \A h \in handoffs' : h \in handoffs \/ HandoffOk(h)'
    <3>1. HandoffOf(eval[e].claim, body, horizon).id = id
      BY <1>2 DEF HandoffOf
    <3> QED
      BY <1>2, <2>3, <2>5, <3>1 DEF HandoffOk
  <2> QED
    BY <1>2, <1>3, <1>4, <1>5, <2>3, <2>4, <2>5, <2>6, <2>7, <2>8, <2>9, EvaluatorInv
<1> QED
  BY <1>7, <1>8, <1>9

-----------------------------------------------------------------------------
(* The steps of recovery and resumption.                                   *)

(* The worker reads an expired claim: the receipt it will commit tells the *)
(* progress, which is final.                                               *)
LEMMA RecoverLoadInv ==
  ASSUME EvalInv, NEW w \in Workers, NEW id \in ClaimIds, RecoverLoad(w, id)
  PROVE  [Next]_storeVars /\ EvalInv'
<1>1. /\ LoadInterrupted(id) /\ LoadInterruptedResult(id) = "ok" /\ UNCHANGED claims
      /\ eval' = eval /\ handoffs' = handoffs
  BY DEF RecoverLoad, LoadInterrupted
<1>2. [Next]_storeVars
  BY <1>1 DEF Next, RecoveryStep
<1>3. StoreMoves /\ TypeOK /\ claims[id] \in ClaimRecord
  BY <1>2, StoreStepMoves DEF EvalInv, StoreInv, TypeOK
<1>4. /\ Accepted(id) /\ ClockOk
      /\ claims[id].state = "evaluating" => ~(now < claims[id].leaseExpiresAt)
  BY <1>1 DEF LoadInterruptedResult, Accepted, ClockOk, ClockReading
<1>5. claims[id].claim \in Claims /\ claims[id].claim.id = id
  BY <1>4 DEF EvalInv, WindowInv, LeaseFollowsClaim, RecordOk
<1>6. highWater' = now
  BY <1>1, <1>4 DEF LoadInterrupted, ReadClockIf, HighWaterAfterRead, Accepted
<1> DEFINE y == [pc |-> "commit", claim |-> claims[id].claim,
                 body |-> InterruptedBody(claims[id].claim, claims[id].progress)]
<1>7. worker' = [worker EXCEPT ![w] = y]
  BY DEF RecoverLoad
<1>8. y.body \in Bodies
  <2>1. claims[id].progress \in Assessment /\ "interrupted" \in Results
    BY <1>3 DEF ClaimRecord, Results
  <2> QED
    BY <1>5, <2>1, EvaluationAssumption DEF InterruptedBody
<1>9. y \in WorkType
  BY <1>5, <1>8 DEF WorkType
<1>10. ~Terminal(id) => claims[id].leaseExpiresAt <= highWater'
  <2>1. claims[id].leaseExpiresAt \in Int /\ now \in Int
    BY <1>3 DEF TypeOK, ClaimRecord
  <2>2. ~Terminal(id) => claims[id].state = "evaluating"
    BY <1>3, <1>4 DEF ClaimRecord, Accepted, Terminal
  <2> QED
    BY <1>4, <1>6, <2>1, <2>2
<1> PICK z \in WorkType : z = y
  BY <1>9
<1>11. WorkOk(z)'
  BY <1>1, <1>4, <1>5, <1>8, <1>10 DEF WorkOk, Accepted, Terminal
<1> HIDE DEF y
<1>12. worker' \in [Workers -> WorkType] /\ \A v \in Workers : WorkOk(worker[v])'
  <2>1. worker \in [Workers -> WorkType] /\ worker'[w] = z
    BY <1>7 DEF EvalInv
  <2>2. ASSUME NEW v \in Workers PROVE WorkOk(worker[v])'
    <3>1. CASE v = w
      BY <1>11, <2>1, <3>1
    <3>2. CASE v # w
      <4>1. worker'[v] = worker[v]
        BY <1>7, <2>1, <3>2
      <4> QED
        BY <1>1, <1>3, <4>1, SameClaims
    <3> QED
      BY <3>1, <3>2
  <2> QED
    BY <1>7, <1>9, <2>1, <2>2
<1> QED
  BY <1>1, <1>2, <1>3, <1>12, SameClaims, QuietInv

(* Recovery commits the receipt it built, or finds the claim terminal.     *)
LEMMA RecoverCommitInv ==
  ASSUME EvalInv, NEW w \in Workers, NEW ok \in BOOLEAN, NEW heard \in BOOLEAN,
         RecoverCommit(w, ok, heard)
  PROVE  [Next]_storeVars /\ EvalInv'
<1>1. worker[w] \in WorkType /\ worker[w].pc = "commit" /\ WorkOk(worker[w])
  BY DEF EvalInv, RecoverCommit
<1> PICK y \in WorkType : y = worker[w]
  BY <1>1
<1> PICK id : id = y.claim.id
  OBVIOUS
<1>2. /\ id \in ClaimIds /\ y.claim \in Claims /\ Accepted(id) /\ claims[id].claim = y.claim
      /\ y.body = InterruptedBody(y.claim, claims[id].progress) /\ y.body \in Bodies
  BY <1>1, SealedId DEF WorkOk
<1>3. y.body.result = "interrupted" /\ y.body.progress = claims[id].progress
  BY <1>2 DEF InterruptedBody
<1> DEFINE stored == RecoverResult(id, "interrupted", y.body, ok)
           result == IF heard THEN stored ELSE "claim_store_unavailable"
<1>4. /\ Recover(id, "interrupted", y.body, ok) /\ eval' = eval
      /\ worker' = [worker EXCEPT ![w] = NoWork]
      /\ handoffs' = IF result \in {"committed", "unchanged"}
                     THEN handoffs \cup {HandoffOf(y.claim, y.body, 0)} ELSE handoffs
  BY DEF RecoverCommit
<1>5. [Next]_storeVars
  BY <1>2, <1>3, <1>4, RecoverIsStep
<1>6. /\ StoreMoves /\ StoreInv /\ WindowInv /\ TypeOK
      /\ claims[id] \in ClaimRecord /\ RecordOk(id)
  BY <1>2, <1>5, StoreStepMoves DEF EvalInv, StoreInv, TypeOK
<1>7. HandoffOf(y.claim, y.body, 0).id = id
  BY DEF HandoffOf
<1>8. \A x \in ClaimIds : /\ Undisturbed(x) /\ RecordOk(x)'
                          /\ ~Terminal(x) => claims'[x].terminal # "allow"
  <2>1. CASE stored # "committed"
    <3>1. UNCHANGED claims
      BY <1>4, <2>1 DEF Recover
    <3> QED
      BY <1>6, <3>1, SameClaims
  <2>2. CASE stored = "committed"
    <3>1. CommitDelta(id, "interrupted", y.body, 0)
      BY <1>2, <1>4, <1>6, <2>2, CommitEffect DEF Recover
    <3>2. /\ claims'[id].progress = claims[id].progress /\ claims'[id].claim = claims[id].claim
          /\ claims'[id].terminal = "interrupted" /\ claims'[id].receiptBody = y.body
          /\ Terminal(id)'
      BY <3>1 DEF CommitDelta, ClaimFacts, Terminal
    <3>3. Tells(y.body.progress, claims[id].progress)
      BY <1>3 DEF Tells
    <3>4. RecordOk(id)'
      BY <1>2, <1>6, <3>2, <3>3 DEF RecordOk
    <3>5. ASSUME NEW x \in ClaimIds \ {id}
          PROVE  /\ Undisturbed(x) /\ RecordOk(x)'
                 /\ ~Terminal(x) => claims'[x].terminal # "allow"
      <4>1. claims'[x] = claims[x] /\ RecordOk(x)
        BY <3>1 DEF CommitDelta, EvalInv
      <4>2. RecordOk(x)'
        BY <4>1, SameRecordOk
      <4> QED
        BY <4>1, <4>2 DEF Undisturbed, Terminal, RecordOk
    <3> QED
      BY <3>2, <3>4, <3>5 DEF Undisturbed
  <2> QED
    BY <2>1, <2>2
<1>9. worker' \in [Workers -> WorkType] /\ \A v \in Workers : WorkOk(worker[v])'
  <2>1. NoWork \in WorkType /\ NoWork.pc = "idle"
    BY DEF NoWork, WorkType
  <2>2. worker \in [Workers -> WorkType] /\ worker'[w] = NoWork
    BY <1>4 DEF EvalInv
  <2>3. ASSUME NEW v \in Workers PROVE WorkOk(worker[v])'
    <3>1. CASE v = w
      BY <2>1, <2>2, <3>1 DEF WorkOk
    <3>2. CASE v # w
      <4>1. worker'[v] = worker[v] /\ worker[v] \in WorkType /\ WorkOk(worker[v])
        BY <1>4, <2>2, <3>2 DEF EvalInv
      <4> PICK z \in WorkType : z = worker[v]
        BY <4>1
      <4>2. z.pc = "commit" => z.claim.id \in ClaimIds
        BY <4>1, SealedId DEF WorkOk
      <4>3. WorkOk(z)'
        BY <1>6, <1>8, <4>1, <4>2, WorkKept DEF Undisturbed
      <4> QED
        BY <4>1, <4>3
    <3> QED
      BY <3>1, <3>2
  <2> QED
    BY <1>4, <2>1, <2>2, <2>3
<1>10. \A h \in handoffs' : h \in handoffs \/ HandoffOk(h)'
  <2>1. CASE result \notin {"committed", "unchanged"}
    BY <1>4, <2>1
  <2>2. CASE result = "committed"
    <3>1. CommitDelta(id, "interrupted", y.body, 0)
      BY <1>2, <1>4, <1>6, <2>2, CommitEffect DEF Recover
    <3>2. /\ claims'[id].claim = claims[id].claim /\ claims'[id].receiptBody = y.body
          /\ claims'[id].allowHorizon = 0 /\ Terminal(id)'
      BY <3>1 DEF CommitDelta, ClaimFacts, Terminal
    <3> QED
      BY <1>2, <1>4, <1>7, <3>2 DEF HandoffOk
  <2>3. CASE result = "unchanged"
    <3>1. /\ Terminal(id) /\ claims[id].terminal = "interrupted"
          /\ claims[id].receiptBody = y.body /\ UNCHANGED claims
      BY <1>4, <2>3 DEF RecoverResult, Recover, Terminal, ClockReading
    <3>2. claims[id].allowHorizon = 0
      BY <1>2, <1>6, <3>1 DEF WindowInv, CommitInWindow
    <3> QED
      BY <1>2, <1>4, <1>7, <3>1, <3>2 DEF HandoffOk, Terminal
  <2> QED
    BY <2>1, <2>2, <2>3
<1> QED
  BY <1>4, <1>5, <1>6, <1>8, <1>9, <1>10, QuietInv

(* A step that changes no claim, evaluator or worker, and returns only     *)
(* what is committed.                                                      *)
LEMMA ReadingInv ==
  ASSUME EvalInv, [Next]_storeVars, UNCHANGED <<claims, eval, worker>>,
         \A h \in handoffs' : h \in handoffs \/ HandoffOk(h)
  PROVE  EvalInv'
<1>1. StoreMoves /\ worker' \in [Workers -> WorkType]
  BY StoreStepMoves DEF EvalInv
<1>2. \A h \in handoffs' : h \in handoffs \/ HandoffOk(h)'
  BY <1>1, HandoffKept
<1> QED
  BY <1>1, <1>2, SameClaims, QuietInv

(* Resumption hands off a committed record.                                *)
LEMMA ResumeInv ==
  ASSUME EvalInv, NEW id \in ClaimIds, Resume(id)
  PROVE  [Next]_storeVars /\ EvalInv'
<1>1. /\ LoadCommitted(id) /\ LoadCommittedResult(id) = "ok" /\ claims[id].claim.id = id
      /\ UNCHANGED <<claims, eval, worker>>
      /\ handoffs' = handoffs \cup {HandoffOf(claims[id].claim, claims[id].receiptBody,
                                              claims[id].allowHorizon)}
  BY DEF Resume, LoadCommitted
<1>2. [Next]_storeVars
  BY <1>1 DEF Next, RecoveryStep
<1>3. Terminal(id)
  BY <1>1 DEF LoadCommittedResult, Terminal, ClockOk
<1>4. HandoffOf(claims[id].claim, claims[id].receiptBody, claims[id].allowHorizon).id = id
  BY <1>1 DEF HandoffOf
<1> QED
  BY <1>1, <1>2, <1>3, <1>4, ReadingInv DEF HandoffOk

-----------------------------------------------------------------------------
(* Every step of evaluators, workers, resumption and the clock is a step   *)
(* of the store and keeps the invariant.                                   *)
LEMMA EvalNextInv ==
  ASSUME EvalInv, [EvalNext]_vars
  PROVE  [Next]_storeVars /\ EvalInv'
<1>1. ASSUME NEW e \in Evaluators, NEW ok \in BOOLEAN, NEW heard \in BOOLEAN,
             EvaluatorStep(e, ok, heard)
      PROVE  [Next]_storeVars /\ EvalInv'
  <2>1. ASSUME eval[e].pc = "idle", NEW c \in Claims, NEW i \in InputsOf(c),
               Present(e, c, i, ok, heard)
        PROVE  [Next]_storeVars /\ EvalInv'
    <3>1. i \in InputType
      BY EvaluationAssumption DEF InputsOf
    <3> QED
      BY <2>1, <3>1, PresentInv
  <2> QED
    BY <1>1, <2>1, RecordTrustStartedInv, RecordLocalInv, RecordStatusInv, FinalizeInv
    DEF EvaluatorStep
<1>2. ASSUME NEW e \in Evaluators, Crash(e) PROVE [Next]_storeVars /\ EvalInv'
  <2>1. /\ eval[e] \in EvalType /\ UNCHANGED storeVars /\ worker' = worker /\ handoffs' = handoffs
        /\ eval[e].pc \notin {"idle", "done"} /\ eval' = [eval EXCEPT ![e] = Done(eval[e])]
    BY <1>2 DEF Crash, Goto, Done, EvalInv
  <2>2. eval[e].pc \in Stages
    BY <2>1 DEF EvalType
  <2>3. Id(e) \in ClaimIds /\ Id(e) = eval[e].claim.id
    BY <2>2, RunningFacts
  <2> QED
    BY <2>1, <2>3, EndInv DEF storeVars
<1>3. ASSUME NEW t \in ClockSettings, SetTime(t), UNCHANGED evalVars
      PROVE  [Next]_storeVars /\ EvalInv'
  <2>1. [Next]_storeVars /\ UNCHANGED <<claims, eval, worker, handoffs>>
    BY <1>3 DEF Next, ClockStep, SetTime, evalVars
  <2> QED
    BY <2>1, ReadingInv
<1>4. CASE UNCHANGED vars
  <2>1. [Next]_storeVars /\ UNCHANGED <<claims, eval, worker, handoffs>>
    BY <1>4 DEF vars, storeVars, evalVars
  <2> QED
    BY <2>1, ReadingInv
<1> QED
  BY <1>1, <1>2, <1>3, <1>4, RecoverCommitInv, RecoverLoadInv, ResumeInv
  DEF EvalNext, SystemStep

(* The invariant holds at the start.                                       *)
LEMMA EvalInitInv == EvalInit => EvalInv
<1> SUFFICES ASSUME EvalInit PROVE EvalInv
  OBVIOUS
<1>1. StoreInv /\ WindowInv
  BY InitKeepsStore, InitInWindow DEF EvalInit
<1>2. ASSUME NEW id \in ClaimIds PROVE RecordOk(id) /\ AllowOk(id)
  <2>1. /\ claims[id].progress = InitialProgress /\ claims[id].terminal = "none"
        /\ claims[id].state = "absent"
    BY DEF EvalInit, Init, Absent
  <2>2. ValidProgress(InitialProgress)
    BY DEF ValidProgress, InitialProgress
  <2> QED
    BY <2>1, <2>2 DEF RecordOk, AllowOk, Accepted, Terminal
<1>3. NoEval \in EvalType /\ EvalOk(NoEval) /\ NoEval.claim = NoClaim
  BY DEF NoEval, EvalType, EvalOk, Stages
<1>4. NoWork \in WorkType /\ WorkOk(NoWork)
  BY DEF NoWork, WorkType, WorkOk
<1>5. /\ eval \in [Evaluators -> EvalType] /\ worker \in [Workers -> WorkType]
      /\ \A e \in Evaluators : eval[e] = NoEval
      /\ \A w \in Workers : worker[w] = NoWork
      /\ handoffs = {}
  BY <1>3, <1>4 DEF EvalInit
<1> QED
  BY <1>1, <1>2, <1>3, <1>4, <1>5 DEF EvalInv, OneEvaluation

(* The invariant of the live decision path, for any number of evaluators,  *)
(* workers and claims, any clock, and every finding of the stages.         *)
THEOREM EvaluationInvariant == EvalSpec => []EvalInv
<1>1. EvalInv /\ [EvalNext]_vars => EvalInv'
  BY EvalNextInv
<1> QED
  BY EvalInitInv, <1>1, PTL DEF EvalSpec

(* Evaluators and recovery workers only do what callers of the store may   *)
(* do, so every theorem about the store with arbitrary callers holds of    *)
(* the live decision path.                                                 *)
THEOREM CallersOfTheStore == EvalSpec => Spec
<1>1. EvalInit => Init
  BY DEF EvalInit
<1>2. EvalInv /\ [EvalNext]_vars => [Next]_storeVars
  BY EvalNextInv
<1> QED
  BY <1>1, <1>2, EvaluationInvariant, PTL DEF EvalSpec, Spec

(* An allow is committed only by an evaluation in which every stage        *)
(* passed, strictly before each of the freshness bounds it rests on        *)
(* (allow_horizon_v2, finalize_v2_claim).                                  *)
THEOREM AllowsSound == EvalSpec => []AllowSound
<1>1. EvalInv => AllowSound
  BY DEF EvalInv, AllowSound, AllowOk
<1> QED
  BY <1>1, EvaluationInvariant, PTL

(* Every handoff ever returned, by an evaluator, a worker or resumption,   *)
(* is the one committed result of its claim (CommittedV2Outcome).          *)
THEOREM HandoffsOfTheStore == EvalSpec => []HandoffsMatchStore
<1>1. EvalInv => HandoffsMatchStore
  BY DEF EvalInv, HandoffsMatchStore, HandoffOk
<1> QED
  BY <1>1, EvaluationInvariant, PTL

(* A claim is evaluated by at most one call, whatever is presented again   *)
(* (claim_v2).                                                             *)
THEOREM EvaluatedOnce == EvalSpec => []OneEvaluation
<1>1. EvalInv => OneEvaluation
  BY DEF EvalInv
<1> QED
  BY <1>1, EvaluationInvariant, PTL

(* Every outcome of an evaluation has a consistent receipt, and a receipt  *)
(* tells exactly the lookups of its claim, whoever commits it              *)
(* (build_v2_terminal_result, recover_interrupted_claim_v2).               *)
THEOREM ReceiptsComplete == EvalSpec => []ReceiptsTellOutcome
<1>1. EvalInv => EveryOutcomeHasReceipt
  <2> SUFFICES ASSUME EvalInv PROVE EveryOutcomeHasReceipt
    OBVIOUS
  <2>1. \A e \in Evaluators : eval[e].pc = "finalize" =>
          ValidDecision(FinalReason(e), FinalBody(e).progress)
    BY FinalFacts
  <2>2. \A id \in ClaimIds : ValidDecision("evaluation_interrupted", claims[id].progress)
    <3>1. \A id \in ClaimIds : claims[id].progress \in Assessment
      BY DEF EvalInv, StoreInv, TypeOK, ClaimRecord
    <3> QED
      BY <3>1, InterruptedFits DEF EvalInv, RecordOk
  <2> QED
    BY <2>1, <2>2 DEF EveryOutcomeHasReceipt
<1>2. EvalInv => BodiesTellProgress
  <2> SUFFICES ASSUME EvalInv PROVE BodiesTellProgress
    OBVIOUS
  <2>1. \A id \in ClaimIds : Terminal(id) =>
          /\ claims[id].receiptBody.progress.trust = claims[id].progress.trust
          /\ claims[id].receiptBody.progress.status = claims[id].progress.status
          /\ claims[id].receiptBody.progress.context \notin {"unverified", "mismatch"} =>
               claims[id].receiptBody.progress.context = claims[id].progress.context
    BY DEF EvalInv, RecordOk, Tells
  <2>2. ASSUME NEW e \in Evaluators, NEW l \in eval[e].looked
        PROVE  /\ claims[Id(e)].progress[l] # "not_evaluated"
               /\ Terminal(Id(e)) => claims[Id(e)].receiptBody.progress[l] # "not_evaluated"
    <3>1. eval[e] \in EvalType /\ EvalOk(eval[e])
      BY DEF EvalInv
    <3>2. eval[e].claim # NoClaim /\ l \in {"trust", "status"}
      BY <3>1 DEF EvalOk, EvalType
    <3>3. Id(e) \in ClaimIds /\ claims[Id(e)].progress[l] # "not_evaluated"
      BY <3>1, <3>2, SealedId DEF EvalOk, EvalType, Id
    <3> QED
      BY <2>1, <3>2, <3>3
  <2> QED
    BY <2>1, <2>2 DEF BodiesTellProgress
<1> QED
  BY <1>1, <1>2, EvaluationInvariant, PTL DEF ReceiptsTellOutcome
=============================================================================
