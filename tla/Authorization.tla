--------------------------- MODULE Authorization ----------------------------
(***************************************************************************)
(* The result of one evaluation (sdks/rust/src/v2/authorization.rs) as a   *)
(* function of what its ordered stages find: local authorization, status,  *)
(* audience, rate; and the table of consistent receipts (receipt.rs).      *)
(***************************************************************************)
EXTENDS Integers

(* What the stages find.  trust "none" is a proof without delegations.  A  *)
(* chain is invalid for its time bounds, expiry, scope syntax or a missing *)
(* right to delegate.  constraint is the aggregate of the constraints that *)
(* are decided locally, the time-window horizon included.  audience and    *)
(* rate are "none" when no certificate defers such a constraint.  bounds   *)
(* are the exclusive freshness deadlines: delegations, status, and, where  *)
(* there are any, audience, time window and extensions.                    *)
Constraint == {"passed", "constraint_denied", "constraint_unknown", "constraint_unverifiable"}
InputType == [trust      : {"none", "trusted", "untrusted", "unavailable"},
              chain      : {"valid", "invalid"},
              scope      : {"granted", "denied"},
              context    : {"bound", "not_required", "unverified", "mismatch"},
              constraint : Constraint,
              status     : {"current", "revoked", "stale", "unavailable"},
              audience   : {"none", "passed", "constraint_denied", "constraint_unverifiable"},
              rate       : {"none", "reserved", "deferred", "exceeded", "unavailable"},
              bounds     : SUBSET Nat]

(* The first local failure in the order scope, context, constraints; it    *)
(* does not end the evaluation before the status of the chain is known.    *)
LocalFailure(i) ==
  IF i.scope = "denied" THEN "scope_denied"
  ELSE IF i.context = "unverified" THEN "action_context_unverified"
  ELSE IF i.context = "mismatch" THEN "constraint_denied"
  ELSE i.constraint

(* evaluate_local_started: what ends the evaluation before any status      *)
(* lookup, or "pending".                                                   *)
AfterLocal(i) ==
  IF i.trust = "none" THEN "not_delegated"
  ELSE IF i.trust = "unavailable" THEN "trust_unavailable"
  ELSE IF i.trust = "untrusted" THEN "unauthorized"
  ELSE IF i.chain = "invalid" THEN "chain_invalid"
  ELSE "pending"

(* A proven audience violation outranks an unknown or unverifiable local   *)
(* constraint, so the audience stage still runs.                           *)
CombinableWithAudience(i) ==
  /\ LocalFailure(i) \in {"constraint_unknown", "constraint_unverifiable"}
  /\ i.audience # "none"

(* Faulty variant: a local failure is reported before the status.          *)
AfterStatusLocalFirst(i) ==
  IF LocalFailure(i) # "passed" THEN LocalFailure(i)
  ELSE IF i.status = "revoked" THEN "delegation_revoked"
  ELSE IF i.status = "unavailable" THEN "status_unavailable"
  ELSE IF i.status = "stale" THEN "status_stale"
  ELSE IF i.audience # "none" THEN "audience"
  ELSE IF i.rate # "none" THEN "rate" ELSE "authorized"

AfterStatus(i) ==
  IF i.status = "revoked" THEN "delegation_revoked"
  ELSE IF i.status = "unavailable" THEN "status_unavailable"
  ELSE IF i.status = "stale" THEN "status_stale"
  ELSE IF CombinableWithAudience(i) THEN "audience"
  ELSE IF LocalFailure(i) # "passed" THEN LocalFailure(i)
  ELSE IF i.audience # "none" THEN "audience"
  ELSE IF i.rate # "none" THEN "rate" ELSE "authorized"

Precedence(r) == IF r = "constraint_denied" THEN 3
                 ELSE IF r = "constraint_unknown" THEN 2
                 ELSE IF r = "constraint_unverifiable" THEN 1 ELSE 0

(* Faulty variant: a pending local failure is forgotten.                   *)
AfterAudienceForgets(i) ==
  IF i.audience # "passed" THEN i.audience
  ELSE IF i.rate # "none" THEN "rate" ELSE "authorized"

AfterAudience(i) ==
  IF LocalFailure(i) # "passed"
  THEN IF i.audience = "passed" \/ Precedence(LocalFailure(i)) > Precedence(i.audience)
       THEN LocalFailure(i) ELSE i.audience
  ELSE IF i.audience # "passed" THEN i.audience
  ELSE IF i.rate # "none" THEN "rate" ELSE "authorized"

AfterRate(i) ==
  IF i.rate \in {"reserved", "deferred"} THEN "authorized"
  ELSE IF i.rate = "exceeded" THEN "constraint_denied" ELSE "constraint_unverifiable"

(* The stages in the order of verify_proof_bundle_v2.                      *)
Reason(i) ==
  LET local    == AfterLocal(i)
      status   == IF local = "pending" THEN AfterStatus(i) ELSE local
      audience == IF status = "audience" THEN AfterAudience(i) ELSE status
  IN  IF audience = "rate" THEN AfterRate(i) ELSE audience

(* allow_horizon_v2.                                                       *)
AllowHorizon(i, max) ==
  CHOOSE h \in i.bounds \cup {max} : \A b \in i.bounds \cup {max} : h <= b

(* terminal_decision_for_v2_evaluation.                                    *)
Decision(reason) ==
  IF reason = "authorized" THEN "allow"
  ELSE IF reason \in {"trust_unavailable", "action_context_unverified",
                      "status_unavailable", "status_stale"} THEN "indeterminate"
  ELSE "deny"

(* The assessments of build_v2_terminal_result: status and context are     *)
(* those of an evaluation that reached the status stage.                   *)
Assess(i) ==
  LET reached == AfterLocal(i) = "pending"
  IN  [trust   |-> IF i.trust = "none" THEN "not_evaluated" ELSE i.trust,
       status  |-> IF reached THEN i.status ELSE "not_evaluated",
       context |-> IF reached THEN i.context ELSE "not_evaluated"]

(* validate_decision of receipt.rs: the assessments a receipt may carry    *)
(* with each reason.                                                       *)
ConstraintReasons == Constraint \ {"passed"}
ValidDecision(reason, a) ==
  LET passed  == a.context \in {"bound", "not_required"}
      decided == a.trust = "trusted" /\ a.context # "not_evaluated"
      early   == a.status = "not_evaluated" /\ a.context = "not_evaluated"
  IN  \/ reason = "authorized" /\ a.trust = "trusted" /\ a.status = "current" /\ passed
      \/ reason = "not_delegated" /\ a.trust = "not_evaluated" /\ early
      \/ reason = "unauthorized" /\ a.trust = "untrusted" /\ early
      \/ reason = "trust_unavailable" /\ a.trust = "unavailable" /\ early
      \/ reason = "chain_invalid" /\ a.trust = "trusted" /\ early
      \/ reason = "delegation_revoked" /\ decided /\ a.status = "revoked"
      \/ reason = "status_stale" /\ decided /\ a.status = "stale"
      \/ reason = "status_unavailable" /\ decided /\ a.status = "unavailable"
      \/ reason = "scope_denied" /\ decided /\ a.status = "current"
      \/ /\ reason = "action_context_unverified"
         /\ decided /\ a.status = "current" /\ a.context = "unverified"
      \/ /\ reason \in ConstraintReasons
         /\ a.trust = "trusted" /\ a.status = "current"
         /\ passed \/ (reason = "constraint_denied" /\ a.context = "mismatch")
      \/ /\ reason = "evaluation_interrupted"
         /\ a.context = "not_evaluated" \/ passed
         /\ a.trust # "trusted" => early
=============================================================================
