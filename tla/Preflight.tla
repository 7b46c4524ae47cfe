----------------------------- MODULE Preflight ------------------------------
(***************************************************************************)
(* The checks made on a presentation before its challenge may be claimed   *)
(* (sdks/rust/src/v2/preflight.rs) and the verifier's context policy       *)
(* (context_policy.rs).                                                    *)
(*                                                                         *)
(* A proof is [value, at, verifier, agent, session, audience, signed]:     *)
(* audience is the set of receiver-audience constraints of its             *)
(* certificates, each [exact, domains].  An expected challenge is [value,  *)
(* issuedAt, expiresAt, ns, epoch, verifier, agent, key, receiver,         *)
(* session]; an agent's key is modelled by the key's ID.  A policy is      *)
(* [configured, bound, session].  "none" is an absent value and "short" a  *)
(* session context that is not 32 bytes.                                   *)
(***************************************************************************)
EXTENDS Integers

CONSTANTS MaxSafe,        \* 2^53 - 1, the bound of epochs
          MaxTimestamp,   \* V2_MAX_TIMESTAMP_SECONDS
          MaxLifetime,    \* V2_MAX_CHALLENGE_AGE_SECONDS
          MaxSkew         \* V2_MAX_FUTURE_SKEW_SECONDS

ASSUME LimitsAssumption ==
  {MaxSafe, MaxTimestamp, MaxLifetime, MaxSkew} \subseteq Nat /\ MaxTimestamp <= MaxSafe

None == "none"
NoPolicy == [configured |-> FALSE, bound |-> FALSE, session |-> None]

ValidTimestamp(t) == t \in 0..MaxTimestamp

(* Faulty variant: the deadline itself still counts as fresh.              *)
TimeCurrentInclusive(now, issuedAt, expiresAt, maxAge, skew) ==
  /\ issuedAt - now <= skew
  /\ now <= expiresAt
  /\ now <= issuedAt + maxAge

(* v2_challenge_time_current: both deadlines are exclusive.                *)
TimeCurrent(now, issuedAt, expiresAt, maxAge, skew) ==
  /\ ValidTimestamp(now) /\ ValidTimestamp(issuedAt) /\ ValidTimestamp(expiresAt)
  /\ issuedAt - now <= skew
  /\ issuedAt + maxAge <= MaxSafe
  /\ now < expiresAt
  /\ now < issuedAt + maxAge

-----------------------------------------------------------------------------
(* The context policy.                                                     *)

(* V2ContextPolicy::new: a bound policy has fields and a whole context, an *)
(* unbound one has no context.                                             *)
PolicyAccepted(bound, fields, session) ==
  IF bound THEN fields # {} /\ session \notin {None, "short"} ELSE session = None

(* evaluate_proof_bundle_v2_context_policy, after the claim.               *)
ContextAssessment(proof, policy) ==
  IF ~policy.configured THEN IF proof.session = None THEN "unbound" ELSE "unverified"
  ELSE IF ~policy.bound THEN "not_required"
  ELSE IF proof.session = None THEN "unverified"
  ELSE IF proof.session = policy.session THEN "bound" ELSE "mismatch"

(* What the issued challenge and the policy must agree on: a challenge     *)
(* that expects no context is accepted under a bound policy, whose own     *)
(* context is compared after the claim.                                    *)
PolicyConflict(expected, policy) ==
  /\ policy.configured
  /\ expected.session # None
  /\ policy.bound => expected.session # policy.session

-----------------------------------------------------------------------------
(* validate_proof_bundle_v2_preflight.                                     *)

ValidConfig(cfg) == cfg.ns # None /\ cfg.epoch \in 0..MaxSafe /\ cfg.verifier # None

(* An exact-only audience that does not name the receiver is refused here; *)
(* one that also names trust domains waits for the claim.                  *)
AudienceResult(proof, receiver) ==
  IF proof.audience # {} /\ receiver = None THEN "receiver_audience_required"
  ELSE IF \E c \in proof.audience : c.domains = {} /\ receiver \notin c.exact
       THEN "receiver_audience_mismatch" ELSE "ok"

(* The agent, the session and the receiver the issuer expects.             *)
BindingResult(proof, expected) ==
  IF (expected.agent = None) # (expected.key = None) THEN "configuration_invalid"
  ELSE IF expected.key # None /\ (expected.key # expected.agent \/ proof.agent # expected.key)
       THEN "expected_agent_mismatch"
  ELSE IF expected.session # None /\ proof.session # expected.session
       THEN "session_context_mismatch" ELSE AudienceResult(proof, expected.receiver)

(* Every check of preflight_proof_bundle_v2, in the order of the code; an  *)
(* issuance record carries no policy of its own, so only its context can   *)
(* disagree with the verifier's.                                           *)
PreflightResult(proof, expected, policy, cfg, now) ==
  IF PolicyConflict(expected, policy) THEN "configuration_invalid"
  ELSE IF ~ValidConfig(cfg) \/ expected.session = "short" THEN "configuration_invalid"
  ELSE IF cfg.scope = None THEN "invalid_required_scope"
  ELSE IF ~proof.signed THEN "signature_invalid"
  ELSE IF expected.ns # cfg.ns THEN "namespace_mismatch"
  ELSE IF expected.epoch \notin 0..MaxSafe \/ expected.epoch # cfg.epoch THEN "stale_replay_epoch"
  ELSE IF expected.verifier # cfg.verifier \/ proof.verifier # cfg.verifier
       THEN "verifier_id_mismatch"
  ELSE IF proof.value # expected.value \/ proof.at # expected.issuedAt THEN "challenge_mismatch"
  ELSE IF \/ ~ValidTimestamp(expected.issuedAt) \/ ~ValidTimestamp(expected.expiresAt)
          \/ expected.expiresAt <= expected.issuedAt
          \/ ~ValidTimestamp(now) \/ cfg.maxAge \notin 1..MaxLifetime \/ cfg.skew \notin 0..MaxSkew
       THEN "configuration_invalid"
  ELSE IF ~TimeCurrent(now, expected.issuedAt, expected.expiresAt, cfg.maxAge, cfg.skew)
       THEN "challenge_not_fresh"
  ELSE BindingResult(proof, expected)
=============================================================================
