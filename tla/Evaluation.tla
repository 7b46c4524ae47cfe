----------------------------- MODULE Evaluation -----------------------------
(***************************************************************************)
(* The live decision path (sdks/rust/src/v2/verify.rs) and the recovery    *)
(* and resumption of claims (evaluation_progress.rs), against the store of *)
(* module ClaimStore.                                                      *)
(*                                                                         *)
(* An evaluator is one call of verify_proof_bundle_v2.  It claims, records *)
(* that trust resolution starts, looks trust up, records, looks status up, *)
(* records, and finalizes; it may end, cancelled or crashed, before any of *)
(* these.  The store's answer to any call may be lost: it panics after the *)
(* change and the evaluator sees claim_store_unavailable.  A worker is one *)
(* caller of recover_interrupted_claim_v2, which makes two store calls.    *)
(***************************************************************************)
EXTENDS ClaimStore, Authorization

CONSTANTS Evaluators,   \* calls of verify_proof_bundle_v2
          Workers,      \* recovery workers
          Inputs        \* what the stages of an evaluation may find


(* Evaluators and workers are among the arbitrary callers of the store:    *)
(* what they hand to it is among what its callers may hand to it.          *)
ASSUME EvaluationAssumption ==
  /\ Inputs \subseteq InputType
  /\ 0..MaxTimestamp \subseteq Horizons /\ Assessment \subseteq Progresses
  /\ \A c \in Claims, r \in Results, p \in Assessment :
       [proof |-> c.proof, result |-> r, progress |-> p] \in Bodies

VARIABLES eval,         \* the progress of each evaluator
          worker,       \* the progress of each worker
          handoffs      \* every handoff (CommittedV2Outcome) returned

evalVars == <<eval, worker, handoffs>>
vars == <<storeVars, evalVars>>

NoEval == [pc |-> "idle", claim |-> NoClaim, inputs |-> 0, looked |-> {}, rateDenied |-> FALSE]
NoWork == [pc |-> "idle", claim |-> NoClaim, body |-> NoBody]

HandoffOf(c, body, horizon) ==
  [id |-> c.id, body |-> body, expiresAt |-> c.expiresAt, allowHorizon |-> horizon]

(* The inputs an evaluation of c can meet: a rate stage for a rate batch,  *)
(* deferred to finalization when the store admits it there.                *)
InputsOf(c) ==
  {i \in Inputs : /\ (i.rate = "none") = (c.batch = {})
                  /\ i.rate # "none" => (i.rate = "deferred") = RateAtFinalization}

EvalInit ==
  /\ Init
  /\ eval = [e \in Evaluators |-> NoEval]
  /\ worker = [w \in Workers |-> NoWork]
  /\ handoffs = {}

-----------------------------------------------------------------------------
(* The evaluator.                                                          *)

Id(e) == eval[e].claim.id
Goto(e, pc) == eval' = [eval EXCEPT ![e].pc = pc]

(* Preflight and claim.  Only the call that creates the claim evaluates;   *)
(* a proof without delegations has no trust to resolve.                    *)
Present(e, c, i, ok, heard) ==
  /\ Claim(c, ok)
  /\ eval' = [eval EXCEPT ![e] =
       IF ClaimResult(c, ok) = "created" /\ heard
       THEN [@ EXCEPT !.claim = c, !.inputs = i,
                      !.pc = IF i.trust = "none" THEN "finalize" ELSE "trust_start"]
       ELSE [@ EXCEPT !.pc = "done"]]
  /\ UNCHANGED <<worker, handoffs>>

(* A failed progress write stops the evaluation before the next lookup.    *)
RecordThen(e, p, next, lookup, ok, heard) ==
  /\ RecordProgress(Id(e), Id(e), p, ok)
  /\ eval' = [eval EXCEPT ![e] =
       IF RecordProgressResult(Id(e), Id(e), p, ok) = "ok" /\ heard
       THEN [@ EXCEPT !.pc = next, !.looked = eval[e].looked \cup lookup]
       ELSE [@ EXCEPT !.pc = "done"]]
  /\ UNCHANGED <<worker, handoffs>>

TrustStarted == [InitialProgress EXCEPT !.trust = "unavailable"]

RecordTrustStarted(e, ok, heard) ==
  /\ eval[e].pc = "trust_start"
  /\ RecordThen(e, TrustStarted, "trust", {"trust"}, ok, heard)

(* Trust resolved and local authorization evaluated: context is recorded   *)
(* when it passed, and status as started when a status lookup follows.     *)
LocalProgress(i) ==
  LET a == Assess(i)
  IN  [trust   |-> a.trust,
       status  |-> IF AfterLocal(i) = "pending" THEN "unavailable" ELSE "not_evaluated",
       context |-> IF a.context \in {"bound", "not_required"} THEN a.context
                                                              ELSE "not_evaluated"]

RecordLocal(e, ok, heard) ==
  LET i == eval[e].inputs
      pending == AfterLocal(i) = "pending"
  IN  /\ eval[e].pc = "trust"
      /\ RecordThen(e, LocalProgress(i), IF pending THEN "status" ELSE "finalize",
                    IF pending THEN {"status"} ELSE {}, ok, heard)

(* The status stage completed; the audience and rate stages follow without *)
(* a call of the claim store.                                              *)
StatusProgress(i) == [LocalProgress(i) EXCEPT !.status = i.status]

RecordStatus(e, ok, heard) ==
  /\ eval[e].pc = "status"
  /\ RecordThen(e, StatusProgress(eval[e].inputs), "finalize", {}, ok, heard)

(* build_v2_terminal_result.                                               *)
FinalReason(e) == IF eval[e].rateDenied THEN "constraint_denied" ELSE Reason(eval[e].inputs)
FinalBody(e) == [proof |-> eval[e].claim.proof, result |-> Decision(FinalReason(e)),
                 progress |-> Assess(eval[e].inputs)]
FinalHorizon(e) ==
  IF FinalReason(e) = "authorized" THEN AllowHorizon(eval[e].inputs, MaxTimestamp) ELSE 0

(* Terminal finalization.  An exhausted rate counter turns the first       *)
(* attempt into a denial that is finalized once; any other failure, a body *)
(* that cannot be built included, leaves the claim to lease-expiry         *)
(* recovery.                                                               *)
FinalizeEvaluation(e, ok, heard) ==
  LET body == FinalBody(e)
      horizon == FinalHorizon(e)
      built == ValidDecision(FinalReason(e), body.progress)
      result == IF ~(built /\ heard) THEN "claim_store_unavailable"
                ELSE FinalizeResult(Id(e), Id(e), body.result, body, horizon, ok)
  IN  /\ eval[e].pc = "finalize"
      /\ IF built THEN Finalize(Id(e), Id(e), body.result, body, horizon, ok)
                  ELSE UNCHANGED storeVars
      /\ IF result = "rate_limit_exceeded" /\ ~eval[e].rateDenied
         THEN eval' = [eval EXCEPT ![e].rateDenied = TRUE]
         ELSE Goto(e, "done")
      /\ handoffs' = IF result \in {"committed", "unchanged"}
                     THEN handoffs \cup {HandoffOf(eval[e].claim, body, horizon)}
                     ELSE handoffs
      /\ UNCHANGED worker

(* Cancellation or a crash of the process.                                 *)
Crash(e) ==
  /\ eval[e].pc \notin {"idle", "done"}
  /\ Goto(e, "done")
  /\ UNCHANGED <<storeVars, worker, handoffs>>

-----------------------------------------------------------------------------
(* recover_interrupted_claim_v2 and resume_committed_claim_v2.             *)

(* v2_evaluation_interrupted_result.                                       *)
InterruptedBody(c, p) == [proof |-> c.proof, result |-> "interrupted", progress |-> p]

RecoverLoad(w, id) ==
  LET r == claims[id]
  IN  /\ worker[w].pc = "idle"
      /\ LoadInterruptedResult(id) = "ok"
      /\ LoadInterrupted(id)
      /\ worker' = [worker EXCEPT ![w] =
           [pc |-> "commit", claim |-> r.claim, body |-> InterruptedBody(r.claim, r.progress)]]
      /\ UNCHANGED <<eval, handoffs>>

RecoverCommit(w, ok, heard) ==
  LET c == worker[w].claim
      body == worker[w].body
      result == IF heard THEN RecoverResult(c.id, "interrupted", body, ok)
                         ELSE "claim_store_unavailable"
  IN  /\ worker[w].pc = "commit"
      /\ Recover(c.id, "interrupted", body, ok)
      /\ worker' = [worker EXCEPT ![w] = NoWork]
      /\ handoffs' = IF result \in {"committed", "unchanged"}
                     THEN handoffs \cup {HandoffOf(c, body, 0)} ELSE handoffs
      /\ UNCHANGED eval

(* The handoff of a persisted record that passes validate_v2_committed_    *)
(* claim.                                                                  *)
Resume(id) ==
  LET r == claims[id]
  IN  /\ LoadCommittedResult(id) = "ok"
      /\ r.claim.id = id /\ r.claim.key = id
      /\ PayloadBinds(r.claim, r.terminal, r.receiptBody)
      /\ HorizonMatches(r.receiptBody, r.allowHorizon)
      /\ LoadCommitted(id)
      /\ handoffs' = handoffs \cup {HandoffOf(r.claim, r.receiptBody, r.allowHorizon)}
      /\ UNCHANGED <<eval, worker>>

-----------------------------------------------------------------------------

EvaluatorStep(e, ok, heard) ==
  \/ eval[e].pc = "idle" /\ \E c \in Claims : \E i \in InputsOf(c) : Present(e, c, i, ok, heard)
  \/ RecordTrustStarted(e, ok, heard) \/ RecordLocal(e, ok, heard)
  \/ RecordStatus(e, ok, heard) \/ FinalizeEvaluation(e, ok, heard)

SystemStep ==
  \E ok, heard \in BOOLEAN :
    \/ \E e \in Evaluators : EvaluatorStep(e, ok, heard)
    \/ \E w \in Workers : RecoverCommit(w, ok, heard)

EvalNext ==
  \/ SystemStep
  \/ \E e \in Evaluators : Crash(e)
  \/ \E w \in Workers, id \in ClaimIds : RecoverLoad(w, id)
  \/ \E id \in ClaimIds : Resume(id)
  \/ \E t \in ClockSettings : SetTime(t) /\ UNCHANGED evalVars

EvalSpec == EvalInit /\ [][EvalNext]_vars

(* Recovery and resumption keep running and the clock runs forward, so the *)
(* store answers them at last; evaluators may end at any point, and any    *)
(* answer, that of a terminal commit included, may be lost.                *)
Tick == \E t \in ClockSettings : t > now /\ SetTime(t) /\ UNCHANGED evalVars

EvalLiveNext ==
  \/ \E e \in Evaluators : Crash(e)
  \/ \E heard \in BOOLEAN : \/ \E e \in Evaluators : EvaluatorStep(e, TRUE, heard)
                            \/ \E w \in Workers : RecoverCommit(w, TRUE, heard)
  \/ \E w \in Workers, id \in ClaimIds : RecoverLoad(w, id)
  \/ \E id \in ClaimIds : Resume(id)
  \/ Tick

EvalLiveSpec ==
  /\ EvalInit /\ [][EvalLiveNext]_vars
  /\ WF_vars(Tick)
  /\ \A w \in Workers : WF_vars(\E heard \in BOOLEAN : RecoverCommit(w, TRUE, heard))
  /\ \A w \in Workers, id \in ClaimIds : SF_vars(RecoverLoad(w, id))
  /\ \A id \in ClaimIds : WF_vars(Resume(id))

-----------------------------------------------------------------------------
(* Properties.                                                             *)

(* Every handoff ever returned, by the evaluator, a recovery worker or     *)
(* resumption, in any race, after any crash or lost answer, is the one     *)
(* committed result of its claim.                                          *)
HandoffsMatchStore ==
  \A h \in handoffs :
    Terminal(h.id) /\ h = HandoffOf(claims[h.id].claim, claims[h.id].receiptBody,
                                    claims[h.id].allowHorizon)

(* A committed body tells the persisted progress of its claim: whoever     *)
(* commits, no lookup is reported that was not recorded and none is        *)
(* forgotten; and a lookup that ever started, also by an evaluator that    *)
(* died in it, is never reported as not evaluated.                         *)
BodiesTellProgress ==
  /\ \A id \in ClaimIds : Terminal(id) =>
       LET b == claims[id].receiptBody.progress
           p == claims[id].progress
       IN  /\ b.trust = p.trust /\ b.status = p.status
           /\ b.context \notin {"unverified", "mismatch"} => b.context = p.context
  /\ \A e \in Evaluators : \A lookup \in eval[e].looked :
       /\ claims[Id(e)].progress[lookup] # "not_evaluated"
       /\ Terminal(Id(e)) => claims[Id(e)].receiptBody.progress[lookup] # "not_evaluated"

(* A claim is evaluated by at most one call, whatever is presented again,  *)
(* so no provider is asked twice for one challenge.                        *)
OneEvaluation ==
  \A d, e \in Evaluators :
    (d # e /\ eval[d].claim # NoClaim /\ eval[e].claim # NoClaim) => Id(d) # Id(e)

(* An allow is committed only by an evaluation in which every stage        *)
(* passed, strictly before each of the freshness bounds it rests on.       *)
AllPassed(i) ==
  /\ i.trust = "trusted" /\ i.chain = "valid" /\ i.scope = "granted"
  /\ i.context \in {"bound", "not_required"} /\ i.constraint = "passed"
  /\ i.status = "current" /\ i.audience \in {"none", "passed"}
  /\ i.rate \in {"none", "reserved", "deferred"}
AllowSound ==
  \A id \in ClaimIds : claims[id].terminal = "allow" =>
    \E e \in Evaluators :
      /\ eval[e].claim = claims[id].claim
      /\ AllPassed(eval[e].inputs)
      /\ \A b \in eval[e].inputs.bounds : claims[id].finalizedAt < b

(* Every result an evaluation can reach has a consistent receipt, so none  *)
(* is lost to recovery because its body cannot be built, and the progress  *)
(* of every claim makes an interrupted receipt, so recovery can always     *)
(* build its own: the outcomes of authorization.rs and verify.rs are       *)
(* inside the table of receipt.rs.                                         *)
EveryOutcomeHasReceipt ==
  /\ \A e \in Evaluators : eval[e].pc = "finalize" =>
       ValidDecision(FinalReason(e), FinalBody(e).progress)
  /\ \A id \in ClaimIds : ValidDecision("evaluation_interrupted", claims[id].progress)

(* No decision is lost for want of a receipt, and a receipt tells what     *)
(* became of the lookups of its claim.                                     *)
ReceiptsTellOutcome == EveryOutcomeHasReceipt /\ BodiesTellProgress

(* Every accepted claim reaches a terminal result, and every terminal      *)
(* result a handoff, although its evaluator may die at any point and its   *)
(* handoff may be lost.                                                    *)
AcceptedBecomesTerminal == \A id \in ClaimIds : Accepted(id) ~> Terminal(id)
TerminalIsHandedOff ==
  \A id \in ClaimIds : Terminal(id) ~> \E h \in handoffs : h.id = id
=============================================================================
