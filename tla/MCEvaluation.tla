---------------------------- MODULE MCEvaluation ----------------------------
(***************************************************************************)
(* Three bounded scenarios of Evaluation in one run, chosen at the start.  *)
(* The constants of the extended Evaluation name everything the scenarios  *)
(* use; each of them restricts it.                                         *)
(***************************************************************************)
EXTENDS Evaluation, TLC

CONSTANTS c1, c2, e1, e2, e3, w1, k1

VARIABLE scenario

EvalClaim(id, variant, batch) ==
  [id |-> id, key |-> id, proof |-> <<id, variant>>, issuedAt |-> 1, expiresAt |-> 3,
   maxAge |-> 2, skew |-> 0, stream |-> NoStream, seq |-> NoSeq, batch |-> batch]
Batch == {[counter |-> k1, limit |-> 1]}
EvalWindow == [k \in {k1} |-> 2]

Pass == [trust |-> "trusted", chain |-> "valid", scope |-> "granted", context |-> "bound",
         constraint |-> "passed", status |-> "current", audience |-> "none",
         rate |-> "none", bounds |-> {3}]

(* Every combination of findings of a trusted valid chain, with and        *)
(* without a rate batch, and every end before the status stage.            *)
OutcomeClaims == {EvalClaim(c1, 1, {}), EvalClaim(c1, 2, Batch)}
OutcomeInputs ==
  [trust : {"trusted"}, chain : {"valid"}, scope : {"granted", "denied"},
   context : {"bound", "not_required", "unverified", "mismatch"},
   constraint : {"passed", "constraint_denied", "constraint_unknown", "constraint_unverifiable"},
   status : {"current", "revoked", "stale", "unavailable"},
   audience : {"none", "passed", "constraint_denied", "constraint_unverifiable"},
   rate : {"none", "reserved", "exceeded", "unavailable"}, bounds : {{2, 3}}]
  \cup {[Pass EXCEPT !.trust = t] : t \in {"none", "untrusted", "unavailable"}}
  \cup {[Pass EXCEPT !.chain = "invalid"]}
OutcomesOf == INSTANCE Evaluation WITH
  Evaluators <- {e1}, Workers <- {}, Claims <- OutcomeClaims, Inputs <- OutcomeInputs,
  ClockSettings <- {1, 2}, LeaseSeconds <- 2, RateAtFinalization <- FALSE

(* Two claims that share a rate counter with room for one allow, two       *)
(* evaluators and a recovery worker.                                       *)
RaceClaims == {EvalClaim(id, 1, Batch) : id \in {c1, c2}}
RaceInputs == {[Pass EXCEPT !.rate = "deferred"],
               [Pass EXCEPT !.rate = "deferred", !.chain = "invalid"]}
Race == INSTANCE Evaluation WITH
  Evaluators <- {e1, e2}, Claims <- RaceClaims, Inputs <- RaceInputs

(* One challenge, presented with two different proofs, one of them twice.  *)
ReplayClaims == {EvalClaim(c1, 1, {}), EvalClaim(c1, 2, {})}
ReplayInputs == {Pass, [Pass EXCEPT !.context = "mismatch"],
                 [Pass EXCEPT !.trust = "unavailable"]}
Replay == INSTANCE Evaluation WITH
  Claims <- ReplayClaims, Inputs <- ReplayInputs, RateAtFinalization <- FALSE

AllClaims == OutcomeClaims \cup RaceClaims \cup ReplayClaims
AllInputs == OutcomeInputs \cup RaceInputs \cup ReplayInputs
AllBodies ==
  {[proof |-> c.proof, result |-> r, progress |-> p] :
   c \in AllClaims, r \in Results, p \in Assessment}

-----------------------------------------------------------------------------
MCInit == scenario \in {"outcomes", "race", "replay"} /\ EvalInit
MCNext == /\ UNCHANGED scenario
          /\ \/ scenario = "outcomes" /\ OutcomesOf!EvalNext
             \/ scenario = "race" /\ Race!EvalNext
             \/ scenario = "replay" /\ Replay!EvalNext
MCSpec == MCInit /\ [][MCNext]_<<scenario, vars>>

(* No scenario tells the evaluators apart, and race not the claims; the    *)
(* others use one claim ID.                                                *)
Symmetry == Permutations({e1, e2, e3}) \cup Permutations({c1, c2})
=============================================================================
