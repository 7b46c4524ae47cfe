------------------------ MODULE ConstraintEvaluation ------------------------
(***************************************************************************)
(* The local evaluation of the constraints of a chain                      *)
(* (sdks/rust/src/v2/authorization.rs), with the extension evaluators that *)
(* run on worker threads or on the calling thread under a timeout          *)
(* (evaluator.rs), and the batch of rate counters (rate_reservation.rs).   *)
(*                                                                         *)
(* A chain is the sequence of its constraints in order, each with the      *)
(* issuer and the certificate that carry it.  Claim time is seconds;       *)
(* elapsed is the monotonic time since the evaluator that is waited for    *)
(* was called.                                                             *)
(***************************************************************************)
EXTENDS Integers, Sequences, FiniteSets

Paths == INSTANCE ConstraintsV1

CONSTANTS
  Chains,         \* chains a proof may carry
  Contexts,       \* request contexts a caller may supply
  Registries,     \* sequences of registered extension types
  Timeouts,       \* evaluation timeouts a caller may configure
  Modes,          \* of {"worker", "calling"}
  Results,        \* what an evaluator may return
  TzdbVersions,   \* configured time-zone releases; "pinned" is the embedded one
  ClaimTime, MaxTimestamp, MaxSafe,
  MaxTimeout, MaxEvaluators, MaxEntries, MaxElapsed

ASSUME BoundsAssumption ==
  /\ MaxTimeout < MaxElapsed
  /\ {ClaimTime, MaxTimestamp, MaxSafe, MaxTimeout, MaxEvaluators, MaxEntries, MaxElapsed} \subseteq Nat
  /\ 0 < ClaimTime /\ ClaimTime < MaxTimestamp
  /\ Modes \subseteq {"worker", "calling"}

(* Constraints come in order, a rate limit is a count, and the timeouts    *)
(* and the horizons of evaluators are numbers.                             *)
ASSUME InputAssumption ==
  /\ \A c \in Chains : /\ Len(c) \in Nat /\ DOMAIN c = 1..Len(c)
                       /\ \A i \in DOMAIN c : c[i].kind = "max_rate" => c[i].count \in Nat
  /\ Timeouts \subseteq Nat

Registered == {"time_window", "max_amount", "max_rate", "resource_path", "receiver_audience"}
Deferred == {"max_rate", "receiver_audience"}

-----------------------------------------------------------------------------
(* What is checked before the claim.                                       *)

(* ConstraintEvaluatorRegistryV2::new.                                     *)
ValidRegistry(types, timeout) ==
  /\ timeout \in 1..MaxTimeout
  /\ Len(types) <= MaxEvaluators
  /\ \A i \in DOMAIN types : types[i] \notin Registered
  /\ \A i, j \in DOMAIN types : i # j => types[i] # types[j]

(* validate_v2_request_context and validate_v2_extension_context.          *)
ValidContext(ctx) ==
  /\ IF ctx.hasAmount THEN ctx.amount \in 0..MaxSafe /\ ctx.currency # "none"
     ELSE ctx.amount = 0 /\ ctx.currency = "none"
  /\ ctx.hasResource \/ (ctx.resource = "none" /\ ctx.path = Paths!NoPath)
  /\ Cardinality(DOMAIN ctx.counts) <= MaxEntries
  /\ Cardinality(DOMAIN ctx.values) <= MaxEntries
  /\ \A n \in DOMAIN ctx.counts : ctx.counts[n] \in 0..MaxSafe

-----------------------------------------------------------------------------
(* evaluate_constraint_v2: "ok" or the failure of one registered           *)
(* constraint that is decided locally.                                     *)

ResourcePath(c, ctx) ==
  IF c.prefix # Paths!NoPath /\ ~Paths!ValidPath(c.prefix) THEN "constraint_denied"
  ELSE IF ~ctx.hasResource \/ ctx.resource = "none" THEN "constraint_unverifiable"
  ELSE IF ctx.resource # c.resource THEN "constraint_denied"
  ELSE IF c.prefix = Paths!NoPath THEN "ok"
  ELSE IF ctx.path = Paths!NoPath THEN "constraint_unverifiable"
  ELSE IF ~Paths!ValidPath(ctx.path) \/ ~Paths!PathMatches(c.prefix, ctx.path) THEN "constraint_denied"
  ELSE "ok"

(* inside is the verdict of CivilTime!Inside at the claim time.            *)
TimeWindow(c, tzdb) ==
  IF tzdb # "pinned" \/ ~c.zoneKnown THEN "constraint_unverifiable"
  ELSE IF c.inside THEN "ok" ELSE "constraint_denied"

MaxAmount(c, ctx) ==
  IF ~ctx.hasAmount THEN "constraint_unverifiable"
  ELSE IF ctx.amount \notin 0..MaxSafe \/ ctx.currency = "none" THEN "constraint_unverifiable"
  ELSE IF ctx.currency # c.currency \/ ctx.amount > c.max THEN "constraint_denied"
  ELSE "ok"

EvaluateConstraint(c, ctx, tzdb) ==
  IF c.kind = "resource_path" THEN ResourcePath(c, ctx)
  ELSE IF c.kind = "time_window" THEN TimeWindow(c, tzdb)
  ELSE IF c.kind = "max_amount" THEN MaxAmount(c, ctx)
  ELSE IF c.kind \in Deferred THEN "constraint_unverifiable"
  ELSE "constraint_unknown"

-----------------------------------------------------------------------------
(* Extension evaluators.                                                   *)

Result(outcome, until) == [outcome |-> outcome, until |-> until]

(* The standard profiles; params are wellFormed when they decode with      *)
(* exactly the named members.                                              *)
MaxCount(c, ctx) ==
  IF ~c.wellFormed THEN Result("denied", 0)
  ELSE IF c.counter \notin DOMAIN ctx.counts THEN Result("unverifiable", 0)
  ELSE IF ctx.counts[c.counter] > c.max THEN Result("denied", 0)
  ELSE Result("pass", 0)

AllowedValues(c, ctx) ==
  IF ~c.wellFormed THEN Result("denied", 0)
  ELSE IF c.field \notin DOMAIN ctx.values THEN Result("unverifiable", 0)
  ELSE IF ctx.values[c.field] \notin c.allowed THEN Result("denied", 0)
  ELSE Result("pass", 0)

(* What the evaluator of a type may answer: a standard profile computes    *)
(* its answer, any other may return anything, fail or panic.               *)
Answers(c, ctx) ==
  IF c.kind = "max_count" THEN {MaxCount(c, ctx)}
  ELSE IF c.kind = "allowed_values" THEN {AllowedValues(c, ctx)}
  ELSE Results \cup {Result("panic", 0), Result("error", 0)}

(* map_evaluator_result, and the failures run_constraint_evaluator_v2      *)
(* maps itself.                                                            *)
MapResult(r) ==
  IF r.outcome = "pass" /\ r.until = 0 THEN [verdict |-> "ok", horizon |-> 0]
  ELSE IF r.outcome = "pass" /\ r.until > ClaimTime
  THEN [verdict |-> "ok", horizon |-> IF r.until < MaxTimestamp THEN r.until ELSE MaxTimestamp]
  ELSE IF r.outcome = "denied" /\ r.until = 0 THEN [verdict |-> "constraint_denied", horizon |-> 0]
  ELSE [verdict |-> "constraint_unverifiable", horizon |-> 0]

-----------------------------------------------------------------------------
VARIABLES
  config,      \* the inputs: chain, ctx, types, timeout, mode, tzdb
  phase,       \* "refused", "next", "waiting", "answered" or "done"
  pos,         \* the constraint that is looked at
  verdicts,    \* the verdicts so far, "deferred" for the deferred ones
  horizon,     \* the earliest pass horizon, 0 for none
  elapsed,     \* monotonic time since the evaluator was called
  threads,     \* the evaluator threads, by position: what they will answer
  channel,     \* the answers that were sent, by position, with their time
  received,    \* the answer the verifier took, or None
  basis,       \* what each verdict rests on: the position and time of an answer
  counters     \* the rate counters, once the batch is built
vars == <<config, phase, pos, verdicts, horizon, elapsed, threads, channel, received, basis, counters>>

None == [outcome |-> "none", until |-> 0]
NoBasis == [from |-> 0, sent |-> 0]
Item == config.chain[pos]
Sealed == {config.types[i] : i \in DOMAIN config.types}

Init ==
  /\ config \in [chain : Chains, ctx : Contexts, types : Registries, timeout : Timeouts, mode : Modes, tzdb : TzdbVersions]
  /\ phase = IF ValidRegistry(config.types, config.timeout) /\ ValidContext(config.ctx) THEN "next" ELSE "refused"
  /\ pos = 1 /\ verdicts = <<>> /\ horizon = 0 /\ elapsed = 0
  /\ threads = <<>> /\ channel = <<>> /\ received = None /\ basis = <<>> /\ counters = {}

(* Record the verdict of the constraint at pos and go on to the next.      *)
Settle(verdict, until, b) ==
  /\ verdicts' = Append(verdicts, verdict)
  /\ horizon' = IF until # 0 /\ (horizon = 0 \/ until < horizon) THEN until ELSE horizon
  /\ basis' = Append(basis, b)
  /\ pos' = pos + 1
  /\ phase' = "next"

(* A registered constraint, or a type without a sealed evaluator.          *)
EvaluateLocally ==
  /\ phase = "next" /\ pos <= Len(config.chain)
  /\ Item.kind \in Registered \/ Item.kind \notin Sealed
  /\ Settle(IF Item.kind \in Deferred THEN "deferred" ELSE EvaluateConstraint(Item, config.ctx, config.tzdb), 0, NoBasis)
  /\ UNCHANGED <<config, elapsed, threads, channel, received, counters>>

IsExtension == phase = "next" /\ pos <= Len(config.chain) /\ Item.kind \notin Registered /\ Item.kind \in Sealed

(* The evaluator is called: on a new thread, or on the calling one.        *)
StartEvaluator ==
  /\ IsExtension
  /\ phase' = "waiting"
  /\ elapsed' = 0
  /\ threads' = [p \in DOMAIN threads \cup {pos} |-> IF p = pos THEN Answers(Item, config.ctx) ELSE threads[p]]
  /\ UNCHANGED <<config, pos, verdicts, horizon, channel, received, basis, counters>>

(* The worker thread cannot be spawned.                                    *)
NotStarted ==
  /\ IsExtension /\ config.mode = "worker"
  /\ Settle("constraint_unverifiable", 0, NoBasis)
  /\ UNCHANGED <<config, elapsed, threads, channel, received, counters>>

(* An evaluator returns, in time or late, also after its caller went on.   *)
Answer(p) ==
  /\ p \in DOMAIN threads
  /\ \E r \in threads[p] :
       LET answer == [result |-> r, sent |-> IF p = pos THEN elapsed ELSE MaxElapsed]
       IN  channel' = [q \in DOMAIN channel \cup {p} |-> IF q = p THEN answer ELSE channel[q]]
  /\ threads' = [q \in DOMAIN threads \ {p} |-> threads[q]]
  /\ UNCHANGED <<config, phase, pos, verdicts, horizon, elapsed, received, basis, counters>>

(* Faulty variant: all evaluations answer on one channel.                  *)
ReceivableShared == DOMAIN channel
(* The channel of a call is its own, and is dropped with the call.         *)
Receivable == DOMAIN channel \cap {pos}

(* evaluate_on_worker: recv_timeout returns an answer or, at the deadline, *)
(* nothing.  On the calling thread the evaluator's return is awaited.      *)
Receive ==
  /\ phase = "waiting"
  /\ \/ \E p \in Receivable :
          received' = channel[p].result /\ basis' = Append(basis, [from |-> p, sent |-> channel[p].sent])
     \/ /\ config.mode = "worker" /\ elapsed >= config.timeout
        /\ received' = Result("timeout", 0) /\ basis' = Append(basis, NoBasis)
  /\ phase' = "answered"
  /\ UNCHANGED <<config, pos, verdicts, horizon, elapsed, threads, channel, counters>>

(* The deadline is looked at again once there is an answer.                *)
Outcome == IF elapsed >= config.timeout THEN MapResult(Result("timeout", 0)) ELSE MapResult(received)

Resume ==
  /\ phase = "answered"
  /\ LET o == Outcome
     IN  /\ verdicts' = Append(verdicts, o.verdict)
         /\ horizon' = IF o.horizon # 0 /\ (horizon = 0 \/ o.horizon < horizon) THEN o.horizon ELSE horizon
         /\ basis' = IF elapsed >= config.timeout THEN [basis EXCEPT ![pos] = NoBasis] ELSE basis
  /\ received' = None /\ pos' = pos + 1 /\ phase' = "next"
  /\ UNCHANGED <<config, elapsed, threads, channel, counters>>

(* build_v2_rate_reservation_batch: one counter per issuer, certificate    *)
(* and window, with the smallest limit.                                    *)
RateBatch(chain) ==
  LET rates == {i \in DOMAIN chain : chain[i].kind = "max_rate"}
      Key(i) == <<chain[i].issuer, chain[i].cert, chain[i].window>>
  IN  {[issuer |-> chain[i].issuer, cert |-> chain[i].cert, window |-> chain[i].window, limit |-> chain[i].count] :
         i \in {i \in rates : \A j \in rates : Key(j) = Key(i) => chain[i].count <= chain[j].count}}

Finish ==
  /\ phase = "next" /\ pos > Len(config.chain)
  /\ phase' = "done"
  /\ counters' = RateBatch(config.chain)
  /\ UNCHANGED <<config, pos, verdicts, horizon, elapsed, threads, channel, received, basis>>

Tick ==
  /\ elapsed < MaxElapsed /\ phase \in {"waiting", "answered"}
  /\ elapsed' = elapsed + 1
  /\ UNCHANGED <<config, phase, pos, verdicts, horizon, threads, channel, received, basis, counters>>

Verifier == EvaluateLocally \/ StartEvaluator \/ NotStarted \/ Receive \/ Resume \/ Finish
Next == Verifier \/ (\E p \in DOMAIN threads : Answer(p)) \/ Tick
Spec == Init /\ [][Next]_vars

-----------------------------------------------------------------------------
Precedence(v) == IF v = "constraint_denied" THEN 3 ELSE IF v = "constraint_unknown" THEN 2
                 ELSE IF v = "constraint_unverifiable" THEN 1 ELSE 0

(* evaluate_v2_local_constraints: the status of the failures found.        *)
ConstraintStatus(vs) ==
  LET failed == {i \in DOMAIN vs : vs[i] \notin {"ok", "deferred"}}
  IN  IF failed = {} THEN "passed"
      ELSE vs[CHOOSE i \in failed : \A j \in failed : Precedence(vs[j]) <= Precedence(vs[i])]

(* Types.                                                                  *)
TypeOK ==
  /\ phase \in {"refused", "next", "waiting", "answered", "done"}
  /\ pos \in 1..(Len(config.chain) + 1)
  /\ Len(verdicts) = pos - 1
  /\ \A i \in DOMAIN verdicts : verdicts[i] \in {"ok", "deferred", "constraint_denied", "constraint_unknown", "constraint_unverifiable"}
  /\ horizon = 0 \/ horizon \in (ClaimTime + 1)..MaxTimestamp
  /\ DOMAIN threads \cup DOMAIN channel \subseteq DOMAIN config.chain

(* A verdict that rests on an answer rests on the answer to its own call,  *)
(* sent before that call's deadline: an evaluator that is late, or that    *)
(* still runs while later constraints are evaluated, decides nothing       *)
(* (run_constraint_evaluator_v2, evaluate_on_worker).                      *)
OwnAnswerInTime ==
  \A i \in DOMAIN verdicts :
    /\ basis[i] # NoBasis => basis[i].from = i /\ basis[i].sent < config.timeout
    /\ basis[i] = NoBasis /\ config.chain[i].kind \notin Registered /\ config.chain[i].kind \in Sealed
         => verdicts[i] = "constraint_unverifiable"

(* Where the evaluators run does not change the result: a verdict with an  *)
(* answer is the mapping of that answer, in either mode, and it does not   *)
(* pass or deny on an answer that is neither.                              *)
ModesAgree ==
  \A i \in DOMAIN verdicts :
    basis[i] # NoBasis =>
      /\ verdicts[i] = MapResult(channel[i].result).verdict
      /\ verdicts[i] = "ok" => channel[i].result.outcome = "pass" /\ (horizon # 0 => horizon > ClaimTime)
      /\ verdicts[i] = "constraint_denied" => channel[i].result.outcome = "denied"

(* A finished evaluation reports a proven violation before an unknown type *)
(* and both before what could not be verified, and passes only if nothing  *)
(* failed; no constraint of the chain is left without a verdict.           *)
StatusByPrecedence ==
  phase = "done" =>
    LET s == ConstraintStatus(verdicts)
    IN  /\ Len(verdicts) = Len(config.chain)
        /\ (\E i \in DOMAIN verdicts : verdicts[i] = "constraint_denied") => s = "constraint_denied"
        /\ s = "passed" <=> \A i \in DOMAIN verdicts : verdicts[i] \in {"ok", "deferred"}
        /\ s = "constraint_unverifiable" => \A i \in DOMAIN verdicts : verdicts[i] # "constraint_unknown"

(* The batch has one counter for every window a certificate limits, and    *)
(* admission under the batch is admission under every signed limit.        *)
BatchStrictest ==
  phase = "done" =>
    /\ \A i \in DOMAIN config.chain :
         LET c == config.chain[i]
             mine == {k \in counters : k.issuer = c.issuer /\ k.cert = c.cert /\ k.window = c.window}
         IN  c.kind = "max_rate" => Cardinality(mine) = 1 /\ \A k \in mine : k.limit <= c.count
    /\ \A k \in counters : \E i \in DOMAIN config.chain : config.chain[i].kind = "max_rate" /\ config.chain[i].count = k.limit

(* A verdict rests on the answer to its own call in time, wherever the     *)
(* evaluator runs; the chain's status is the gravest verdict and its rate  *)
(* batch the strictest limits.                                             *)
VerdictsSound == OwnAnswerInTime /\ ModesAgree /\ StatusByPrecedence /\ BatchStrictest
=============================================================================
