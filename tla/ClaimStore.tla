----------------------------- MODULE ClaimStore -----------------------------
(***************************************************************************)
(* The reference Part B store of Protocol v2                               *)
(* (sdks/rust/src/v2/reference/store.rs): challenge claims with stream     *)
(* sequence and evaluation progress, the authoritative clock, the receipt  *)
(* outbox and its publisher, the independent checkpoint, release records   *)
(* and rate admission at finalization.                                     *)
(*                                                                         *)
(* Every method runs under one mutex, so every method is one action here.  *)
(* A method M is written as two operators: MResult, the value it returns,  *)
(* in the order of the code's early returns, and M, its effect on the      *)
(* state.  Callers that go on after the call (modules Evaluation and       *)
(* Release) use both.  In this module the callers are arbitrary: any       *)
(* method may be called at any time with any argument.                     *)
(***************************************************************************)
EXTENDS Integers, Sequences, FiniteSets

CONSTANTS
  ClaimIds,           \* claim IDs; also the replay keys they are derived from
  Claims,             \* the V2ChallengeClaim values that callers may present
  NoClaim,            \* "no claim": the map has no record for the ID
  Streams,            \* (namespace, agent, stream ID) keys
  NoStream,           \* a claim without stream fields
  Counters,           \* (issuer, certificate, window) rate counters
  Window,             \* the window, in seconds, of each counter
  Progresses,         \* the V2EvaluationProgress values callers may write
  Bodies,             \* the receipt bodies callers may present
  NoBody,             \* no receipt body yet
  Horizons,           \* allow horizons callers may present
  ClockSettings,      \* values the wall clock may be set to, in any order
  InitialTime,        \* the clock when the store is created
  LeaseSeconds,       \* evaluator lease
  MaxTimestamp,       \* V2_MAX_TIMESTAMP_SECONDS
  MaxSafe,            \* MAX_SAFE, the greatest stream sequence
  RateAtFinalization, \* with_rate_at_finalization was called
  Anchored            \* an anchor is configured and may refuse a change

VARIABLES
  now,              \* the clock setting
  highWater,        \* the greatest authoritative reading returned
  claims,           \* claim ID -> ClaimRecord
  streams,          \* stream -> last accepted sequence, 0 for none
  outbox,           \* receipt-log positions, assigned at terminal commit
  ackWithheld,      \* submission to the checkpoint is stopped
  logFrozen,        \* the log was abandoned
  checkpointFrozen, \* the checkpoint saw a fork
  signerFailure,    \* the receipt signer fails
  rateCommits       \* counter -> commit times

clockVars == <<now, highWater>>
switches  == <<ackWithheld, logFrozen, checkpointFrozen, signerFailure>>
storeVars == <<clockVars, claims, streams, outbox, switches, rateCommits>>

-----------------------------------------------------------------------------
(* Values.                                                                 *)

NoSeq == -1     \* stream_seq is None
NoAck == -1     \* an entry without an acknowledgement
Genesis == 0    \* the 48 zero bytes that precede entry 1

(* The decision and reason of a body: an allow, a deny, an indeterminate   *)
(* with a reason of its own, or indeterminate/evaluation_interrupted.      *)
Results == {"allow", "deny", "indeterminate", "interrupted"}

(* The assessments of a body, and of the progress an evaluator persists.   *)
(* A body may also say that the context check failed (unverified, which    *)
(* also stands for unbound, or mismatch); progress never does.             *)
Assessment == [trust   : {"not_evaluated", "unavailable", "trusted", "untrusted"},
               status  : {"not_evaluated", "unavailable", "current", "revoked", "stale"},
               context : {"not_evaluated", "bound", "not_required",
                          "unverified", "mismatch"}]

InitialProgress == [trust   |-> "not_evaluated",
                    status  |-> "not_evaluated",
                    context |-> "not_evaluated"]

ValidProgress(p) ==
  /\ p.context \notin {"unverified", "mismatch"}
  /\ p.trust # "trusted" => p.status = "not_evaluated" /\ p.context = "not_evaluated"

(* A bundle hash covers the challenge it answers and everything else that  *)
(* was signed.                                                             *)
ProofType == ClaimIds \X Nat

(* A claim seals the replay key it was made for, the bundle hash, the      *)
(* freshness bounds, the optional stream position and the rate batch, one  *)
(* limit for each counter in it.  Its ID is checked against the key.       *)
ClaimType == [id : ClaimIds, key : ClaimIds, proof : ProofType,
              issuedAt : Int, expiresAt : Int, maxAge : Int, skew : Int,
              stream : Streams \cup {NoStream}, seq : Nat \cup {NoSeq},
              batch : SUBSET [counter : Counters, limit : Nat \ {0}]]

(* A receipt body binds the bundle of one claim and carries the result and *)
(* the assessments.                                                        *)
BodyType == [proof : ProofType, result : Results, progress : Assessment]

Outcomes == {"released", "withheld"}
WithheldReasons == {"clock_regressed", "challenge_expired", "allow_horizon_passed"}
NoRelease == [entryHash |-> 0, ackTimestamp |-> 0, outcome |-> "none", reason |-> "none"]
ReleaseType == [entryHash : Int, ackTimestamp : Int,
                outcome : Outcomes \cup {"none", "pending", "rejected"},
                reason : WithheldReasons \cup {"none"}]

ValidReleaseOutcome(r) ==
  \/ r.outcome = "released" /\ r.reason = "none"
  \/ r.outcome = "withheld" /\ r.reason \in WithheldReasons

ClaimRecord ==
  [claim : Claims \cup {NoClaim}, owner : ClaimIds, leaseExpiresAt : Int,
   state : {"absent", "evaluating", "terminal"},
   terminal : Results \cup {"none"}, receiptBody : Bodies \cup {NoBody},
   allowHorizon : 0..MaxTimestamp, claimedAt : 0..MaxTimestamp,
   finalizedAt : 0..MaxTimestamp,
   release : ReleaseType, progress : Assessment, abandoned : BOOLEAN,
   outboxIndex : Nat]

(* The digest of a signed entry covers its body and its predecessor, so    *)
(* the entry at position i of the log has the one digest i; any other      *)
(* value stands for the hash of a receipt that is not in this log.         *)
Entry == [claimId : ClaimIds, body : Bodies, published : BOOLEAN,
          digest : Nat, ack : 0..MaxTimestamp \cup {NoAck}]

ASSUME StoreAssumption ==
  /\ Claims \subseteq ClaimType /\ NoClaim \notin Claims
  /\ Bodies \subseteq BodyType /\ NoBody \notin Bodies
  /\ Progresses \subseteq Assessment
  /\ NoStream \notin Streams
  /\ Window \in [Counters -> Nat \ {0}]
  /\ Horizons \subseteq Int /\ ClockSettings \subseteq Int
  /\ InitialTime \in Int
  /\ LeaseSeconds \in Nat \ {0} /\ MaxTimestamp \in Nat /\ MaxSafe \in Nat \ {0}
  /\ RateAtFinalization \in BOOLEAN /\ Anchored \in BOOLEAN
  /\ \A c \in Claims : /\ c.proof[1] = c.key
                        /\ \A a, b \in c.batch : a.counter = b.counter => a = b

(* The record of a claim ID the map does not hold.                         *)
Absent(id) ==
  [claim |-> NoClaim, owner |-> id, leaseExpiresAt |-> 0, state |-> "absent",
   terminal |-> "none", receiptBody |-> NoBody, allowHorizon |-> 0,
   claimedAt |-> 0, finalizedAt |-> 0, release |-> NoRelease,
   progress |-> InitialProgress, abandoned |-> FALSE, outboxIndex |-> 0]

(* change_locked: with an anchor, a durable change may be refused, which   *)
(* undoes it.  ok is TRUE when the change is anchored.                     *)
Anchoring == IF Anchored THEN BOOLEAN ELSE {TRUE}

-----------------------------------------------------------------------------
(* Init: Store::new.                                                       *)

Init ==
  /\ now = InitialTime /\ highWater = InitialTime
  /\ claims = [id \in ClaimIds |-> Absent(id)]
  /\ streams = [s \in Streams |-> 0]
  /\ outbox = <<>>
  /\ ackWithheld = FALSE /\ logFrozen = FALSE
  /\ checkpointFrozen = FALSE /\ signerFailure = FALSE
  /\ rateCommits = [k \in Counters |-> <<>>]

-----------------------------------------------------------------------------
(* The authoritative clock.                                                *)

ClockReadingNoHighWater ==
  IF now \notin 0..MaxTimestamp THEN "claim_store_unavailable" ELSE "ok"

ClockReading ==
  IF now < highWater THEN "clock_regressed"
  ELSE IF now \notin 0..MaxTimestamp THEN "claim_store_unavailable"
  ELSE "ok"

ClockOk == ClockReading = "ok"

(* A successful reading advances the high-water mark.                      *)
HighWaterAfterRead == IF ClockOk THEN now ELSE highWater
ReadClockIf(reads) == highWater' = IF reads THEN HighWaterAfterRead ELSE highWater

SetTime(t) ==
  /\ now' = t
  /\ UNCHANGED <<highWater, claims, streams, outbox, switches, rateCommits>>

AuthoritativeTime ==
  /\ ReadClockIf(TRUE)
  /\ UNCHANGED <<now, claims, streams, outbox, switches, rateCommits>>

(* Exclusive challenge deadlines; the sum cannot leave 64 bits.            *)
ChallengeTimeCurrent(c, t) ==
  /\ {t, c.issuedAt, c.expiresAt, c.maxAge} \subseteq 0..MaxTimestamp
  /\ c.issuedAt - t <= c.skew \/ c.issuedAt <= t
  /\ t < c.expiresAt
  /\ t < c.issuedAt + c.maxAge

-----------------------------------------------------------------------------
(* claim_v2.                                                               *)

(* Faulty variant: any later sequence is accepted.                         *)
StreamSequenceResultAnyLater(last, seq) ==
  IF seq \notin 1..MaxSafe \/ last \notin 0..MaxSafe THEN "malformed"
  ELSE IF seq > last THEN "ok" ELSE "stream_sequence_mismatch"

(* check_v2_stream_sequence; last = 0 says the stream has no state.        *)
StreamSequenceResult(last, seq) ==
  IF seq \notin 1..MaxSafe \/ last \notin 0..MaxSafe THEN "malformed"
  ELSE IF last = MaxSafe THEN "stream_sequence_mismatch"
  ELSE IF seq = last + 1 THEN "ok" ELSE "stream_sequence_mismatch"

HasStream(c) == c.stream # NoStream \/ c.seq # NoSeq

StreamResult(c) ==
  IF ~HasStream(c) THEN "ok"
  ELSE IF c.stream = NoStream \/ c.seq = NoSeq THEN "malformed"
  ELSE StreamSequenceResult(streams[c.stream], c.seq)

(* Faulty variant: an exact retry takes over a claim with an expired lease. *)
ClaimResultTakeOver(c, ok) ==
  LET existing == claims[c.id]
  IN  IF c.id # c.key THEN "configuration_invalid"
      ELSE IF ~ClockOk THEN "claim_store_unavailable"
      ELSE IF existing.state # "absent" /\ existing.claim # c THEN "claim_proof_conflict"
      ELSE IF existing.state = "terminal" THEN "terminal_replay"
      ELSE IF existing.state = "evaluating" /\ now < existing.leaseExpiresAt THEN "in_progress"
      ELSE IF ~ChallengeTimeCurrent(c, now) THEN "challenge_not_fresh"
      ELSE IF ok THEN "created" ELSE "claim_store_unavailable"

(* ok is FALSE when the owner token cannot be drawn or the change is not   *)
(* anchored.                                                               *)
ClaimResult(c, ok) ==
  LET existing == claims[c.id]
  IN  IF c.id # c.key THEN "configuration_invalid"
      ELSE IF ~ClockOk THEN "claim_store_unavailable"
      ELSE IF existing.state # "absent"
        THEN IF existing.claim # c THEN "claim_proof_conflict"
             ELSE IF existing.abandoned THEN "receipt_abandoned"
             ELSE IF existing.state = "terminal" THEN "terminal_replay"
             ELSE "in_progress"
      ELSE IF ~ChallengeTimeCurrent(c, now) THEN "challenge_not_fresh"
      ELSE IF StreamResult(c) # "ok" THEN StreamResult(c)
      ELSE IF ~ok THEN "claim_store_unavailable"
      ELSE "created"

(* The owner token is 32 fresh random bytes: no two claims share one, so   *)
(* it is named by the claim it was drawn for.                              *)
NewRecord(c) ==
  [Absent(c.id) EXCEPT !.claim = c, !.leaseExpiresAt = now + LeaseSeconds,
                       !.state = "evaluating", !.claimedAt = now]

Claim(c, ok) ==
  /\ ReadClockIf(c.id = c.key)
  /\ IF ClaimResult(c, ok) = "created"
     THEN /\ claims' = [claims EXCEPT ![c.id] = NewRecord(c)]
          /\ streams' = IF HasStream(c) THEN [streams EXCEPT ![c.stream] = c.seq]
                                        ELSE streams
     ELSE UNCHANGED <<claims, streams>>
  /\ UNCHANGED <<now, outbox, switches, rateCommits>>

-----------------------------------------------------------------------------
(* The evaluator: progress and finalization under its owner token.         *)

(* Faulty variant: the lease is still live at its expiry.                  *)
OwnerResultInclusiveLease(id, token) ==
  LET r == claims[id]
  IN  IF r.state = "absent" THEN "claim_not_found"
      ELSE IF token # r.owner THEN "claim_lease_lost"
      ELSE IF r.state = "terminal" THEN "claim_already_terminal"
      ELSE IF ~ClockOk THEN ClockReading
      ELSE IF now > r.leaseExpiresAt THEN "claim_lease_lost"
      ELSE "ok"

(* owner_locked: the capability of a live, evaluating claim.               *)
OwnerResult(id, token) ==
  LET r == claims[id]
  IN  IF r.state = "absent" THEN "claim_not_found"
      ELSE IF token # r.owner THEN "claim_lease_lost"
      ELSE IF r.state = "terminal" THEN "claim_already_terminal"
      ELSE IF ~ClockOk THEN ClockReading
      ELSE IF now < r.claimedAt THEN "clock_regressed"
      ELSE IF now >= r.leaseExpiresAt THEN "claim_lease_lost"
      ELSE "ok"

OwnerReadsClock(id, token) == claims[id].state = "evaluating" /\ token = claims[id].owner

(* validate_v2_finalization_payload: the body binds the sealed claim and   *)
(* the terminal result is exactly the decision and reason of the body.     *)
PayloadBinds(c, terminal, body) == body.proof = c.proof /\ terminal = body.result

HorizonMatches(body, horizon) ==
  IF body.result = "allow" THEN horizon \in 1..MaxTimestamp ELSE horizon = 0

(* Faulty variant: a commit leaves its window one second early.            *)
ActiveCommitsShort(k, t) ==
  {i \in DOMAIN rateCommits[k] : rateCommits[k][i] > t - Window[k] + 1}

ActiveCommits(k, t) == {i \in DOMAIN rateCommits[k] : rateCommits[k][i] > t - Window[k]}

RateExhausted(c, t) ==
  \E item \in c.batch : Cardinality(ActiveCommits(item.counter, t)) >= item.limit

AdmitsRate(horizon) == horizon > 0 /\ RateAtFinalization

FinalizeResult(id, token, terminal, body, horizon, ok) ==
  LET r == claims[id]
  IN  IF OwnerResult(id, token) # "ok"
        THEN IF /\ OwnerResult(id, token) = "claim_already_terminal"
                /\ r.terminal = terminal /\ r.receiptBody = body
             THEN "unchanged" ELSE OwnerResult(id, token)
      ELSE IF ~PayloadBinds(r.claim, terminal, body) THEN "configuration_invalid"
      ELSE IF ~HorizonMatches(body, horizon) THEN "configuration_invalid"
      ELSE IF horizon > 0 /\ (now >= horizon \/ now >= r.claim.expiresAt)
        THEN "allow_horizon_passed"
      ELSE IF AdmitsRate(horizon) /\ RateExhausted(r.claim, now)
        THEN "rate_limit_exceeded"
      ELSE IF ~ok THEN "claim_store_unavailable"
      ELSE "committed"

(* commit_terminal_locked: the terminal result and its log position.       *)
CommitTerminal(id, terminal, body, horizon) ==
  /\ claims' = [claims EXCEPT ![id] =
       [@ EXCEPT !.state = "terminal", !.terminal = terminal,
                 !.receiptBody = body, !.allowHorizon = horizon,
                 !.finalizedAt = now, !.outboxIndex = Len(outbox) + 1]]
  /\ outbox' = Append(outbox, [claimId |-> id, body |-> body,
                               published |-> FALSE, digest |-> 0, ack |-> NoAck])

Finalize(id, token, terminal, body, horizon, ok) ==
  /\ ReadClockIf(OwnerReadsClock(id, token))
  /\ IF FinalizeResult(id, token, terminal, body, horizon, ok) = "committed"
     THEN /\ CommitTerminal(id, terminal, body, horizon)
          /\ rateCommits' =
               [k \in Counters |->
                  IF /\ AdmitsRate(horizon)
                     /\ \E item \in claims[id].claim.batch : item.counter = k
                  THEN Append(rateCommits[k], now) ELSE rateCommits[k]]
     ELSE UNCHANGED <<claims, outbox, rateCommits>>
  /\ UNCHANGED <<now, streams, switches>>

RecordProgressResult(id, token, p, ok) ==
  IF OwnerResult(id, token) # "ok" THEN OwnerResult(id, token)
  ELSE IF ~ValidProgress(p) THEN "malformed"
  ELSE IF ~ok THEN "claim_store_unavailable"
  ELSE "ok"

RecordProgress(id, token, p, ok) ==
  /\ ReadClockIf(OwnerReadsClock(id, token))
  /\ claims' = IF RecordProgressResult(id, token, p, ok) = "ok"
               THEN [claims EXCEPT ![id].progress = p] ELSE claims
  /\ UNCHANGED <<now, streams, outbox, switches, rateCommits>>

-----------------------------------------------------------------------------
(* Lease-expiry recovery and resumption.                                   *)

(* Faulty variant: the lease is still live at its expiry.                  *)
LoadInterruptedResultLate(id) ==
  IF claims[id].state = "absent" THEN "claim_not_found"
  ELSE IF ~ClockOk THEN ClockReading
  ELSE IF claims[id].state = "evaluating" /\ now <= claims[id].leaseExpiresAt
    THEN "claim_lease_live"
  ELSE "ok"

LoadInterruptedResult(id) ==
  IF claims[id].state = "absent" THEN "claim_not_found"
  ELSE IF ~ClockOk THEN ClockReading
  ELSE IF claims[id].state = "evaluating" /\ now < claims[id].leaseExpiresAt
    THEN "claim_lease_live"
  ELSE "ok"

LoadInterrupted(id) ==
  /\ ReadClockIf(claims[id].state # "absent")
  /\ UNCHANGED <<now, claims, streams, outbox, switches, rateCommits>>

(* Faulty variants: recovery overwrites a terminal claim; recovery accepts *)
(* any terminal claim as its own repeat.                                   *)
RecoverResultOverwrites(id, terminal, body, ok) ==
  LET r == claims[id]
  IN  IF r.state = "absent" THEN "claim_not_found"
      ELSE IF ~ClockOk THEN ClockReading
      ELSE IF now < r.leaseExpiresAt THEN "claim_lease_live"
      ELSE IF ~PayloadBinds(r.claim, terminal, body) THEN "configuration_invalid"
      ELSE IF body.result # "interrupted" \/ ~ok THEN "claim_store_unavailable"
      ELSE "committed"
RecoverResultAnyRepeat(id, terminal, body, ok) ==
  LET r == claims[id]
  IN  IF r.state = "absent" THEN "claim_not_found"
      ELSE IF r.state = "terminal" THEN "unchanged"
      ELSE IF ~ClockOk THEN ClockReading
      ELSE IF now < r.leaseExpiresAt THEN "claim_lease_live"
      ELSE IF ok THEN "committed" ELSE "claim_store_unavailable"

RecoverResult(id, terminal, body, ok) ==
  LET r == claims[id]
  IN  IF r.state = "absent" THEN "claim_not_found"
      ELSE IF r.state = "terminal"
        THEN IF r.terminal = terminal /\ r.receiptBody = body
             THEN "unchanged" ELSE "claim_already_terminal"
      ELSE IF ~ClockOk THEN ClockReading
      ELSE IF now < r.leaseExpiresAt THEN "claim_lease_live"
      ELSE IF ~PayloadBinds(r.claim, terminal, body) THEN "configuration_invalid"
      ELSE IF body.result # "interrupted" THEN "configuration_invalid"
      ELSE IF ~ok THEN "claim_store_unavailable"
      ELSE "committed"

Recover(id, terminal, body, ok) ==
  /\ ReadClockIf(claims[id].state = "evaluating")
  /\ IF RecoverResult(id, terminal, body, ok) = "committed"
     THEN CommitTerminal(id, terminal, body, 0)
     ELSE UNCHANGED <<claims, outbox>>
  /\ UNCHANGED <<now, streams, switches, rateCommits>>

LoadCommittedResult(id) ==
  IF claims[id].state = "absent" THEN "claim_not_found"
  ELSE IF claims[id].state = "terminal" THEN "ok"
  ELSE IF ~ClockOk THEN ClockReading
  ELSE IF now < claims[id].leaseExpiresAt THEN "claim_lease_live"
  ELSE "claim_lease_lost"

LoadCommitted(id) ==
  /\ ReadClockIf(claims[id].state = "evaluating")
  /\ UNCHANGED <<now, claims, streams, outbox, switches, rateCommits>>

-----------------------------------------------------------------------------
(* The receipt log: publisher, checkpoint, abandonment.                    *)

(* Faulty variant: the scan stops at an entry that is acknowledged.        *)
PendingUpToAcknowledged(log) ==
  {i \in DOMAIN log : \A j \in 1..i : log[j].ack = NoAck /\ log[j].published}

(* acknowledge_pending_locked: the appended, unacknowledged entries before *)
(* the first entry that is not appended are acknowledged at one reading.   *)
Pending(log) ==
  {i \in DOMAIN log : log[i].ack = NoAck /\ \A j \in 1..i : log[j].published}

AcknowledgePending(log) ==
  [i \in DOMAIN log |-> IF i \in Pending(log) /\ ~checkpointFrozen /\ ClockOk
                        THEN [log[i] EXCEPT !.ack = now] ELSE log[i]]

PendingReadsClock(log) == ~checkpointFrozen /\ Pending(log) # {}

(* Faulty variants: an entry overtakes its predecessor; a frozen log is    *)
(* appended to.                                                            *)
PublishResultOutOfOrder(id, body, ok) ==
  LET r == claims[id]
  IN  IF r.state # "terminal" \/ r.receiptBody # body THEN "unavailable"
      ELSE IF outbox[r.outboxIndex].published THEN "receipt"
      ELSE IF logFrozen \/ signerFailure THEN "unavailable"
      ELSE IF ok THEN "appended" ELSE "claim_store_unavailable"
PublishResultFrozenLog(id, body, ok) ==
  LET r == claims[id]
      i == r.outboxIndex
  IN  IF r.state # "terminal" \/ r.receiptBody # body THEN "unavailable"
      ELSE IF outbox[i].published THEN "receipt"
      ELSE IF (i > 1 /\ ~outbox[i - 1].published) \/ signerFailure THEN "unavailable"
      ELSE IF ok THEN "appended" ELSE "claim_store_unavailable"

PublishResult(id, body, ok) ==
  LET r == claims[id]
      i == r.outboxIndex
  IN  IF r.state # "terminal" \/ r.receiptBody # body THEN "unavailable"
      ELSE IF outbox[i].published THEN "receipt"
      ELSE IF logFrozen THEN "unavailable"
      ELSE IF i > 1 /\ ~outbox[i - 1].published THEN "unavailable"
      ELSE IF signerFailure THEN "unavailable"
      ELSE IF ~ok THEN "claim_store_unavailable"
      ELSE "appended"

Appended(i) == [outbox EXCEPT ![i] = [@ EXCEPT !.published = TRUE, !.digest = i]]

Publish(id, body, ok) ==
  LET log == Appended(claims[id].outboxIndex)
      appended == PublishResult(id, body, ok) = "appended"
  IN  /\ outbox' = IF ~appended THEN outbox
                   ELSE IF ackWithheld THEN log ELSE AcknowledgePending(log)
      /\ ReadClockIf(appended /\ ~ackWithheld /\ PendingReadsClock(log))
      /\ UNCHANGED <<now, claims, streams, switches, rateCommits>>

SetSignerFailure(failing) ==
  /\ signerFailure' = failing
  /\ UNCHANGED <<clockVars, claims, streams, outbox, rateCommits,
                 ackWithheld, logFrozen, checkpointFrozen>>

SetAcknowledgementWithheld(withheld) ==
  /\ ackWithheld' = withheld
  /\ outbox' = IF withheld THEN outbox ELSE AcknowledgePending(outbox)
  /\ ReadClockIf(~withheld /\ PendingReadsClock(outbox))
  /\ UNCHANGED <<now, claims, streams, rateCommits,
                 logFrozen, checkpointFrozen, signerFailure>>

(* acknowledge_v2_receipt of this log (another log ID is refused): the     *)
(* next appended entry, linked by the hash of its predecessor.             *)
PreviousHash(seq) == IF seq = 1 THEN Genesis ELSE outbox[seq - 1].digest

AcknowledgeResult(seq, previous, hash) ==
  IF seq \notin 1..Len(outbox) THEN "refused"
  ELSE IF outbox[seq].ack # NoAck /\ outbox[seq].digest # hash THEN "fork"
  ELSE IF checkpointFrozen /\ outbox[seq].ack = NoAck THEN "refused"
  ELSE IF ~outbox[seq].published \/ outbox[seq].digest # hash THEN "refused"
  ELSE IF seq > 1 /\ outbox[seq - 1].ack = NoAck THEN "refused"
  ELSE IF PreviousHash(seq) # previous THEN "refused"
  ELSE IF outbox[seq].ack # NoAck THEN "retry"
  ELSE IF ~ClockOk THEN ClockReading
  ELSE "acknowledged"

AcknowledgeReceipt(seq, previous, hash) ==
  LET result == AcknowledgeResult(seq, previous, hash)
  IN  /\ checkpointFrozen' = (checkpointFrozen \/ result = "fork")
      /\ IF result = "acknowledged"
         THEN /\ outbox' = [outbox EXCEPT ![seq].ack = now]
              /\ ReadClockIf(TRUE)
         ELSE UNCHANGED <<outbox, highWater>>
      /\ UNCHANGED <<now, claims, streams, rateCommits,
                     ackWithheld, logFrozen, signerFailure>>

(* abandon_pending_receipts: freeze the log and mark every claim whose     *)
(* entry is not appended.                                                  *)
AbandonPendingReceipts(ok) ==
  /\ logFrozen' = (logFrozen \/ ok)
  /\ claims' = IF ~ok THEN claims
               ELSE [id \in ClaimIds |->
                      IF \E i \in DOMAIN outbox : /\ outbox[i].claimId = id
                                                  /\ ~outbox[i].published
                      THEN [claims[id] EXCEPT !.abandoned = TRUE]
                      ELSE claims[id]]
  /\ UNCHANGED <<clockVars, streams, outbox, rateCommits,
                 ackWithheld, checkpointFrozen, signerFailure>>

-----------------------------------------------------------------------------
(* record_v2_release: the first record of a claim wins.                    *)

(* Faulty variants: the last record wins; an identical record is refused.  *)
RecordReleaseResultLastWins(id, rel, ok) ==
  IF ~ValidReleaseOutcome(rel) THEN "configuration_invalid"
  ELSE IF claims[id].state # "terminal" THEN "release_state_mismatch"
  ELSE IF ok THEN "recorded" ELSE "claim_store_unavailable"
RecordReleaseResultNoRepeat(id, rel, ok) ==
  IF ~ValidReleaseOutcome(rel) THEN "configuration_invalid"
  ELSE IF claims[id].state # "terminal" \/ claims[id].release # NoRelease
    THEN "release_state_mismatch"
  ELSE IF ok THEN "recorded" ELSE "claim_store_unavailable"

RecordReleaseResult(id, rel, ok) ==
  LET r == claims[id]
  IN  IF ~ValidReleaseOutcome(rel) THEN "configuration_invalid"
      ELSE IF r.state # "terminal" THEN "release_state_mismatch"
      ELSE IF r.release # NoRelease
        THEN IF r.release = rel THEN "unchanged" ELSE "release_state_mismatch"
      ELSE IF ~ok THEN "claim_store_unavailable"
      ELSE "recorded"

RecordRelease(id, rel, ok) ==
  /\ claims' = IF RecordReleaseResult(id, rel, ok) = "recorded"
               THEN [claims EXCEPT ![id].release = rel] ELSE claims
  /\ UNCHANGED <<clockVars, streams, outbox, switches, rateCommits>>

-----------------------------------------------------------------------------
(* The store with arbitrary callers.                                       *)

(* The release records callers write: a release, a withheld result, and an *)
(* outcome that is no record at all.                                       *)
Releases ==
  {[entryHash |-> 1, ackTimestamp |-> t, outcome |-> o, reason |-> r] :
     t \in {0, highWater}, o \in {"released", "pending"}, r \in {"none"}}
  \cup [entryHash : {1}, ackTimestamp : {0}, outcome : {"withheld"},
        reason : {"clock_regressed", "challenge_expired"}]

ClockStep == \/ \E t \in ClockSettings : SetTime(t)
             \/ AuthoritativeTime

ClaimStep == \E c \in Claims, ok \in BOOLEAN : Claim(c, ok)

FinalizeStep ==
  \E id, token \in ClaimIds, b \in Bodies, h \in Horizons, ok \in Anchoring :
    \E t \in {b.result, "none"} : Finalize(id, token, t, b, h, ok)

ProgressStep ==
  \E id, token \in ClaimIds, p \in Progresses, ok \in Anchoring :
    RecordProgress(id, token, p, ok)

RecoveryStep ==
  \E id \in ClaimIds :
    \/ LoadInterrupted(id)
    \/ LoadCommitted(id)
    \/ \E b \in Bodies, ok \in Anchoring :
         \E t \in {b.result, "none"} : Recover(id, t, b, ok)

PublishStep ==
  \E id \in ClaimIds, b \in Bodies, ok \in Anchoring : Publish(id, b, ok)

(* The submitted hashes are those of the position, of its neighbour or of  *)
(* no entry at all.                                                        *)
CheckpointStep ==
  \/ \E seq \in 0..(Len(outbox) + 1) :
       \E previous \in {seq - 1, seq}, hash \in {seq, seq + 1} :
         AcknowledgeReceipt(seq, previous, hash)
  \/ \E b \in BOOLEAN : SetAcknowledgementWithheld(b)

SignerStep == \E b \in BOOLEAN : SetSignerFailure(b)

AbandonStep == \E ok \in Anchoring : AbandonPendingReceipts(ok)

ReleaseStep ==
  \E id \in ClaimIds, rel \in Releases, ok \in Anchoring : RecordRelease(id, rel, ok)

Next == \/ ClockStep \/ ClaimStep \/ FinalizeStep \/ ProgressStep
        \/ RecoveryStep \/ PublishStep \/ CheckpointStep \/ SignerStep
        \/ AbandonStep \/ ReleaseStep

Spec == Init /\ [][Next]_storeVars

-----------------------------------------------------------------------------
(* Properties.                                                             *)

Terminal(id) == claims[id].state = "terminal"
Accepted(id) == claims[id].state # "absent"

(* Every stored time is a reading inside the timestamp domain, every       *)
(* stream position inside 1..MAX_SAFE, and every record is well formed:    *)
(* nothing a regressed or out-of-domain clock shows is ever persisted.     *)
TypeOK ==
  /\ now \in Int /\ highWater \in Int
  /\ claims \in [ClaimIds -> ClaimRecord]
  /\ streams \in [Streams -> 0..MaxSafe]
  /\ outbox \in Seq(Entry)
  /\ <<ackWithheld, logFrozen, checkpointFrozen, signerFailure>>
       \in BOOLEAN \X BOOLEAN \X BOOLEAN \X BOOLEAN
  /\ rateCommits \in [Counters -> Seq(0..MaxTimestamp)]

(* The receipt log holds exactly one entry for each terminal claim, at the *)
(* position its commit assigned, with the body it committed, and none for  *)
(* any other claim: no commit, retry or recovery is receipted twice, lost  *)
(* or receipted with another result (commit_terminal_locked).              *)
OneEntryPerTerminalClaim ==
  /\ \A id \in ClaimIds :
       Terminal(id) => /\ claims[id].outboxIndex \in DOMAIN outbox
                       /\ outbox[claims[id].outboxIndex].claimId = id
                       /\ outbox[claims[id].outboxIndex].body = claims[id].receiptBody
  /\ \A i \in DOMAIN outbox :
       Terminal(outbox[i].claimId) /\ claims[outbox[i].claimId].outboxIndex = i

(* A terminal result binds the sealed claim and lies in the window of its  *)
(* author: whatever was committed at or after the lease expiry is the      *)
(* interrupted result of recovery, and an allow was committed strictly     *)
(* before its lease, its horizon and the challenge expiry                  *)
(* (finalize_v2_claim against recover_interrupted_v2_claim).               *)
CommitInWindow ==
  \A id \in ClaimIds : Terminal(id) =>
    LET r == claims[id]
    IN  /\ PayloadBinds(r.claim, r.terminal, r.receiptBody)
        /\ r.claimedAt <= r.finalizedAt
        /\ r.finalizedAt >= r.leaseExpiresAt => r.terminal = "interrupted"
        /\ IF r.terminal = "allow"
           THEN r.finalizedAt < r.allowHorizon /\ r.finalizedAt < r.claim.expiresAt
           ELSE r.allowHorizon = 0

(* The log is appended and acknowledged strictly in order, whoever submits *)
(* an entry: the publisher, the resumed submission or a direct call of the *)
(* checkpoint; an acknowledged entry is appended.                          *)
InOrder(log) ==
  \A j \in DOMAIN log :
    /\ log[j].ack # NoAck => log[j].published
    /\ \A i \in 1..(j - 1) : /\ log[j].published => log[i].published
                             /\ log[j].ack # NoAck => log[i].ack # NoAck
LogInOrder == InOrder(outbox)

(* Time runs forward along the log although the clock does not: commits    *)
(* and acknowledgements are in nondecreasing order, no entry is            *)
(* acknowledged before its commit, and nothing is later than the           *)
(* high-water mark (read_clock_locked).                                    *)
LogTimesForward ==
  LET finalAt(i) == claims[outbox[i].claimId].finalizedAt
  IN  \A i \in DOMAIN outbox :
        /\ finalAt(i) <= highWater
        /\ outbox[i].ack # NoAck => finalAt(i) <= outbox[i].ack /\ outbox[i].ack <= highWater
        /\ \A j \in DOMAIN outbox : i < j =>
             /\ finalAt(i) <= finalAt(j)
             /\ outbox[j].ack # NoAck => outbox[i].ack <= outbox[j].ack

(* The accepted claims of a stream carry exactly the sequences 1 to the    *)
(* stored last sequence, each of them once: no gap, duplicate or replay    *)
(* advances a stream without a claim, or a claim without the stream        *)
(* (claim_v2, check_v2_stream_sequence).                                   *)
StreamContiguous ==
  \A s \in Streams :
    LET members == {id \in ClaimIds : Accepted(id) /\ claims[id].claim.stream = s}
    IN  /\ {claims[id].claim.seq : id \in members} = 1..streams[s]
        /\ Cardinality(members) = streams[s]

(* Counted from the log itself, an allow is never one too many: of the     *)
(* allows committed up to it that draw on the same counter, those inside   *)
(* the window that ends at its own commit number at most its sealed limit, *)
(* itself included, although the clock may be set back and claims with     *)
(* different limits share the counter (finalize_v2_claim).                 *)
RateWithinLimit ==
  LET draws(id, k) == /\ claims[id].terminal = "allow"
                      /\ \E item \in claims[id].claim.batch : item.counter = k
  IN  \A id \in ClaimIds : (RateAtFinalization /\ claims[id].terminal = "allow") =>
        \A item \in claims[id].claim.batch :
          Cardinality({d \in ClaimIds :
            /\ draws(d, item.counter)
            /\ claims[d].outboxIndex <= claims[id].outboxIndex
            /\ claims[d].finalizedAt > claims[id].finalizedAt - Window[item.counter]})
          <= item.limit

(* An abandoned claim is terminal, its log is frozen and its receipt is    *)
(* never appended, by no later publication or resumed submission           *)
(* (abandon_pending_receipts against publish_v2_receipt).                  *)
AbandonedNeverAppended ==
  \A id \in ClaimIds : claims[id].abandoned =>
    /\ Terminal(id) /\ logFrozen
    /\ ~outbox[claims[id].outboxIndex].published

(* What no step may ever do to a claim: lose it, exchange its sealed claim *)
(* or owner, extend its lease, change a committed result, its log position *)
(* or its time, replace a release record, or lift an abandonment.          *)
ClaimFacts(r) == <<r.claim, r.owner, r.leaseExpiresAt, r.claimedAt>>
CommitFacts(r) == <<r.terminal, r.receiptBody, r.allowHorizon, r.finalizedAt,
                    r.outboxIndex, r.progress>>
ClaimKept(id) ==
  /\ Accepted(id) => Accepted(id)' /\ ClaimFacts(claims'[id]) = ClaimFacts(claims[id])
  /\ Terminal(id) => Terminal(id)' /\ CommitFacts(claims'[id]) = CommitFacts(claims[id])
  /\ claims[id].release # NoRelease => claims'[id].release = claims[id].release
  /\ claims[id].abandoned => claims'[id].abandoned
CommittedImmutable == [][\A id \in ClaimIds : ClaimKept(id)]_storeVars

(* The log is append only: a position keeps its claim and body, an         *)
(* appended entry its digest, an acknowledgement its time; and after a     *)
(* fork the checkpoint acknowledges nothing more, on either path.          *)
LogExtends ==
  /\ Len(outbox) <= Len(outbox')
  /\ \A i \in DOMAIN outbox :
       /\ outbox'[i].claimId = outbox[i].claimId /\ outbox'[i].body = outbox[i].body
       /\ outbox[i].published => outbox'[i].published /\ outbox'[i].digest = outbox[i].digest
       /\ (outbox[i].ack # NoAck \/ checkpointFrozen) => outbox'[i].ack = outbox[i].ack
LogAppendOnly == [][LogExtends]_storeVars

=============================================================================
