------------------------------- MODULE Release -------------------------------
(***************************************************************************)
(* Release of committed decisions (sdks/rust/src/v2/release.rs).           *)
(*                                                                         *)
(* Each member of Calls makes one call of release_v2_decision after        *)
(* another.  A call makes up to five calls of the store and the            *)
(* checkpoint, and between any two of them every other call and every      *)
(* method of the store may run: the record it loaded in step 1 can be      *)
(* stale when it writes in step 9.  A released allow is acted on after its *)
(* allowed() check, which ends the model of that caller.                   *)
(***************************************************************************)
EXTENDS ClaimStore

CONSTANTS Calls,           \* callers of release_v2_decision
          ForeignHandoffs  \* handoffs that this store did not produce

VARIABLES call,      \* the progress of each call
          acted      \* call -> the reading its allowed() check passed at

relVars == <<call, acted>>
vars == <<storeVars, relVars>>

NotActed == -1

(* A handoff (CommittedV2Outcome) names its claim, its sealed body and the *)
(* two deadlines.  They are what the store holds for a terminal claim: the *)
(* verifier, recovery and resumption return nothing else (module           *)
(* Evaluation, HandoffsMatchStore).                                        *)
Handoff(id) == [id |-> id, body |-> claims[id].receiptBody,
                expiresAt |-> claims[id].claim.expiresAt,
                allowHorizon |-> claims[id].allowHorizon]

HandoffType == [id : ClaimIds, body : Bodies \cup {NoBody},
                expiresAt : Int, allowHorizon : 0..MaxTimestamp]
ASSUME ForeignAssumption == ForeignHandoffs \subseteq HandoffType

NoHandoff == [id |-> "none"]
NoCall == [pc |-> "idle", handoff |-> NoHandoff, receipt |-> 0,
           finalizedAt |-> 0, prior |-> NoRelease, ack |-> NoAck, time |-> NoAck,
           write |-> NoRelease, status |-> "none", reason |-> "none"]

Goto(k, pc) == [call EXCEPT ![k].pc = pc]

(* A pending answer says nothing but that the call may be repeated.        *)
Answer(c, status, reason) ==
  [(IF status = "pending" THEN NoCall ELSE c)
     EXCEPT !.pc = "done", !.status = status, !.reason = reason]
Finish(k, status, reason) == [call EXCEPT ![k] = Answer(call[k], status, reason)]

(* A receipt is named by its log position.  Its digest is the position and *)
(* previous_receipt_hash is the digest of the position before it.          *)
EntryHash(k) == call[k].receipt

-----------------------------------------------------------------------------

(* Steps 1 to 4: the committed state, the receipt, its body and the entry  *)
(* of a prior release.  A receipt of 0 says that none was appended yet; a  *)
(* caller may also hand in the receipt of another claim, or a handoff that *)
(* another store produced.  up is FALSE when the store does not answer.    *)
LoadResult(h, receipt, up) ==
  LET r == claims[h.id]
  IN  IF ~up THEN <<"pending", "claim_store_unavailable">>
      ELSE IF r.state = "absent" THEN <<"rejected", "release_state_mismatch">>
      ELSE IF r.abandoned THEN <<"withheld", "receipt_abandoned">>
      ELSE IF \/ r.state # "terminal" \/ r.receiptBody # h.body
              \/ r.claim.expiresAt # h.expiresAt \/ r.allowHorizon # h.allowHorizon
        THEN <<"rejected", "release_state_mismatch">>
      ELSE IF r.release.outcome = "withheld" THEN <<"withheld", r.release.reason>>
      ELSE IF receipt = 0 THEN <<"pending", "receipt_not_appended">>
      ELSE IF outbox[receipt].body # h.body THEN <<"rejected", "receipt_body_mismatch">>
      ELSE IF r.release # NoRelease /\ r.release.entryHash # receipt
        THEN <<"rejected", "release_state_mismatch">>
      ELSE <<"ok", "none">>

Load(k, h, receipt, up) ==
  LET result == LoadResult(h, receipt, up)
      loaded == [NoCall EXCEPT !.handoff = h, !.receipt = receipt,
                   !.finalizedAt = claims[h.id].finalizedAt,
                   !.prior = claims[h.id].release]
  IN  /\ call[k].pc = "idle"
      /\ call' = [call EXCEPT ![k] =
           IF result[1] # "ok"
           THEN Answer(loaded, result[1], result[2])
           ELSE [loaded EXCEPT !.pc = IF receipt > 1 THEN "predecessor" ELSE "acknowledgement"]]
      /\ UNCHANGED <<storeVars, acted>>

(* The checkpoint does not answer: the call is pending and may be retried. *)
Unavailable(k) ==
  /\ call[k].pc \in {"predecessor", "acknowledgement"}
  /\ call' = Finish(k, "pending", "acknowledgement_unavailable")
  /\ UNCHANGED <<storeVars, acted>>

(* Step 5: the acknowledgement of the predecessor.                         *)
Predecessor(k) ==
  LET previous == outbox[call[k].receipt - 1]
  IN  /\ call[k].pc = "predecessor"
      /\ call' = IF previous.ack = NoAck
                 THEN Finish(k, "pending", "acknowledgement_unavailable")
                 ELSE IF previous.digest # call[k].receipt - 1
                 THEN Finish(k, "rejected", "log_predecessor_mismatch")
                 ELSE Goto(k, "acknowledgement")
      /\ UNCHANGED <<storeVars, acted>>

(* Step 6: the acknowledgement of the entry, the same as a prior release.  *)
Acknowledgement(k) ==
  LET entry == outbox[call[k].receipt]
      prior == call[k].prior
  IN  /\ call[k].pc = "acknowledgement"
      /\ call' = IF entry.ack = NoAck
                 THEN Finish(k, "pending", "acknowledgement_unavailable")
                 ELSE IF entry.digest # EntryHash(k)
                 THEN Finish(k, "rejected", "acknowledgement_mismatch")
                 ELSE IF prior # NoRelease /\ prior.ackTimestamp # entry.ack
                 THEN Finish(k, "rejected", "release_state_mismatch")
                 ELSE [call EXCEPT ![k].ack = entry.ack, ![k].pc = "clock"]
      /\ UNCHANGED <<storeVars, acted>>

(* Faulty variant: only the acknowledgement is held against the deadlines. *)
WithholdReasonAckOnly(k, t) ==
  LET h == call[k].handoff
      ack == call[k].ack
  IN  IF ~(call[k].finalizedAt <= ack /\ ack <= t) THEN "clock_regressed"
      ELSE IF ack >= h.expiresAt THEN "challenge_expired"
      ELSE IF h.body.result = "allow" /\ ack >= h.allowHorizon THEN "allow_horizon_passed"
      ELSE "none"

(* Steps 7 and 8: the order of the times and the exclusive deadlines, at   *)
(* one authoritative reading.  "none" when nothing withholds the decision. *)
WithholdReason(k, t) ==
  LET h == call[k].handoff
      ack == call[k].ack
  IN  IF ~(call[k].finalizedAt <= ack /\ ack <= t) THEN "clock_regressed"
      ELSE IF ack >= h.expiresAt \/ t >= h.expiresAt THEN "challenge_expired"
      ELSE IF /\ h.body.result = "allow"
              /\ h.allowHorizon <= 0 \/ ack >= h.allowHorizon \/ t >= h.allowHorizon
        THEN "allow_horizon_passed"
      ELSE "none"

(* What the call records for a reason ("none" for a release), and where it *)
(* goes next: with a prior release there is nothing to record.             *)
Decide(k, reason) ==
  LET write == [entryHash |-> EntryHash(k), ackTimestamp |-> call[k].ack,
                outcome |-> IF reason = "none" THEN "released" ELSE "withheld",
                reason |-> reason]
  IN  IF call[k].prior = NoRelease
      THEN [call EXCEPT ![k].write = write, ![k].time = now, ![k].pc = "record"]
      ELSE [call EXCEPT ![k].status = write.outcome, ![k].reason = reason,
                        ![k].time = now, ![k].pc = "done"]

ReleaseClock(k) ==
  /\ call[k].pc = "clock"
  /\ ReadClockIf(TRUE)
  /\ call' = IF ClockReading = "ok" THEN Decide(k, WithholdReason(k, now))
             ELSE IF ClockReading = "clock_regressed" THEN Decide(k, "clock_regressed")
             ELSE Finish(k, "pending", "clock_unavailable")
  /\ UNCHANGED <<now, claims, streams, outbox, switches, rateCommits, acted>>

(* Step 9 and the recording of a withheld result.  The store may fail to   *)
(* record (ok), or record and panic before it answers (heard): a release   *)
(* is then pending and a withheld result still withheld.                   *)
Record(k, ok, heard) ==
  LET write == call[k].write
      result == IF heard THEN RecordReleaseResult(call[k].handoff.id, write, ok)
                         ELSE "claim_store_unavailable"
  IN  /\ call[k].pc = "record"
      /\ RecordRelease(call[k].handoff.id, write, ok)
      /\ call' = IF result = "release_state_mismatch"
                 THEN Finish(k, "rejected", "release_state_mismatch")
                 ELSE IF result \in {"recorded", "unchanged"} \/ write.outcome = "withheld"
                 THEN Finish(k, write.outcome, write.reason)
                 ELSE Finish(k, "pending", "claim_store_unavailable")
      /\ UNCHANGED acted

(* Faulty variant: the clock setting without an authoritative reading.     *)
AllowedAnyClock(k) ==
  /\ call[k].status = "released" /\ call[k].handoff.body.result = "allow"
  /\ now < call[k].handoff.expiresAt /\ now < call[k].handoff.allowHorizon

(* V2ReleasedDecision::allowed, immediately before the side effect.        *)
Allowed(k) ==
  /\ call[k].status = "released" /\ call[k].handoff.body.result = "allow"
  /\ call[k].handoff.allowHorizon > 0
  /\ ClockOk /\ now < call[k].handoff.expiresAt /\ now < call[k].handoff.allowHorizon

Act(k) ==
  /\ call[k].status = "released" /\ acted[k] = NotActed
  /\ ReadClockIf(call[k].handoff.body.result = "allow")
  /\ acted' = IF Allowed(k) THEN [acted EXCEPT ![k] = now] ELSE acted
  /\ UNCHANGED <<now, claims, streams, outbox, switches, rateCommits, call>>

-----------------------------------------------------------------------------

RelInit == Init /\ call = [k \in Calls |-> NoCall] /\ acted = [k \in Calls |-> NotActed]

(* The receipts a caller may hold: those the publisher returned, or none.  *)
Receipts == {0} \cup {i \in DOMAIN outbox : outbox[i].published}

GenuineCall(k, id, receipt, up) ==
  claims[id].state = "terminal" /\ Load(k, Handoff(id), receipt, up)

ForeignCall(k) ==
  \E h \in ForeignHandoffs, receipt \in Receipts : Load(k, h, receipt, TRUE)

(* The receipt of its own claim, which publish_v2_receipt returns again.   *)
OwnReceipt(id) ==
  LET i == claims[id].outboxIndex IN IF i \in Receipts THEN i ELSE 0
HonestCall(k, id) == GenuineCall(k, id, OwnReceipt(id), TRUE)

(* The caller goes on to its next call, of this claim or another.          *)
Again(k) ==
  /\ call[k].status # "none" /\ acted[k] = NotActed
  /\ call' = [call EXCEPT ![k] = NoCall]
  /\ UNCHANGED <<storeVars, acted>>

CallStep(k) == \/ Predecessor(k) \/ Acknowledgement(k) \/ ReleaseClock(k)
               \/ Record(k, TRUE, TRUE) \/ Again(k)

(* The rest of the deployment: evaluation, recovery, publication, the      *)
(* checkpoint and abandonment.  Nothing but release writes a record.       *)
Commit ==
  \/ \E c \in Claims : Claim(c, TRUE)
  \/ \E b \in Bodies : LET id == b.proof[1] IN
       \/ \E h \in Horizons : Finalize(id, id, b.result, b, h, TRUE)
       \/ Recover(id, b.result, b, TRUE)

PublishOne(id) == Terminal(id) /\ Publish(id, claims[id].receiptBody, TRUE)

Environment ==
  /\ \/ Commit
     \/ \E t \in ClockSettings : SetTime(t)
     \/ \E id \in ClaimIds : PublishOne(id)
     \/ CheckpointStep \/ AbandonPendingReceipts(TRUE)
  /\ UNCHANGED relVars

RelNext ==
  \/ Environment
  \/ \E k \in Calls :
       \/ \E id \in ClaimIds, receipt \in Receipts, up \in BOOLEAN :
            GenuineCall(k, id, receipt, up)
       \/ ForeignCall(k) \/ CallStep(k) \/ Unavailable(k) \/ Act(k)
       \/ \E ok, heard \in BOOLEAN : Record(k, ok, heard)

RelSpec == RelInit /\ [][RelNext]_vars

(* A deployment in which nothing breaks for good: the clock runs forward,  *)
(* the publisher and the caller keep retrying, submission to the           *)
(* checkpoint is resumed and nothing is forked or frozen.                  *)
Forward == \E t \in ClockSettings : t > now /\ SetTime(t)
Resubmit == SetAcknowledgementWithheld(FALSE)

LiveNext ==
  \/ (Commit \/ Forward \/ Resubmit \/ SetAcknowledgementWithheld(TRUE)) /\ UNCHANGED relVars
  \/ \E id \in ClaimIds : PublishOne(id) /\ UNCHANGED relVars
  \/ \E k \in Calls : \/ CallStep(k)
                      \/ \E id \in ClaimIds : HonestCall(k, id)

LiveSpec ==
  /\ RelInit /\ [][LiveNext]_vars
  /\ \A id \in ClaimIds : WF_vars(PublishOne(id) /\ UNCHANGED relVars)
  /\ WF_vars(Resubmit /\ UNCHANGED relVars)
  /\ \A k \in Calls : WF_vars(CallStep(k))
  /\ \A k \in Calls, id \in ClaimIds : SF_vars(HonestCall(k, id))

-----------------------------------------------------------------------------
(* Properties.                                                             *)

(* A released answer, whatever ran between its five calls, is the recorded *)
(* release of a terminal claim: its receipt is the one log entry of that   *)
(* claim, that entry and its predecessor are acknowledged, the times are   *)
(* in order and before the sealed deadlines, and the claim is not          *)
(* abandoned.  All released answers of a claim therefore agree, and a      *)
(* recorded withheld result is never followed by one (release_v2_decision, *)
(* steps 1 to 10).                                                         *)
ReleaseSound ==
  \A k \in Calls : call[k].status = "released" =>
    LET h == call[k].handoff
        r == claims[h.id]
        i == call[k].receipt
    IN  /\ Terminal(h.id) /\ ~r.abandoned /\ h = Handoff(h.id)
        /\ i = r.outboxIndex /\ outbox[i].published /\ outbox[i].ack = call[k].ack
        /\ i > 1 => outbox[i - 1].ack # NoAck
        /\ r.release = [entryHash |-> i, ackTimestamp |-> call[k].ack,
                        outcome |-> "released", reason |-> "none"]
        /\ r.finalizedAt <= call[k].ack /\ call[k].ack <= call[k].time
        /\ call[k].time < h.expiresAt
        /\ h.body.result = "allow" => call[k].time < h.allowHorizon

(* An action is taken only on a committed allow, at a reading no earlier   *)
(* than its release and strictly before both sealed deadlines, although    *)
(* the clock may have been set back in between (allowed).                  *)
ActedInTime ==
  \A k \in Calls : acted[k] # NotActed =>
    LET r == claims[call[k].handoff.id]
    IN  /\ r.terminal = "allow" /\ r.release.outcome = "released"
        /\ call[k].time <= acted[k]
        /\ acted[k] < r.claim.expiresAt /\ acted[k] < r.allowHorizon

(* Rejected never blames an honest log: a call with the handoff and the    *)
(* receipt of its own claim is rejected only because a concurrent call     *)
(* recorded a different result first, never for its predecessor, its       *)
(* acknowledgement or a record of its own that was not heard.              *)
RejectedOnlyOnConflict ==
  \A k \in Calls :
    LET h == call[k].handoff
        genuine == /\ h.id \in ClaimIds /\ Terminal(h.id) /\ h = Handoff(h.id)
                   /\ call[k].receipt = claims[h.id].outboxIndex
    IN  (call[k].status = "rejected" /\ genuine) =>
          /\ call[k].write # NoRelease /\ claims[h.id].release # NoRelease
          /\ claims[h.id].release # call[k].write

(* Every committed claim is settled at last: a release or a withheld       *)
(* result is recorded, although its entry waits for every earlier entry of *)
(* the log to be appended and acknowledged.                                *)
EventuallySettled ==
  \A id \in ClaimIds : Terminal(id) ~> claims[id].release # NoRelease
=============================================================================
