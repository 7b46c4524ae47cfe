-------------------------- MODULE ClaimStoreProofs --------------------------
(***************************************************************************)
(* Machine-checked proofs about module ClaimStore, for every set of        *)
(* claims, callers, clock settings and every value of the bounds.          *)
(***************************************************************************)
EXTENDS ClaimStore, SequenceTheorems, FiniteSetTheorems, TLAPS

-----------------------------------------------------------------------------
(* The operators the store is built from.                                  *)

(* A successful reading lies in the timestamp domain and not behind the    *)
(* high-water mark (read_clock_locked).                                    *)
LEMMA GoodReading ==
  ASSUME TypeOK, ClockOk
  PROVE  now \in 0..MaxTimestamp /\ highWater <= now
BY StoreAssumption DEF TypeOK, ClockOk, ClockReading

(* The high-water mark moves to the reading or stays: it never moves back. *)
LEMMA HighWaterForward ==
  ASSUME TypeOK, NEW reads \in BOOLEAN, ReadClockIf(reads)
  PROVE  /\ highWater' \in Int /\ highWater <= highWater'
         /\ (reads /\ ClockOk) => highWater' = now
BY GoodReading DEF TypeOK, ReadClockIf, HighWaterAfterRead

(* owner_locked answers "ok" only for an evaluating claim, at a reading    *)
(* inside its lease.                                                       *)
LEMMA OwnerOk ==
  ASSUME TypeOK, NEW id \in ClaimIds, NEW token \in ClaimIds, OwnerResult(id, token) = "ok"
  PROVE  /\ claims[id].state = "evaluating" /\ ClockOk
         /\ claims[id].claimedAt <= now /\ now < claims[id].leaseExpiresAt
<1>1. claims[id] \in ClaimRecord
  BY DEF TypeOK
<1>2. now \in Int /\ claims[id].state \in {"absent", "evaluating", "terminal"}
      /\ claims[id].claimedAt \in 0..MaxTimestamp /\ claims[id].leaseExpiresAt \in Int
  BY <1>1 DEF TypeOK, ClaimRecord
<1> QED
  BY <1>2, StoreAssumption DEF OwnerResult, ClockOk, ClockReading


(* What a successful commit knows: the claim is evaluating, the reading is *)
(* good, and the terminal result, body and horizon are well formed, both   *)
(* in finalize_v2_claim and in recover_interrupted_v2_claim.               *)
Committable(id, terminal, body, horizon) ==
  /\ claims[id].state = "evaluating" /\ ClockOk
  /\ claims[id].claimedAt <= now
  /\ PayloadBinds(claims[id].claim, terminal, body)
  /\ terminal \in Results
  /\ horizon \in 0..MaxTimestamp

(* finalize_v2_claim commits only a committable result: its owner, lease,  *)
(* payload and horizon checks passed.                                      *)
LEMMA FinalizeCommittable ==
  ASSUME TypeOK, NEW id \in ClaimIds, NEW token \in ClaimIds, NEW body \in Bodies,
         NEW terminal, NEW horizon \in Horizons, NEW ok \in BOOLEAN,
         FinalizeResult(id, token, terminal, body, horizon, ok) = "committed"
  PROVE  Committable(id, terminal, body, horizon)
<1>1. OwnerResult(id, token) = "ok"
  BY DEF FinalizeResult, OwnerResult, ClockReading
<1>2. claims[id].state = "evaluating" /\ ClockOk /\ claims[id].claimedAt <= now
  BY <1>1, OwnerOk
<1>3. PayloadBinds(claims[id].claim, terminal, body) /\ HorizonMatches(body, horizon)
  BY <1>1 DEF FinalizeResult
<1>4. terminal \in Results /\ horizon \in 0..MaxTimestamp
  BY <1>3, StoreAssumption DEF PayloadBinds, HorizonMatches, BodyType
<1> QED
  BY <1>2, <1>3, <1>4 DEF Committable

(* recover_interrupted_v2_claim commits only a committable result, with no *)
(* allow horizon.                                                          *)
LEMMA RecoverCommittable ==
  ASSUME TypeOK, NEW id \in ClaimIds, NEW body \in Bodies, NEW terminal, NEW ok \in BOOLEAN,
         RecoverResult(id, terminal, body, ok) = "committed"
  PROVE  /\ claims[id].state = "evaluating" /\ ClockOk
         /\ claims[id].leaseExpiresAt <= now
         /\ PayloadBinds(claims[id].claim, terminal, body)
         /\ terminal \in Results
<1>1. /\ claims[id].state \in {"absent", "evaluating", "terminal"}
      /\ claims[id].leaseExpiresAt \in Int /\ now \in Int
  BY DEF TypeOK, ClaimRecord
<1>2. claims[id].state = "evaluating"
  BY <1>1 DEF RecoverResult
<1>3. ClockOk /\ ~(now < claims[id].leaseExpiresAt)
      /\ PayloadBinds(claims[id].claim, terminal, body)
  BY <1>1, <1>2 DEF RecoverResult, ClockOk, ClockReading
<1>4. terminal \in Results
  BY <1>3, StoreAssumption DEF PayloadBinds, BodyType
<1> QED
  BY <1>1, <1>2, <1>3, <1>4

-----------------------------------------------------------------------------
(* Type correctness.                                                       *)

(* commit_terminal_locked writes a well-formed record and log entry.       *)
LEMMA CommitTyped ==
  ASSUME TypeOK, NEW id \in ClaimIds, NEW terminal \in Results, NEW body \in Bodies,
         NEW horizon \in 0..MaxTimestamp, ClockOk,
         CommitTerminal(id, terminal, body, horizon)
  PROVE  claims' \in [ClaimIds -> ClaimRecord] /\ outbox' \in Seq(Entry)
<1>1. now \in 0..MaxTimestamp
  BY GoodReading
<1>2. outbox \in Seq(Entry) /\ Len(outbox) + 1 \in Nat
  BY LenProperties DEF TypeOK
<1>3. [claims[id] EXCEPT !.state = "terminal", !.terminal = terminal,
         !.receiptBody = body, !.allowHorizon = horizon,
         !.finalizedAt = now, !.outboxIndex = Len(outbox) + 1] \in ClaimRecord
  <2>1. claims[id] \in ClaimRecord
    BY DEF TypeOK
  <2> QED
    BY <1>1, <1>2, <2>1 DEF ClaimRecord
<1>4. claims' \in [ClaimIds -> ClaimRecord]
  BY <1>3 DEF CommitTerminal, TypeOK
<1>5. [claimId |-> id, body |-> body, published |-> FALSE, digest |-> 0, ack |-> NoAck] \in Entry
  BY DEF Entry
<1>6. outbox' \in Seq(Entry)
  BY <1>2, <1>5 DEF CommitTerminal
<1> QED
  BY <1>4, <1>6

(* The publisher and the checkpoint rewrite entries in place: the log      *)
(* keeps its length and its entries stay well formed.                      *)
LEMMA AppendedTyped ==
  ASSUME TypeOK, NEW i \in Nat
  PROVE  /\ Appended(i) \in Seq(Entry) /\ Len(Appended(i)) = Len(outbox)
         /\ \A j \in 1..Len(outbox) : Appended(i)[j] =
              IF j = i THEN [outbox[i] EXCEPT !.published = TRUE, !.digest = i] ELSE outbox[j]
<1>1. /\ outbox \in Seq(Entry) /\ Len(outbox) \in Nat /\ DOMAIN outbox = 1..Len(outbox)
      /\ outbox \in [1..Len(outbox) -> Entry]
  BY LenProperties DEF TypeOK
<1>2. CASE i \in 1..Len(outbox)
  <2>1. outbox[i] \in Entry
    BY <1>1, <1>2
  <2>2. [outbox[i] EXCEPT !.published = TRUE, !.digest = i] \in Entry
    BY <2>1 DEF Entry
  <2> QED
    BY <1>1, <1>2, <2>2, ExceptSeq DEF Appended
<1>3. CASE i \notin 1..Len(outbox)
  <2>1. Appended(i) = outbox
    BY <1>1, <1>3 DEF Appended
  <2> QED
    BY <1>1, <1>3, <2>1
<1> QED
  BY <1>2, <1>3

(* One submission of everything pending keeps the length of the log and    *)
(* its entries well formed (acknowledge_pending_locked).                   *)
LEMMA AcknowledgePendingTyped ==
  ASSUME TypeOK, NEW log \in Seq(Entry)
  PROVE  /\ AcknowledgePending(log) \in Seq(Entry)
         /\ Len(AcknowledgePending(log)) = Len(log)
         /\ \A i \in 1..Len(log) : AcknowledgePending(log)[i] =
              IF i \in Pending(log) /\ ~checkpointFrozen /\ ClockOk
              THEN [log[i] EXCEPT !.ack = now] ELSE log[i]
<1> DEFINE e(i) == IF i \in Pending(log) /\ ~checkpointFrozen /\ ClockOk
                   THEN [log[i] EXCEPT !.ack = now] ELSE log[i]
<1>1. Len(log) \in Nat /\ DOMAIN log = 1..Len(log) /\ log \in [1..Len(log) -> Entry]
  BY LenProperties
<1>2. \A i \in 1..Len(log) : e(i) \in Entry
  <2> SUFFICES ASSUME NEW i \in 1..Len(log) PROVE e(i) \in Entry
    OBVIOUS
  <2>1. log[i] \in Entry
    BY <1>1
  <2>2. CASE i \in Pending(log) /\ ~checkpointFrozen /\ ClockOk
    <3>1. now \in 0..MaxTimestamp
      BY <2>2, GoodReading
    <3> QED
      BY <2>1, <2>2, <3>1 DEF Entry
  <2> QED
    BY <2>1, <2>2
<1>3. AcknowledgePending(log) = [i \in 1..Len(log) |-> e(i)]
  BY <1>1 DEF AcknowledgePending
<1> HIDE DEF e
<1>4. [i \in 1..Len(log) |-> e(i)] \in Seq(Entry)
  BY <1>1, <1>2, IsASeq
<1>5. Len([i \in 1..Len(log) |-> e(i)]) = Len(log)
  BY <1>1
<1> QED
  BY <1>1, <1>3, <1>4, <1>5 DEF e

(* The initial store is well formed.                                       *)
LEMMA InitTyped == Init => TypeOK
<1> SUFFICES ASSUME Init PROVE TypeOK
  OBVIOUS
<1>1. \A id \in ClaimIds : Absent(id) \in ClaimRecord
  BY StoreAssumption DEF Absent, ClaimRecord, NoRelease, ReleaseType, InitialProgress, Assessment
<1>2. claims \in [ClaimIds -> ClaimRecord]
  BY <1>1 DEF Init
<1>3. outbox \in Seq(Entry) /\ rateCommits \in [Counters -> Seq(0..MaxTimestamp)]
  BY DEF Init
<1>4. streams \in [Streams -> 0..MaxSafe]
  BY StoreAssumption DEF Init
<1>5. now \in Int /\ highWater \in Int
  BY StoreAssumption DEF Init
<1>6. /\ ackWithheld \in BOOLEAN /\ logFrozen \in BOOLEAN
      /\ checkpointFrozen \in BOOLEAN /\ signerFailure \in BOOLEAN
  BY DEF Init
<1> QED
  BY <1>2, <1>3, <1>4, <1>5, <1>6 DEF TypeOK

(* claim_v2 keeps the store well formed: the new record carries a good     *)
(* reading and an accepted sequence lies in 1..MAX_SAFE.                   *)
LEMMA ClaimTyped ==
  ASSUME TypeOK, NEW c \in Claims, NEW ok \in BOOLEAN, Claim(c, ok)
  PROVE  TypeOK'
<1>1. c \in ClaimType
  BY StoreAssumption
<1>2. highWater' \in Int
  BY <1>1, HighWaterForward DEF Claim
<1>3. CASE ClaimResult(c, ok) = "created"
  <2>1. ClockOk /\ StreamResult(c) = "ok"
    BY <1>1, <1>3 DEF ClaimResult, StreamResult, StreamSequenceResult
  <2>2. NewRecord(c) \in ClaimRecord
    <3>1. Absent(c.id) \in ClaimRecord
      BY <1>1, StoreAssumption
      DEF Absent, ClaimRecord, ClaimType, NoRelease, ReleaseType, InitialProgress, Assessment
    <3>2. now \in 0..MaxTimestamp /\ now + LeaseSeconds \in Int
      BY <2>1, GoodReading, StoreAssumption
    <3> QED
      BY <3>1, <3>2 DEF NewRecord, ClaimRecord
  <2>3. claims' \in [ClaimIds -> ClaimRecord]
    BY <1>1, <1>3, <2>2 DEF Claim, TypeOK, ClaimType
  <2>4. streams' \in [Streams -> 0..MaxSafe]
    <3>1. HasStream(c) => c.stream \in Streams /\ c.seq \in 0..MaxSafe
      BY <1>1, <2>1, StoreAssumption DEF StreamResult, StreamSequenceResult, HasStream, ClaimType
    <3> QED
      BY <1>3, <3>1 DEF Claim, TypeOK
  <2> QED
    BY <1>2, <2>3, <2>4 DEF Claim, TypeOK, switches
<1>4. CASE ClaimResult(c, ok) # "created"
  BY <1>2, <1>4 DEF Claim, TypeOK, switches
<1> QED
  BY <1>3, <1>4

(* finalize_v2_claim keeps the store well formed, the rate counters        *)
(* included.                                                               *)
LEMMA FinalizeTyped ==
  ASSUME TypeOK, NEW id \in ClaimIds, NEW token \in ClaimIds, NEW body \in Bodies,
         NEW terminal, NEW horizon \in Horizons, NEW ok \in BOOLEAN,
         Finalize(id, token, terminal, body, horizon, ok)
  PROVE  TypeOK'
<1>1. highWater' \in Int
  BY HighWaterForward DEF Finalize, OwnerReadsClock
<1>2. CASE FinalizeResult(id, token, terminal, body, horizon, ok) = "committed"
  <2>1. Committable(id, terminal, body, horizon)
    BY <1>2, FinalizeCommittable
  <2>2. now \in 0..MaxTimestamp
    BY <2>1, GoodReading DEF Committable
  <2>3. claims' \in [ClaimIds -> ClaimRecord] /\ outbox' \in Seq(Entry)
    BY <1>2, <2>1, CommitTyped DEF Finalize, Committable
  <2>4. rateCommits' \in [Counters -> Seq(0..MaxTimestamp)]
    <3>1. \A k \in Counters : /\ rateCommits[k] \in Seq(0..MaxTimestamp)
                              /\ Append(rateCommits[k], now) \in Seq(0..MaxTimestamp)
      BY <2>2 DEF TypeOK
    <3> QED
      BY <1>2, <3>1 DEF Finalize
  <2> QED
    BY <1>1, <2>3, <2>4 DEF Finalize, TypeOK, switches
<1>3. CASE FinalizeResult(id, token, terminal, body, horizon, ok) # "committed"
  BY <1>1, <1>3 DEF Finalize, TypeOK, switches
<1> QED
  BY <1>2, <1>3

(* record_v2_evaluation_progress keeps the store well formed.              *)
LEMMA RecordProgressTyped ==
  ASSUME TypeOK, NEW id \in ClaimIds, NEW token \in ClaimIds, NEW p \in Progresses,
         NEW ok \in BOOLEAN, RecordProgress(id, token, p, ok)
  PROVE  TypeOK'
<1>1. highWater' \in Int
  BY HighWaterForward DEF RecordProgress, OwnerReadsClock
<1>2. claims[id] \in ClaimRecord /\ p \in Assessment
  BY StoreAssumption DEF TypeOK
<1>3. [claims[id] EXCEPT !.progress = p] \in ClaimRecord
  BY <1>2 DEF ClaimRecord
<1>4. claims' \in [ClaimIds -> ClaimRecord]
  BY <1>3 DEF RecordProgress, TypeOK
<1> QED
  BY <1>1, <1>4 DEF RecordProgress, TypeOK, switches

(* recover_interrupted_v2_claim keeps the store well formed.               *)
LEMMA RecoverTyped ==
  ASSUME TypeOK, NEW id \in ClaimIds, NEW body \in Bodies, NEW terminal, NEW ok \in BOOLEAN,
         Recover(id, terminal, body, ok)
  PROVE  TypeOK'
<1>1. highWater' \in Int
  BY HighWaterForward DEF Recover
<1>2. CASE RecoverResult(id, terminal, body, ok) = "committed"
  <2>1. ClockOk /\ terminal \in Results /\ 0 \in 0..MaxTimestamp
    BY <1>2, RecoverCommittable, StoreAssumption
  <2>2. claims' \in [ClaimIds -> ClaimRecord] /\ outbox' \in Seq(Entry)
    BY <1>2, <2>1, CommitTyped DEF Recover
  <2> QED
    BY <1>1, <2>2 DEF Recover, TypeOK, switches
<1>3. CASE RecoverResult(id, terminal, body, ok) # "committed"
  BY <1>1, <1>3 DEF Recover, TypeOK, switches
<1> QED
  BY <1>2, <1>3

(* publish_v2_receipt keeps the store well formed: the position it appends *)
(* to is one the claim was assigned.                                       *)
LEMMA PublishTyped ==
  ASSUME TypeOK, NEW id \in ClaimIds, NEW body \in Bodies, NEW ok \in BOOLEAN,
         Publish(id, body, ok)
  PROVE  TypeOK'
<1> DEFINE log == Appended(claims[id].outboxIndex)
<1>1. claims[id].outboxIndex \in Nat
  BY DEF TypeOK, ClaimRecord
<1>2. log \in Seq(Entry) /\ AcknowledgePending(log) \in Seq(Entry)
  BY <1>1, AppendedTyped, AcknowledgePendingTyped
<1>3. outbox' \in Seq(Entry)
  BY <1>2 DEF Publish, TypeOK
<1>4. highWater' \in Int
  <2>1. highWater' \in {highWater, now}
    BY DEF Publish, ReadClockIf, HighWaterAfterRead
  <2> QED
    BY <2>1 DEF TypeOK
<1> QED
  BY <1>3, <1>4 DEF Publish, TypeOK, switches

(* set_acknowledgement_withheld, which may resubmit, keeps the store well  *)
(* formed.                                                                 *)
LEMMA SetAcknowledgementWithheldTyped ==
  ASSUME TypeOK, NEW withheld \in BOOLEAN, SetAcknowledgementWithheld(withheld)
  PROVE  TypeOK'
<1>1. outbox \in Seq(Entry) /\ AcknowledgePending(outbox) \in Seq(Entry)
  BY AcknowledgePendingTyped DEF TypeOK
<1>2. outbox' \in Seq(Entry)
  BY <1>1 DEF SetAcknowledgementWithheld
<1>3. highWater' \in Int
  <2>1. highWater' \in {highWater, now}
    BY DEF SetAcknowledgementWithheld, ReadClockIf, HighWaterAfterRead
  <2> QED
    BY <2>1 DEF TypeOK
<1> QED
  BY <1>2, <1>3 DEF SetAcknowledgementWithheld, TypeOK

(* acknowledge_v2_receipt keeps the store well formed.                     *)
LEMMA AcknowledgeReceiptTyped ==
  ASSUME TypeOK, NEW seq \in Int, NEW previous, NEW hash,
         AcknowledgeReceipt(seq, previous, hash)
  PROVE  TypeOK'
<1>1. CASE AcknowledgeResult(seq, previous, hash) = "acknowledged"
  <2>1. seq \in 1..Len(outbox) /\ ClockOk
    BY <1>1 DEF AcknowledgeResult, ClockOk, ClockReading
  <2>2. now \in 0..MaxTimestamp
    BY <2>1, GoodReading
  <2>3. outbox \in Seq(Entry) /\ outbox[seq] \in Entry
    BY <2>1, ElementOfSeq DEF TypeOK
  <2>4. [outbox[seq] EXCEPT !.ack = now] \in Entry
    BY <2>2, <2>3 DEF Entry
  <2>5. outbox' \in Seq(Entry)
    BY <1>1, <2>1, <2>3, <2>4, ExceptSeq DEF AcknowledgeReceipt
  <2>6. highWater' \in Int
    BY <1>1, HighWaterForward DEF AcknowledgeReceipt
  <2> QED
    BY <2>5, <2>6 DEF AcknowledgeReceipt, TypeOK
<1>2. CASE AcknowledgeResult(seq, previous, hash) # "acknowledged"
  BY <1>2 DEF AcknowledgeReceipt, TypeOK
<1> QED
  BY <1>1, <1>2

(* abandon_pending_receipts keeps the store well formed.                   *)
LEMMA AbandonTyped ==
  ASSUME TypeOK, NEW ok \in BOOLEAN, AbandonPendingReceipts(ok)
  PROVE  TypeOK'
<1>1. ASSUME NEW id \in ClaimIds
      PROVE  [claims[id] EXCEPT !.abandoned = TRUE] \in ClaimRecord
  <2>1. claims[id] \in ClaimRecord
    BY DEF TypeOK
  <2> QED
    BY <2>1 DEF ClaimRecord
<1>2. claims' \in [ClaimIds -> ClaimRecord]
  BY <1>1 DEF AbandonPendingReceipts, TypeOK
<1> QED
  BY <1>2 DEF AbandonPendingReceipts, TypeOK, clockVars

(* The release records callers present are well formed.                    *)
LEMMA ReleasesTyped ==
  ASSUME TypeOK
  PROVE  Releases \subseteq ReleaseType
<1>1. highWater \in Int
  BY DEF TypeOK
<1>2. ASSUME NEW t \in Int, NEW o \in {"released", "pending", "withheld"},
             NEW r \in WithheldReasons \cup {"none"}
      PROVE  [entryHash |-> 1, ackTimestamp |-> t, outcome |-> o, reason |-> r] \in ReleaseType
  BY <1>2 DEF ReleaseType, Outcomes
<1>3. \A rel \in [entryHash : {1}, ackTimestamp : {0}, outcome : {"withheld"},
                  reason : {"clock_regressed", "challenge_expired"}] : rel \in ReleaseType
  BY DEF ReleaseType, Outcomes, WithheldReasons
<1> QED
  BY <1>1, <1>2, <1>3 DEF Releases

(* record_v2_release keeps the store well formed.                          *)
LEMMA RecordReleaseTyped ==
  ASSUME TypeOK, NEW id \in ClaimIds, NEW rel \in ReleaseType, NEW ok \in BOOLEAN,
         RecordRelease(id, rel, ok)
  PROVE  TypeOK'
<1>1. claims[id] \in ClaimRecord
  BY DEF TypeOK
<1>2. [claims[id] EXCEPT !.release = rel] \in ClaimRecord
  BY <1>1 DEF ClaimRecord
<1>3. claims' \in [ClaimIds -> ClaimRecord]
  BY <1>2 DEF RecordRelease, TypeOK
<1> QED
  BY <1>3 DEF RecordRelease, TypeOK, clockVars, switches

(* Every method keeps the store well formed.                               *)
LEMMA NextTyped == TypeOK /\ [Next]_storeVars => TypeOK'
<1> SUFFICES ASSUME TypeOK, [Next]_storeVars PROVE TypeOK'
  OBVIOUS
<1>1. CASE ClockStep
  <2>1. ASSUME NEW t \in ClockSettings, SetTime(t) PROVE TypeOK'
    BY <2>1, StoreAssumption DEF SetTime, TypeOK, switches
  <2>2. CASE AuthoritativeTime
    BY <2>2, HighWaterForward DEF AuthoritativeTime, TypeOK, switches
  <2> QED
    BY <1>1, <2>1, <2>2 DEF ClockStep
<1>2. CASE ClaimStep
  BY <1>2, ClaimTyped DEF ClaimStep
<1>3. CASE FinalizeStep
  BY <1>3, FinalizeTyped DEF FinalizeStep, Anchoring
<1>4. CASE ProgressStep
  BY <1>4, RecordProgressTyped DEF ProgressStep, Anchoring
<1>5. CASE RecoveryStep
  <2>1. ASSUME NEW id \in ClaimIds, LoadInterrupted(id) \/ LoadCommitted(id) PROVE TypeOK'
    BY <2>1, HighWaterForward DEF LoadInterrupted, LoadCommitted, TypeOK, switches
  <2> QED
    BY <1>5, <2>1, RecoverTyped DEF RecoveryStep, Anchoring
<1>6. CASE PublishStep
  BY <1>6, PublishTyped DEF PublishStep, Anchoring
<1>7. CASE CheckpointStep
  BY <1>7, AcknowledgeReceiptTyped, SetAcknowledgementWithheldTyped DEF CheckpointStep
<1>8. CASE SignerStep
  BY <1>8 DEF SignerStep, SetSignerFailure, TypeOK, clockVars
<1>9. CASE AbandonStep
  BY <1>9, AbandonTyped DEF AbandonStep, Anchoring
<1>10. CASE ReleaseStep
  BY <1>10, RecordReleaseTyped, ReleasesTyped DEF ReleaseStep, Anchoring
<1>11. CASE UNCHANGED storeVars
  BY <1>11 DEF storeVars, clockVars, switches, TypeOK
<1> QED
  BY <1>1, <1>2, <1>3, <1>4, <1>5, <1>6, <1>7, <1>8, <1>9, <1>10, <1>11 DEF Next

(* Whatever callers present and however the clock is set, every record,    *)
(* log entry, stream position and rate commit of the store stays well      *)
(* formed, and every stored time lies in the timestamp domain.             *)
THEOREM TypeCorrect == Spec => []TypeOK
<1>1. Init => TypeOK
  BY InitTyped
<1>2. TypeOK /\ [Next]_storeVars => TypeOK'
  BY NextTyped
<1> QED
  BY <1>1, <1>2, PTL DEF Spec

-----------------------------------------------------------------------------
(* The receipt log.  No invariant of the log is inductive alone: that a    *)
(* publication keeps the order needs the position of its claim, that an    *)
(* abandonment marks terminal claims only needs that every entry belongs   *)
(* to one, and that the mark of an abandoned claim is final needs both.    *)

(* Only a terminal claim has a release record.                             *)
ReleasedTerminal == \A id \in ClaimIds : claims[id].release # NoRelease => Terminal(id)

StoreInv == /\ TypeOK
            /\ OneEntryPerTerminalClaim
            /\ LogInOrder
            /\ AbandonedNeverAppended
            /\ ReleasedTerminal

(* The log as a sequence of well-formed entries.                           *)
LEMMA LogShape ==
  ASSUME TypeOK
  PROVE  /\ outbox \in Seq(Entry) /\ Len(outbox) \in Nat /\ DOMAIN outbox = 1..Len(outbox)
         /\ \A i \in 1..Len(outbox) : outbox[i] \in Entry
BY LenProperties, ElementOfSeq DEF TypeOK

(* A step that neither commits a claim nor adds, removes or exchanges log  *)
(* entries keeps claims and entries matched.                               *)
KeepsMatch ==
  /\ \A id \in ClaimIds :
       /\ Terminal(id)' <=> Terminal(id)
       /\ Terminal(id) => /\ claims'[id].outboxIndex = claims[id].outboxIndex
                          /\ claims'[id].receiptBody = claims[id].receiptBody
  /\ Len(outbox') = Len(outbox)
  /\ \A i \in 1..Len(outbox) : /\ outbox'[i].claimId = outbox[i].claimId
                               /\ outbox'[i].body = outbox[i].body

(* Claims and log still match when the log keeps the claim and the body of *)
(* every entry and the claims keep their terminal facts.                   *)
LEMMA MatchKept ==
  ASSUME TypeOK, TypeOK', OneEntryPerTerminalClaim, KeepsMatch
  PROVE  OneEntryPerTerminalClaim'
<1>1. DOMAIN outbox = 1..Len(outbox) /\ DOMAIN outbox' = 1..Len(outbox)
  BY LogShape, LenProperties DEF TypeOK, KeepsMatch
<1>2. \A i \in 1..Len(outbox) : outbox[i].claimId \in ClaimIds
  BY LogShape DEF Entry
<1>3. ASSUME NEW id \in ClaimIds, Terminal(id)'
      PROVE  /\ claims'[id].outboxIndex \in DOMAIN outbox'
             /\ outbox'[claims'[id].outboxIndex].claimId = id
             /\ outbox'[claims'[id].outboxIndex].body = claims'[id].receiptBody
  BY <1>1, <1>3 DEF OneEntryPerTerminalClaim, KeepsMatch
<1>4. ASSUME NEW i \in DOMAIN outbox'
      PROVE  /\ claims'[outbox'[i].claimId].state = "terminal"
             /\ claims'[outbox'[i].claimId].outboxIndex = i
  <2>1. Terminal(outbox[i].claimId) /\ claims[outbox[i].claimId].outboxIndex = i
    BY <1>1 DEF OneEntryPerTerminalClaim
  <2>2. outbox'[i].claimId = outbox[i].claimId
    BY <1>1 DEF KeepsMatch
  <2> QED
    BY <1>1, <1>2, <2>1, <2>2 DEF KeepsMatch, Terminal
<1> QED
  BY <1>3, <1>4 DEF OneEntryPerTerminalClaim, Terminal

(* What commit_terminal_locked changes, and what it leaves alone.          *)
CommitDelta(id, terminal, body, horizon) ==
  /\ Len(outbox') = Len(outbox) + 1 /\ DOMAIN outbox' = 1..(Len(outbox) + 1)
  /\ \A i \in 1..Len(outbox) : outbox'[i] = outbox[i]
  /\ outbox'[Len(outbox) + 1] = [claimId |-> id, body |-> body, published |-> FALSE,
                                 digest |-> 0, ack |-> NoAck]
  /\ \A other \in ClaimIds \ {id} : claims'[other] = claims[other]
  /\ claims'[id].state = "terminal" /\ claims'[id].terminal = terminal
  /\ claims'[id].receiptBody = body /\ claims'[id].allowHorizon = horizon
  /\ claims'[id].finalizedAt = now /\ claims'[id].outboxIndex = Len(outbox) + 1
  /\ claims'[id].release = claims[id].release
  /\ claims'[id].abandoned = claims[id].abandoned
  /\ claims'[id].progress = claims[id].progress
  /\ ClaimFacts(claims'[id]) = ClaimFacts(claims[id])

(* What commit_terminal_locked does to each claim and to each position of  *)
(* the log.                                                                *)
LEMMA CommitEffect ==
  ASSUME TypeOK, NEW id \in ClaimIds, NEW terminal, NEW body, NEW horizon,
         CommitTerminal(id, terminal, body, horizon)
  PROVE  CommitDelta(id, terminal, body, horizon)
<1>1. outbox \in Seq(Entry) /\ Len(outbox) \in Nat
  BY LogShape
<1>2. /\ Len(outbox') = Len(outbox) + 1 /\ DOMAIN outbox' = 1..(Len(outbox) + 1)
      /\ \A i \in 1..Len(outbox) : outbox'[i] = outbox[i]
      /\ outbox'[Len(outbox) + 1] = [claimId |-> id, body |-> body, published |-> FALSE,
                                     digest |-> 0, ack |-> NoAck]
  BY <1>1 DEF CommitTerminal
<1>3. claims \in [ClaimIds -> ClaimRecord] /\ claims[id] \in ClaimRecord
  BY DEF TypeOK
<1>4. claims' = [claims EXCEPT ![id] =
                  [claims[id] EXCEPT !.state = "terminal", !.terminal = terminal,
                     !.receiptBody = body, !.allowHorizon = horizon,
                     !.finalizedAt = now, !.outboxIndex = Len(outbox) + 1]]
  BY DEF CommitTerminal
<1>5. \A other \in ClaimIds \ {id} : claims'[other] = claims[other]
  BY <1>3, <1>4
<1>6. claims'[id] = [claims[id] EXCEPT !.state = "terminal", !.terminal = terminal,
                       !.receiptBody = body, !.allowHorizon = horizon,
                       !.finalizedAt = now, !.outboxIndex = Len(outbox) + 1]
  BY <1>3, <1>4
<1> QED
  BY <1>2, <1>3, <1>5, <1>6 DEF CommitDelta, ClaimFacts, ClaimRecord

(* A commit of an evaluating claim adds its entry at the end of the log.   *)
LEMMA CommitKeepsStore ==
  ASSUME StoreInv, NEW id \in ClaimIds, NEW terminal \in Results, NEW body \in Bodies,
         NEW horizon \in 0..MaxTimestamp, claims[id].state = "evaluating",
         CommitTerminal(id, terminal, body, horizon), UNCHANGED logFrozen
  PROVE  /\ OneEntryPerTerminalClaim' /\ LogInOrder'
         /\ AbandonedNeverAppended' /\ ReleasedTerminal'
<1> USE DEF StoreInv
<1>0. CommitDelta(id, terminal, body, horizon)
  BY CommitEffect
<1>1. /\ outbox \in Seq(Entry) /\ Len(outbox) \in Nat /\ DOMAIN outbox = 1..Len(outbox)
      /\ \A i \in 1..Len(outbox) : outbox[i] \in Entry
  BY LogShape
<1>2. /\ DOMAIN outbox' = 1..(Len(outbox) + 1)
      /\ \A i \in 1..Len(outbox) : outbox'[i] = outbox[i]
      /\ outbox'[Len(outbox) + 1].claimId = id /\ outbox'[Len(outbox) + 1].body = body
      /\ ~outbox'[Len(outbox) + 1].published /\ outbox'[Len(outbox) + 1].ack = NoAck
  BY <1>0 DEF CommitDelta
<1>3. /\ \A other \in ClaimIds \ {id} : claims'[other] = claims[other]
      /\ claims'[id].state = "terminal" /\ claims'[id].receiptBody = body
      /\ claims'[id].outboxIndex = Len(outbox) + 1
      /\ claims'[id].release = claims[id].release
      /\ claims'[id].abandoned = claims[id].abandoned
  BY <1>0 DEF CommitDelta
<1>4. ~claims[id].abandoned
  BY DEF AbandonedNeverAppended, Terminal
<1>5. \A i \in 1..Len(outbox) : outbox[i].claimId \in ClaimIds \ {id}
  <2> SUFFICES ASSUME NEW i \in 1..Len(outbox) PROVE outbox[i].claimId \in ClaimIds \ {id}
    OBVIOUS
  <2>1. Terminal(outbox[i].claimId)
    BY <1>1 DEF OneEntryPerTerminalClaim
  <2> QED
    BY <1>1, <2>1 DEF Terminal, Entry
<1>6. OneEntryPerTerminalClaim'
  <2>1. ASSUME NEW x \in ClaimIds, claims'[x].state = "terminal"
        PROVE  /\ claims'[x].outboxIndex \in DOMAIN outbox'
               /\ outbox'[claims'[x].outboxIndex].claimId = x
               /\ outbox'[claims'[x].outboxIndex].body = claims'[x].receiptBody
    <3>1. CASE x = id
      BY <1>1, <1>2, <1>3, <3>1
    <3>2. CASE x # id
      <4>1. claims'[x] = claims[x] /\ Terminal(x)
        BY <1>3, <2>1, <3>2 DEF Terminal
      <4>2. claims[x].outboxIndex \in 1..Len(outbox)
        BY <1>1, <4>1 DEF OneEntryPerTerminalClaim
      <4> QED
        BY <1>1, <1>2, <4>1, <4>2 DEF OneEntryPerTerminalClaim
    <3> QED
      BY <3>1, <3>2
  <2>2. ASSUME NEW i \in DOMAIN outbox'
        PROVE  /\ claims'[outbox'[i].claimId].state = "terminal"
               /\ claims'[outbox'[i].claimId].outboxIndex = i
    <3>1. CASE i = Len(outbox) + 1
      BY <1>2, <1>3, <3>1
    <3>2. CASE i \in 1..Len(outbox)
      <4>1. /\ outbox'[i].claimId = outbox[i].claimId
            /\ claims'[outbox[i].claimId] = claims[outbox[i].claimId]
        BY <1>2, <1>3, <1>5, <3>2
      <4> QED
        BY <1>1, <3>2, <4>1 DEF OneEntryPerTerminalClaim, Terminal
    <3> QED
      BY <1>1, <1>2, <3>1, <3>2
  <2> QED
    BY <2>1, <2>2 DEF OneEntryPerTerminalClaim, Terminal
<1>7. LogInOrder'
  BY <1>1, <1>2 DEF LogInOrder, InOrder
<1>8. AbandonedNeverAppended'
  <2> SUFFICES ASSUME NEW x \in ClaimIds, claims'[x].abandoned
               PROVE  /\ claims'[x].state = "terminal" /\ logFrozen'
                      /\ ~outbox'[claims'[x].outboxIndex].published
    BY DEF AbandonedNeverAppended, Terminal
  <2>1. claims'[x] = claims[x] /\ claims[x].abandoned
    BY <1>3, <1>4
  <2>2. Terminal(x) /\ logFrozen /\ ~outbox[claims[x].outboxIndex].published
    BY <2>1 DEF AbandonedNeverAppended
  <2>3. claims[x].outboxIndex \in 1..Len(outbox)
    BY <1>1, <2>2 DEF OneEntryPerTerminalClaim
  <2> QED
    BY <1>2, <2>1, <2>2, <2>3 DEF Terminal
<1>9. ReleasedTerminal'
  BY <1>3 DEF ReleasedTerminal, Terminal
<1> QED
  BY <1>6, <1>7, <1>8, <1>9

(* A step that leaves the log alone and changes claims without committing, *)
(* abandoning or, unless they are terminal, releasing them.                *)
KeepsClaims ==
  /\ UNCHANGED <<outbox, logFrozen>>
  /\ \A x \in ClaimIds :
       /\ Terminal(x)' <=> Terminal(x)
       /\ Terminal(x) => /\ claims'[x].outboxIndex = claims[x].outboxIndex
                         /\ claims'[x].receiptBody = claims[x].receiptBody
       /\ claims'[x].abandoned => claims[x].abandoned
       /\ claims'[x].release # NoRelease => Terminal(x)

(* The store invariant survives a step that changes claims but neither the *)
(* log nor what the log matches.                                           *)
LEMMA KeptClaims ==
  ASSUME StoreInv, TypeOK', KeepsClaims
  PROVE  StoreInv'
<1> USE DEF StoreInv
<1>1. OneEntryPerTerminalClaim'
  BY MatchKept DEF KeepsClaims, KeepsMatch
<1>2. LogInOrder'
  BY DEF KeepsClaims, LogInOrder, InOrder
<1>3. AbandonedNeverAppended'
  BY DEF KeepsClaims, AbandonedNeverAppended, Terminal
<1>4. ReleasedTerminal'
  BY DEF KeepsClaims, ReleasedTerminal, Terminal
<1> QED
  BY <1>1, <1>2, <1>3, <1>4

(* A step that leaves the claims alone and rewrites entries in place, in   *)
(* order, without appending to a frozen log.                               *)
KeepsLog ==
  /\ UNCHANGED <<claims, logFrozen>>
  /\ Len(outbox') = Len(outbox)
  /\ \A i \in 1..Len(outbox) :
       /\ outbox'[i].claimId = outbox[i].claimId /\ outbox'[i].body = outbox[i].body
       /\ logFrozen => outbox'[i].published = outbox[i].published
  /\ LogInOrder'

(* The store invariant survives a step that changes the log but no claim,  *)
(* when the log stays in order and no abandoned entry is appended.         *)
LEMMA KeptLog ==
  ASSUME StoreInv, TypeOK', KeepsLog
  PROVE  StoreInv'
<1> USE DEF StoreInv
<1>1. OneEntryPerTerminalClaim'
  BY MatchKept DEF KeepsLog, KeepsMatch, Terminal
<1>2. AbandonedNeverAppended'
  <2> SUFFICES ASSUME NEW x \in ClaimIds, claims[x].abandoned
               PROVE  /\ claims[x].state = "terminal" /\ logFrozen
                      /\ ~outbox'[claims[x].outboxIndex].published
    BY DEF KeepsLog, AbandonedNeverAppended, Terminal
  <2>1. Terminal(x) /\ logFrozen /\ ~outbox[claims[x].outboxIndex].published
    BY DEF AbandonedNeverAppended
  <2>2. claims[x].outboxIndex \in 1..Len(outbox)
    BY <2>1, LogShape DEF OneEntryPerTerminalClaim
  <2> QED
    BY <2>1, <2>2 DEF KeepsLog, Terminal
<1>3. ReleasedTerminal'
  BY DEF KeepsLog, ReleasedTerminal, Terminal
<1> QED
  BY <1>1, <1>2, <1>3 DEF KeepsLog

(* One submission of everything pending keeps the log in order.            *)
LEMMA AcknowledgePendingInOrder ==
  ASSUME TypeOK, NEW log \in Seq(Entry), InOrder(log)
  PROVE  InOrder(AcknowledgePending(log))
<1> DEFINE new == AcknowledgePending(log)
<1> SUFFICES InOrder(new)
  OBVIOUS
<1>1. /\ Len(log) \in Nat /\ DOMAIN log = 1..Len(log) /\ DOMAIN new = 1..Len(log)
      /\ \A i \in 1..Len(log) : log[i] \in Entry
  BY AcknowledgePendingTyped, LenProperties, ElementOfSeq
<1>2. ASSUME NEW i \in 1..Len(log)
      PROVE  new[i].published <=> log[i].published
  <2>1. /\ log[i] \in Entry
        /\ new[i] = IF i \in Pending(log) /\ ~checkpointFrozen /\ ClockOk
                    THEN [log[i] EXCEPT !.ack = now] ELSE log[i]
    BY <1>1, AcknowledgePendingTyped
  <2> HIDE DEF new
  <2> QED
    BY <2>1 DEF Entry
<1>3. CASE ~(~checkpointFrozen /\ ClockOk)
  <2>1. \A i \in 1..Len(log) : new[i] = log[i]
    BY <1>3, AcknowledgePendingTyped
  <2> HIDE DEF new
  <2> QED
    BY <1>1, <2>1 DEF InOrder
<1>4. CASE ~checkpointFrozen /\ ClockOk
  <2>1. ASSUME NEW i \in 1..Len(log)
        PROVE  new[i].ack # NoAck <=> (log[i].ack # NoAck \/ i \in Pending(log))
    <3>1. /\ log[i] \in Entry /\ now \in 0..MaxTimestamp
          /\ new[i] = IF i \in Pending(log) THEN [log[i] EXCEPT !.ack = now] ELSE log[i]
      BY <1>1, <1>4, AcknowledgePendingTyped, GoodReading
    <3> HIDE DEF new
    <3> QED
      BY <3>1, StoreAssumption DEF Entry, NoAck
  <2>2. ASSUME NEW j \in 1..Len(log), NEW i \in 1..(j - 1),
               log[j].ack # NoAck \/ j \in Pending(log)
        PROVE  log[i].ack # NoAck \/ i \in Pending(log)
    <3>1. j \in DOMAIN log /\ i \in DOMAIN log /\ 1..i \subseteq 1..j
      BY <1>1
    <3>2. CASE log[j].ack # NoAck
      BY <3>1, <3>2 DEF InOrder
    <3>3. CASE j \in Pending(log)
      BY <3>1, <3>3 DEF Pending
    <3> QED
      BY <2>2, <3>2, <3>3
  <2>3. \A j \in 1..Len(log) : j \in Pending(log) => log[j].published
    BY DEF Pending
  <2> HIDE DEF new
  <2>4. ASSUME NEW j \in 1..Len(log)
        PROVE  /\ new[j].ack # NoAck => new[j].published
               /\ \A i \in 1..(j - 1) : /\ new[j].published => new[i].published
                                        /\ new[j].ack # NoAck => new[i].ack # NoAck
    <3>1. \A i \in 1..(j - 1) : i \in 1..Len(log)
      BY <1>1
    <3>2. /\ log[j].ack # NoAck => log[j].published
          /\ \A i \in 1..(j - 1) : log[j].published => log[i].published
      BY <1>1 DEF InOrder
    <3> QED
      BY <1>2, <2>1, <2>2, <2>3, <3>1, <3>2
  <2> QED
    BY <1>1, <2>4 DEF InOrder
<1> QED
  BY <1>3, <1>4

(* The entries a submission leaves alone, and what it keeps of the others. *)
LEMMA AcknowledgePendingKeeps ==
  ASSUME TypeOK, NEW log \in Seq(Entry), NEW i \in 1..Len(log)
  PROVE  /\ AcknowledgePending(log)[i].claimId = log[i].claimId
         /\ AcknowledgePending(log)[i].body = log[i].body
         /\ AcknowledgePending(log)[i].published = log[i].published
         /\ AcknowledgePending(log)[i].digest = log[i].digest
<1>1. log[i] \in Entry
  BY ElementOfSeq
<1>2. AcknowledgePending(log)[i] = IF i \in Pending(log) /\ ~checkpointFrozen /\ ClockOk
                                   THEN [log[i] EXCEPT !.ack = now] ELSE log[i]
  BY AcknowledgePendingTyped
<1> QED
  BY <1>1, <1>2 DEF Entry

(* Appending the entry after the last appended one keeps the log in order. *)
LEMMA AppendedInOrder ==
  ASSUME TypeOK, LogInOrder, NEW n \in 1..Len(outbox),
         ~(n > 1 /\ ~outbox[n - 1].published), ~outbox[n].published
  PROVE  InOrder(Appended(n))
<1> DEFINE new == Appended(n)
<1> SUFFICES InOrder(new)
  OBVIOUS
<1>1. /\ Len(outbox) \in Nat /\ DOMAIN outbox = 1..Len(outbox)
      /\ \A i \in 1..Len(outbox) : outbox[i] \in Entry
      /\ n \in Nat
  BY LogShape
<1>2. /\ DOMAIN new = 1..Len(outbox)
      /\ \A j \in 1..Len(outbox) : new[j] =
           IF j = n THEN [outbox[n] EXCEPT !.published = TRUE, !.digest = n] ELSE outbox[j]
  BY <1>1, AppendedTyped, LenProperties
<1> HIDE DEF new
<1>3. ASSUME NEW j \in 1..Len(outbox)
      PROVE  /\ new[j].ack = outbox[j].ack
             /\ new[j].published <=> (j = n \/ outbox[j].published)
  <2>1. outbox[j] \in Entry /\ outbox[n] \in Entry
    BY <1>1
  <2>2. new[j] = IF j = n THEN [outbox[n] EXCEPT !.published = TRUE, !.digest = n]
                          ELSE outbox[j]
    BY <1>2
  <2> QED
    BY <2>1, <2>2 DEF Entry
<1>4. ASSUME NEW i \in 1..(n - 1) PROVE outbox[i].published
  <2>1. n - 1 \in DOMAIN outbox /\ outbox[n - 1].published
    BY <1>1
  <2> QED
    BY <1>1, <2>1 DEF LogInOrder, InOrder
<1>5. ASSUME NEW j \in 1..Len(outbox)
      PROVE  /\ new[j].ack # NoAck => new[j].published
             /\ \A i \in 1..(j - 1) : /\ new[j].published => new[i].published
                                      /\ new[j].ack # NoAck => new[i].ack # NoAck
  <2>1. \A i \in 1..(j - 1) : i \in 1..Len(outbox)
    BY <1>1
  <2>2. /\ outbox[j].ack # NoAck => outbox[j].published
        /\ \A i \in 1..(j - 1) : /\ outbox[j].published => outbox[i].published
                                 /\ outbox[j].ack # NoAck => outbox[i].ack # NoAck
    BY <1>1 DEF LogInOrder, InOrder
  <2> QED
    BY <1>3, <1>4, <2>1, <2>2
<1> QED
  BY <1>2, <1>5 DEF InOrder

(* publish_v2_receipt keeps the store invariant: it appends only behind an *)
(* appended predecessor, and never in a frozen log.                        *)
LEMMA PublishKeepsStore ==
  ASSUME StoreInv, TypeOK', NEW id \in ClaimIds, NEW body \in Bodies, NEW ok \in BOOLEAN,
         Publish(id, body, ok)
  PROVE  StoreInv'
<1> USE DEF StoreInv
<1> DEFINE n == claims[id].outboxIndex
           log == Appended(n)
<1>1. CASE PublishResult(id, body, ok) # "appended"
  <2>1. KeepsLog
    BY <1>1 DEF Publish, KeepsLog, LogInOrder, InOrder, switches
  <2> QED
    BY <2>1, KeptLog
<1>2. CASE PublishResult(id, body, ok) = "appended"
  <2>1. /\ Terminal(id) /\ ~logFrozen /\ ~outbox[n].published
        /\ ~(n > 1 /\ ~outbox[n - 1].published)
    BY <1>2 DEF PublishResult, Terminal
  <2>2. n \in 1..Len(outbox) /\ n \in Nat
    BY <2>1, LogShape DEF OneEntryPerTerminalClaim
  <2>3. log \in Seq(Entry) /\ Len(log) = Len(outbox) /\ InOrder(log)
    BY <2>1, <2>2, AppendedTyped, AppendedInOrder
  <2>4. ASSUME NEW i \in 1..Len(outbox)
        PROVE  log[i].claimId = outbox[i].claimId /\ log[i].body = outbox[i].body
    <3>1. outbox[i] \in Entry /\ outbox[n] \in Entry
      BY <2>2, LogShape
    <3>2. log[i] = IF i = n THEN [outbox[n] EXCEPT !.published = TRUE, !.digest = n]
                            ELSE outbox[i]
      BY <2>2, AppendedTyped
    <3> HIDE DEF log, n
    <3> QED
      BY <3>1, <3>2 DEF Entry
  <2>5. outbox' = IF ackWithheld THEN log ELSE AcknowledgePending(log)
    BY <1>2 DEF Publish
  <2> HIDE DEF log
  <2>6. /\ Len(outbox') = Len(outbox) /\ InOrder(outbox')
        /\ \A i \in 1..Len(outbox) : /\ outbox'[i].claimId = outbox[i].claimId
                                     /\ outbox'[i].body = outbox[i].body
    <3>1. CASE ackWithheld
      BY <2>3, <2>4, <2>5, <3>1
    <3>2. CASE ~ackWithheld
      BY <2>3, <2>4, <2>5, <3>2, AcknowledgePendingTyped, AcknowledgePendingInOrder,
         AcknowledgePendingKeeps
    <3> QED
      BY <3>1, <3>2
  <2>7. LogInOrder'
    BY <2>6 DEF LogInOrder, InOrder
  <2>8. KeepsLog
    BY <2>1, <2>6, <2>7 DEF Publish, KeepsLog, switches
  <2> QED
    BY <2>8, KeptLog
<1> QED
  BY <1>1, <1>2

(* Resubmission keeps the store invariant.                                 *)
LEMMA SetAcknowledgementWithheldKeepsStore ==
  ASSUME StoreInv, TypeOK', NEW withheld \in BOOLEAN, SetAcknowledgementWithheld(withheld)
  PROVE  StoreInv'
<1> USE DEF StoreInv
<1>1. outbox \in Seq(Entry) /\ InOrder(outbox)
  BY DEF TypeOK, LogInOrder
<1>2. /\ Len(outbox') = Len(outbox) /\ InOrder(outbox')
      /\ \A i \in 1..Len(outbox) : /\ outbox'[i].claimId = outbox[i].claimId
                                   /\ outbox'[i].body = outbox[i].body
                                   /\ outbox'[i].published = outbox[i].published
  <2>1. CASE withheld
    BY <1>1, <2>1 DEF SetAcknowledgementWithheld
  <2>2. CASE ~withheld
    BY <1>1, <2>2, AcknowledgePendingTyped, AcknowledgePendingInOrder, AcknowledgePendingKeeps
    DEF SetAcknowledgementWithheld
  <2> QED
    BY <2>1, <2>2
<1>3. LogInOrder'
  BY <1>2 DEF LogInOrder, InOrder
<1>4. KeepsLog
  BY <1>2, <1>3 DEF SetAcknowledgementWithheld, KeepsLog
<1> QED
  BY <1>4, KeptLog

(* acknowledge_v2_receipt keeps the store invariant: it acknowledges only  *)
(* behind an acknowledged predecessor.                                     *)
LEMMA AcknowledgeReceiptKeepsStore ==
  ASSUME StoreInv, TypeOK', NEW seq \in Int, NEW previous, NEW hash,
         AcknowledgeReceipt(seq, previous, hash)
  PROVE  StoreInv'
<1> USE DEF StoreInv
<1>1. /\ outbox \in Seq(Entry) /\ Len(outbox) \in Nat /\ DOMAIN outbox = 1..Len(outbox)
      /\ \A i \in 1..Len(outbox) : outbox[i] \in Entry
  BY LogShape
<1>2. CASE AcknowledgeResult(seq, previous, hash) # "acknowledged"
  <2>1. KeepsLog
    BY <1>2 DEF AcknowledgeReceipt, KeepsLog, LogInOrder, InOrder
  <2> QED
    BY <2>1, KeptLog
<1>3. CASE AcknowledgeResult(seq, previous, hash) = "acknowledged"
  <2>1. /\ seq \in 1..Len(outbox) /\ ClockOk /\ outbox[seq].published
        /\ ~(seq > 1 /\ outbox[seq - 1].ack = NoAck)
    BY <1>3 DEF AcknowledgeResult, ClockOk, ClockReading
  <2>2. outbox' = [outbox EXCEPT ![seq] = [outbox[seq] EXCEPT !.ack = now]]
    BY <1>3 DEF AcknowledgeReceipt
  <2>3. /\ DOMAIN outbox' = 1..Len(outbox) /\ Len(outbox') = Len(outbox)
        /\ \A i \in 1..Len(outbox) : outbox'[i] =
             IF i = seq THEN [outbox[seq] EXCEPT !.ack = now] ELSE outbox[i]
    BY <1>1, <2>1, <2>2
  <2>4. ASSUME NEW i \in 1..Len(outbox)
        PROVE  /\ outbox'[i].claimId = outbox[i].claimId /\ outbox'[i].body = outbox[i].body
               /\ outbox'[i].published = outbox[i].published
               /\ i # seq => outbox'[i].ack = outbox[i].ack
               /\ outbox'[seq].ack # NoAck
    <3>1. now \in 0..MaxTimestamp /\ outbox[i] \in Entry /\ outbox[seq] \in Entry
      BY <1>1, <2>1, GoodReading
    <3> QED
      BY <2>1, <2>3, <3>1, StoreAssumption DEF Entry, NoAck
  <2>5. ASSUME NEW i \in 1..(seq - 1) PROVE outbox[i].ack # NoAck
    <3>1. seq - 1 \in DOMAIN outbox /\ outbox[seq - 1].ack # NoAck
      BY <1>1, <2>1
    <3> QED
      BY <1>1, <3>1 DEF LogInOrder, InOrder
  <2>6. ASSUME NEW j \in 1..Len(outbox)
        PROVE  /\ outbox'[j].ack # NoAck => outbox'[j].published
               /\ \A i \in 1..(j - 1) : /\ outbox'[j].published => outbox'[i].published
                                        /\ outbox'[j].ack # NoAck => outbox'[i].ack # NoAck
    <3>1. \A i \in 1..(j - 1) : i \in 1..Len(outbox)
      BY <1>1
    <3>2. /\ outbox[j].ack # NoAck => outbox[j].published
          /\ \A i \in 1..(j - 1) : /\ outbox[j].published => outbox[i].published
                                   /\ outbox[j].ack # NoAck => outbox[i].ack # NoAck
      BY <1>1 DEF LogInOrder, InOrder
    <3> QED
      BY <2>1, <2>4, <2>5, <3>1, <3>2
  <2>7. LogInOrder'
    BY <2>3, <2>6 DEF LogInOrder, InOrder
  <2>8. KeepsLog
    BY <2>3, <2>4, <2>7 DEF AcknowledgeReceipt, KeepsLog
  <2> QED
    BY <2>8, KeptLog
<1> QED
  BY <1>2, <1>3

(* claim_v2 creates a record only where there is none.                     *)
LEMMA CreatedFresh ==
  ASSUME TypeOK, NEW c \in Claims, NEW ok \in BOOLEAN, ClaimResult(c, ok) = "created"
  PROVE  c.id \in ClaimIds /\ claims[c.id].state = "absent"
BY StoreAssumption DEF ClaimResult, ClaimType, StreamResult, StreamSequenceResult

(* claim_v2 keeps the store invariant: a new claim is neither terminal nor *)
(* abandoned nor released.                                                 *)
LEMMA ClaimKeepsStore ==
  ASSUME StoreInv, TypeOK', NEW c \in Claims, NEW ok \in BOOLEAN, Claim(c, ok)
  PROVE  StoreInv'
<1> USE DEF StoreInv
<1>1. CASE ClaimResult(c, ok) # "created"
  <2>1. KeepsClaims
    BY <1>1 DEF Claim, KeepsClaims, ReleasedTerminal, Terminal, switches
  <2> QED
    BY <2>1, KeptClaims
<1>2. CASE ClaimResult(c, ok) = "created"
  <2>1. c.id \in ClaimIds /\ claims[c.id].state = "absent"
    BY <1>2, CreatedFresh
  <2>2. /\ claims'[c.id] = NewRecord(c)
        /\ \A x \in ClaimIds \ {c.id} : claims'[x] = claims[x]
    BY <1>2, <2>1 DEF Claim, TypeOK
  <2>3. /\ NewRecord(c).state = "evaluating" /\ NewRecord(c).release = NoRelease
        /\ NewRecord(c).abandoned = FALSE
    BY DEF NewRecord, Absent
  <2>4. KeepsClaims
    <3> SUFFICES ASSUME NEW x \in ClaimIds
                 PROVE  /\ Terminal(x)' <=> Terminal(x)
                        /\ Terminal(x) => /\ claims'[x].outboxIndex = claims[x].outboxIndex
                                          /\ claims'[x].receiptBody = claims[x].receiptBody
                        /\ claims'[x].abandoned => claims[x].abandoned
                        /\ claims'[x].release # NoRelease => Terminal(x)
      BY DEF Claim, KeepsClaims, switches
    <3>1. CASE x = c.id
      BY <2>1, <2>2, <2>3, <3>1 DEF Terminal
    <3>2. CASE x # c.id
      BY <2>2, <3>2 DEF Terminal, ReleasedTerminal
    <3> QED
      BY <3>1, <3>2
  <2> QED
    BY <2>4, KeptClaims
<1> QED
  BY <1>1, <1>2

(* record_v2_evaluation_progress keeps the store invariant.                *)
LEMMA RecordProgressKeepsStore ==
  ASSUME StoreInv, TypeOK', NEW id \in ClaimIds, NEW token \in ClaimIds, NEW p,
         NEW ok \in BOOLEAN, RecordProgress(id, token, p, ok)
  PROVE  StoreInv'
<1> USE DEF StoreInv
<1>1. claims' = claims \/ claims' = [claims EXCEPT ![id] = [claims[id] EXCEPT !.progress = p]]
  BY DEF RecordProgress
<1>2. ASSUME NEW x \in ClaimIds
      PROVE  /\ claims'[x].state = claims[x].state
             /\ claims'[x].outboxIndex = claims[x].outboxIndex
             /\ claims'[x].receiptBody = claims[x].receiptBody
             /\ claims'[x].abandoned = claims[x].abandoned
             /\ claims'[x].release = claims[x].release
  <2>1. claims \in [ClaimIds -> ClaimRecord] /\ claims[id] \in ClaimRecord
    BY DEF TypeOK
  <2> QED
    BY <1>1, <2>1 DEF ClaimRecord
<1>3. KeepsClaims
  BY <1>2 DEF RecordProgress, KeepsClaims, Terminal, ReleasedTerminal, switches
<1> QED
  BY <1>3, KeptClaims

(* record_v2_release keeps the store invariant: only a terminal claim is   *)
(* given a release record.                                                 *)
LEMMA RecordReleaseKeepsStore ==
  ASSUME StoreInv, TypeOK', NEW id \in ClaimIds, NEW rel, NEW ok \in BOOLEAN,
         RecordRelease(id, rel, ok)
  PROVE  StoreInv'
<1> USE DEF StoreInv
<1>1. CASE RecordReleaseResult(id, rel, ok) # "recorded"
  <2>1. KeepsClaims
    BY <1>1 DEF RecordRelease, KeepsClaims, Terminal, ReleasedTerminal, switches
  <2> QED
    BY <2>1, KeptClaims
<1>2. CASE RecordReleaseResult(id, rel, ok) = "recorded"
  <2>1. Terminal(id)
    BY <1>2 DEF RecordReleaseResult, Terminal
  <2>2. claims' = [claims EXCEPT ![id] = [claims[id] EXCEPT !.release = rel]]
    BY <1>2 DEF RecordRelease
  <2>3. ASSUME NEW x \in ClaimIds
        PROVE  /\ claims'[x].state = claims[x].state
               /\ claims'[x].outboxIndex = claims[x].outboxIndex
               /\ claims'[x].receiptBody = claims[x].receiptBody
               /\ claims'[x].abandoned = claims[x].abandoned
               /\ x # id => claims'[x].release = claims[x].release
    <3>1. claims \in [ClaimIds -> ClaimRecord] /\ claims[id] \in ClaimRecord
      BY DEF TypeOK
    <3> QED
      BY <2>2, <3>1 DEF ClaimRecord
  <2>4. KeepsClaims
    BY <2>1, <2>3 DEF RecordRelease, KeepsClaims, Terminal, ReleasedTerminal, switches
  <2> QED
    BY <2>4, KeptClaims
<1> QED
  BY <1>1, <1>2

(* Abandonment marks the claims of entries that are not appended, which    *)
(* are terminal because every entry belongs to a terminal claim.           *)
LEMMA AbandonKeepsStore ==
  ASSUME StoreInv, TypeOK', NEW ok \in BOOLEAN, AbandonPendingReceipts(ok)
  PROVE  StoreInv'
<1> USE DEF StoreInv
<1>1. CASE ~ok
  <2>1. claims' = claims /\ outbox' = outbox /\ logFrozen' = logFrozen
    BY <1>1 DEF AbandonPendingReceipts, TypeOK
  <2>2. KeepsClaims
    BY <2>1 DEF KeepsClaims, Terminal, ReleasedTerminal
  <2> QED
    BY <2>2, KeptClaims
<1>2. CASE ok
  <2> DEFINE marked(x) == \E i \in DOMAIN outbox : outbox[i].claimId = x /\ ~outbox[i].published
  <2>1. /\ outbox' = outbox /\ logFrozen'
        /\ claims' = [x \in ClaimIds |-> IF marked(x) THEN [claims[x] EXCEPT !.abandoned = TRUE]
                                                      ELSE claims[x]]
    BY <1>2 DEF AbandonPendingReceipts
  <2>2. ASSUME NEW x \in ClaimIds, marked(x)
        PROVE  Terminal(x) /\ ~outbox[claims[x].outboxIndex].published
    BY <2>2 DEF OneEntryPerTerminalClaim
  <2> HIDE DEF marked
  <2>3. ASSUME NEW x \in ClaimIds
        PROVE  /\ claims'[x].state = claims[x].state
               /\ claims'[x].outboxIndex = claims[x].outboxIndex
               /\ claims'[x].receiptBody = claims[x].receiptBody
               /\ claims'[x].release = claims[x].release
               /\ claims'[x].abandoned => claims[x].abandoned \/ marked(x)
    <3>1. claims[x] \in ClaimRecord
      BY DEF TypeOK
    <3> QED
      BY <2>1, <3>1 DEF ClaimRecord
  <2>4. OneEntryPerTerminalClaim'
    <3>1. KeepsMatch
      BY <2>1, <2>3 DEF KeepsMatch, Terminal
    <3> QED
      BY <3>1, MatchKept
  <2>5. LogInOrder'
    BY <2>1 DEF LogInOrder, InOrder
  <2>6. AbandonedNeverAppended'
    BY <2>1, <2>2, <2>3 DEF AbandonedNeverAppended, Terminal
  <2>7. ReleasedTerminal'
    BY <2>3 DEF ReleasedTerminal, Terminal
  <2> QED
    BY <2>4, <2>5, <2>6, <2>7
<1> QED
  BY <1>1, <1>2

(* finalize_v2_claim keeps the store invariant.                            *)
LEMMA FinalizeKeepsStore ==
  ASSUME StoreInv, TypeOK', NEW id \in ClaimIds, NEW token \in ClaimIds, NEW body \in Bodies,
         NEW terminal, NEW horizon \in Horizons, NEW ok \in BOOLEAN,
         Finalize(id, token, terminal, body, horizon, ok)
  PROVE  StoreInv'
<1> USE DEF StoreInv
<1>1. CASE FinalizeResult(id, token, terminal, body, horizon, ok) = "committed"
  <2>1. Committable(id, terminal, body, horizon)
    BY <1>1, FinalizeCommittable
  <2>2. CommitTerminal(id, terminal, body, horizon) /\ UNCHANGED logFrozen
    BY <1>1 DEF Finalize, switches
  <2> QED
    BY <2>1, <2>2, CommitKeepsStore DEF Committable
<1>2. CASE FinalizeResult(id, token, terminal, body, horizon, ok) # "committed"
  <2>1. KeepsClaims
    BY <1>2 DEF Finalize, KeepsClaims, Terminal, ReleasedTerminal, switches
  <2> QED
    BY <2>1, KeptClaims
<1> QED
  BY <1>1, <1>2

(* recover_interrupted_v2_claim keeps the store invariant.                 *)
LEMMA RecoverKeepsStore ==
  ASSUME StoreInv, TypeOK', NEW id \in ClaimIds, NEW body \in Bodies, NEW terminal,
         NEW ok \in BOOLEAN, Recover(id, terminal, body, ok)
  PROVE  StoreInv'
<1> USE DEF StoreInv
<1>1. CASE RecoverResult(id, terminal, body, ok) = "committed"
  <2>1. claims[id].state = "evaluating" /\ terminal \in Results /\ 0 \in 0..MaxTimestamp
    BY <1>1, RecoverCommittable, StoreAssumption
  <2>2. CommitTerminal(id, terminal, body, 0) /\ UNCHANGED logFrozen
    BY <1>1 DEF Recover, switches
  <2> QED
    BY <2>1, <2>2, CommitKeepsStore
<1>2. CASE RecoverResult(id, terminal, body, ok) # "committed"
  <2>1. KeepsClaims
    BY <1>2 DEF Recover, KeepsClaims, Terminal, ReleasedTerminal, switches
  <2> QED
    BY <2>1, KeptClaims
<1> QED
  BY <1>1, <1>2

(* Every method keeps the invariant of claims and log.                     *)
LEMMA NextKeepsStore == StoreInv /\ [Next]_storeVars => StoreInv'
<1> SUFFICES ASSUME StoreInv, [Next]_storeVars PROVE StoreInv'
  OBVIOUS
<1>1. TypeOK'
  BY NextTyped DEF StoreInv
<1>2. ASSUME UNCHANGED <<claims, outbox, logFrozen>> PROVE StoreInv'
  <2>1. KeepsClaims
    BY <1>2 DEF StoreInv, KeepsClaims, Terminal, ReleasedTerminal
  <2> QED
    BY <1>1, <2>1, KeptClaims
<1>3. CASE ClockStep
  BY <1>2, <1>3 DEF ClockStep, SetTime, AuthoritativeTime, switches
<1>4. CASE ClaimStep
  BY <1>1, <1>4, ClaimKeepsStore DEF ClaimStep
<1>5. CASE FinalizeStep
  BY <1>1, <1>5, FinalizeKeepsStore DEF FinalizeStep, Anchoring
<1>6. CASE ProgressStep
  BY <1>1, <1>6, RecordProgressKeepsStore DEF ProgressStep, Anchoring
<1>7. CASE RecoveryStep
  <2>1. ASSUME NEW id \in ClaimIds, LoadInterrupted(id) \/ LoadCommitted(id) PROVE StoreInv'
    BY <1>2, <2>1 DEF LoadInterrupted, LoadCommitted, switches
  <2> QED
    BY <1>1, <1>7, <2>1, RecoverKeepsStore DEF RecoveryStep, Anchoring
<1>8. CASE PublishStep
  BY <1>1, <1>8, PublishKeepsStore DEF PublishStep, Anchoring
<1>9. CASE CheckpointStep
  BY <1>1, <1>9, AcknowledgeReceiptKeepsStore, SetAcknowledgementWithheldKeepsStore
  DEF CheckpointStep
<1>10. CASE SignerStep
  BY <1>2, <1>10 DEF SignerStep, SetSignerFailure
<1>11. CASE AbandonStep
  BY <1>1, <1>11, AbandonKeepsStore DEF AbandonStep, Anchoring
<1>12. CASE ReleaseStep
  BY <1>1, <1>12, RecordReleaseKeepsStore DEF ReleaseStep, Anchoring
<1>13. CASE UNCHANGED storeVars
  BY <1>2, <1>13 DEF storeVars, switches
<1> QED
  BY <1>3, <1>4, <1>5, <1>6, <1>7, <1>8, <1>9, <1>10, <1>11, <1>12, <1>13 DEF Next

(* An empty store satisfies it.                                            *)
LEMMA InitKeepsStore == Init => StoreInv
<1> SUFFICES ASSUME Init PROVE StoreInv
  OBVIOUS
<1>1. TypeOK
  BY InitTyped
<1>2. /\ \A id \in ClaimIds : claims[id] = Absent(id)
      /\ outbox = <<>>
  BY DEF Init
<1>3. ASSUME NEW id \in ClaimIds
      PROVE  claims[id].state = "absent" /\ claims[id].release = NoRelease
             /\ ~claims[id].abandoned
  <2>1. /\ Absent(id).state = "absent" /\ Absent(id).release = NoRelease
        /\ ~Absent(id).abandoned
    BY DEF Absent
  <2> QED
    BY <1>2, <2>1
<1>4. DOMAIN outbox = {}
  BY <1>2
<1> QED
  BY <1>1, <1>3, <1>4
  DEF StoreInv, OneEntryPerTerminalClaim, LogInOrder, InOrder, AbandonedNeverAppended,
      ReleasedTerminal, Terminal

(* The inductive invariant of the store.                                   *)
THEOREM StoreInvariant == Spec => []StoreInv
<1>1. Init => StoreInv
  BY InitKeepsStore
<1>2. StoreInv /\ [Next]_storeVars => StoreInv'
  BY NextKeepsStore
<1> QED
  BY <1>1, <1>2, PTL DEF Spec

(* Claims and receipt log stay matched one to one: no commit, retry or     *)
(* recovery is receipted twice, lost, or receipted with another result.    *)
THEOREM LogMatchesClaims == Spec => []OneEntryPerTerminalClaim
<1>1. StoreInv => OneEntryPerTerminalClaim
  BY DEF StoreInv
<1> QED
  BY <1>1, StoreInvariant, PTL

(* The log is appended and acknowledged in order, by whichever of the      *)
(* publisher, the resumed submission and the direct call of the checkpoint.*)
THEOREM LogOrdered == Spec => []LogInOrder
<1>1. StoreInv => LogInOrder
  BY DEF StoreInv
<1> QED
  BY <1>1, StoreInvariant, PTL

(* The receipt of an abandoned claim is never appended.                    *)
THEOREM AbandonmentFinal == Spec => []AbandonedNeverAppended
<1>1. StoreInv => AbandonedNeverAppended
  BY DEF StoreInv
<1> QED
  BY <1>1, StoreInvariant, PTL

-----------------------------------------------------------------------------
(* What no step does to a claim.                                           *)

(* A record that stays the same is a record that is kept.                  *)
LEMMA SameRecordKept ==
  ASSUME NEW x \in ClaimIds, claims'[x] = claims[x]
  PROVE  ClaimKept(x)
BY DEF ClaimKept, ClaimFacts, CommitFacts, Accepted, Terminal

(* A commit of an evaluating claim changes nothing that must stay.         *)
LEMMA CommitKeepsClaims ==
  ASSUME TypeOK, NEW id \in ClaimIds, NEW terminal, NEW body, NEW horizon,
         claims[id].state = "evaluating", CommitTerminal(id, terminal, body, horizon)
  PROVE  \A x \in ClaimIds : ClaimKept(x)
<1>1. CommitDelta(id, terminal, body, horizon)
  BY CommitEffect
<1>2. ClaimKept(id)
  BY <1>1 DEF CommitDelta, ClaimKept, ClaimFacts, Accepted, Terminal
<1>3. \A x \in ClaimIds \ {id} : ClaimKept(x)
  BY <1>1, SameRecordKept DEF CommitDelta
<1> QED
  BY <1>2, <1>3

(* claim_v2 changes no accepted claim.                                     *)
LEMMA ClaimKeepsClaims ==
  ASSUME StoreInv, NEW c \in Claims, NEW ok \in BOOLEAN, Claim(c, ok)
  PROVE  \A x \in ClaimIds : ClaimKept(x)
<1>1. CASE ClaimResult(c, ok) # "created"
  BY <1>1, SameRecordKept DEF Claim
<1>2. CASE ClaimResult(c, ok) = "created"
  <2>1. TypeOK /\ c.id \in ClaimIds /\ claims[c.id].state = "absent"
    BY <1>2, CreatedFresh DEF StoreInv
  <2>2. claims[c.id].release = NoRelease /\ ~claims[c.id].abandoned
    BY <2>1 DEF StoreInv, ReleasedTerminal, AbandonedNeverAppended, Terminal
  <2>3. ClaimKept(c.id)
    BY <2>1, <2>2 DEF ClaimKept, Accepted, Terminal
  <2>4. \A x \in ClaimIds \ {c.id} : claims'[x] = claims[x]
    BY <1>2, <2>1 DEF Claim, TypeOK
  <2> QED
    BY <2>3, <2>4, SameRecordKept
<1> QED
  BY <1>1, <1>2

(* record_v2_evaluation_progress changes no terminal claim.                *)
LEMMA RecordProgressKeepsClaims ==
  ASSUME TypeOK, NEW id \in ClaimIds, NEW token \in ClaimIds, NEW p, NEW ok \in BOOLEAN,
         RecordProgress(id, token, p, ok)
  PROVE  \A x \in ClaimIds : ClaimKept(x)
<1>1. CASE RecordProgressResult(id, token, p, ok) # "ok"
  BY <1>1, SameRecordKept DEF RecordProgress
<1>2. CASE RecordProgressResult(id, token, p, ok) = "ok"
  <2>1. claims[id].state = "evaluating"
    <3>1. OwnerResult(id, token) = "ok"
      BY <1>2 DEF RecordProgressResult
    <3> QED
      BY <3>1, OwnerOk
  <2>2. claims \in [ClaimIds -> ClaimRecord] /\ claims[id] \in ClaimRecord
    BY DEF TypeOK
  <2>3. claims' = [claims EXCEPT ![id] = [claims[id] EXCEPT !.progress = p]]
    BY <1>2 DEF RecordProgress
  <2>4. claims'[id] = [claims[id] EXCEPT !.progress = p]
    BY <2>2, <2>3
  <2>5. /\ claims'[id].state = claims[id].state /\ claims'[id].claim = claims[id].claim
        /\ claims'[id].owner = claims[id].owner
        /\ claims'[id].leaseExpiresAt = claims[id].leaseExpiresAt
        /\ claims'[id].claimedAt = claims[id].claimedAt
        /\ claims'[id].release = claims[id].release
        /\ claims'[id].abandoned = claims[id].abandoned
    BY <2>2, <2>4 DEF ClaimRecord
  <2>6. ClaimKept(id)
    BY <2>1, <2>5 DEF ClaimKept, ClaimFacts, Accepted, Terminal
  <2>7. \A x \in ClaimIds \ {id} : claims'[x] = claims[x]
    BY <2>2, <2>3
  <2> QED
    BY <2>6, <2>7, SameRecordKept
<1> QED
  BY <1>1, <1>2

(* record_v2_release never replaces a release record.                      *)
LEMMA RecordReleaseKeepsClaims ==
  ASSUME TypeOK, NEW id \in ClaimIds, NEW rel, NEW ok \in BOOLEAN, RecordRelease(id, rel, ok)
  PROVE  \A x \in ClaimIds : ClaimKept(x)
<1>1. CASE RecordReleaseResult(id, rel, ok) # "recorded"
  BY <1>1, SameRecordKept DEF RecordRelease
<1>2. CASE RecordReleaseResult(id, rel, ok) = "recorded"
  <2>1. claims[id].release = NoRelease
    BY <1>2 DEF RecordReleaseResult
  <2>2. claims \in [ClaimIds -> ClaimRecord] /\ claims[id] \in ClaimRecord
    BY DEF TypeOK
  <2>3. claims' = [claims EXCEPT ![id] = [claims[id] EXCEPT !.release = rel]]
    BY <1>2 DEF RecordRelease
  <2>4. claims'[id] = [claims[id] EXCEPT !.release = rel]
    BY <2>2, <2>3
  <2>5. /\ claims'[id].state = claims[id].state /\ claims'[id].abandoned = claims[id].abandoned
        /\ ClaimFacts(claims'[id]) = ClaimFacts(claims[id])
        /\ CommitFacts(claims'[id]) = CommitFacts(claims[id])
    BY <2>2, <2>4 DEF ClaimRecord, ClaimFacts, CommitFacts
  <2>6. ClaimKept(id)
    BY <2>1, <2>5 DEF ClaimKept, Accepted, Terminal
  <2>7. \A x \in ClaimIds \ {id} : claims'[x] = claims[x]
    BY <2>2, <2>3
  <2> QED
    BY <2>6, <2>7, SameRecordKept
<1> QED
  BY <1>1, <1>2

(* abandon_pending_receipts changes only the abandonment mark.             *)
LEMMA AbandonKeepsClaims ==
  ASSUME TypeOK, NEW ok \in BOOLEAN, AbandonPendingReceipts(ok)
  PROVE  \A x \in ClaimIds : ClaimKept(x)
<1> SUFFICES ASSUME NEW x \in ClaimIds PROVE ClaimKept(x)
  OBVIOUS
<1>1. claims'[x] = claims[x] \/ claims'[x] = [claims[x] EXCEPT !.abandoned = TRUE]
  BY DEF AbandonPendingReceipts
<1>2. CASE claims'[x] = claims[x]
  BY <1>2, SameRecordKept
<1>3. CASE claims'[x] = [claims[x] EXCEPT !.abandoned = TRUE]
  <2>1. claims[x] \in ClaimRecord
    BY DEF TypeOK
  <2>2. /\ claims'[x].state = claims[x].state /\ claims'[x].release = claims[x].release
        /\ claims'[x].abandoned
        /\ ClaimFacts(claims'[x]) = ClaimFacts(claims[x])
        /\ CommitFacts(claims'[x]) = CommitFacts(claims[x])
    BY <1>3, <2>1 DEF ClaimRecord, ClaimFacts, CommitFacts
  <2> QED
    BY <2>2 DEF ClaimKept, Accepted, Terminal
<1> QED
  BY <1>1, <1>2, <1>3

(* No method changes what must stay of a claim.                            *)
LEMMA NextKeepsClaims ==
  StoreInv /\ [Next]_storeVars => \A x \in ClaimIds : ClaimKept(x)
<1> SUFFICES ASSUME StoreInv, [Next]_storeVars PROVE \A x \in ClaimIds : ClaimKept(x)
  OBVIOUS
<1>1. TypeOK
  BY DEF StoreInv
<1>2. ASSUME UNCHANGED claims PROVE \A x \in ClaimIds : ClaimKept(x)
  BY <1>2, SameRecordKept
<1>3. CASE ClockStep
  BY <1>2, <1>3 DEF ClockStep, SetTime, AuthoritativeTime
<1>4. CASE ClaimStep
  BY <1>4, ClaimKeepsClaims DEF ClaimStep
<1>5. CASE FinalizeStep
  <2> SUFFICES ASSUME NEW id \in ClaimIds, NEW token \in ClaimIds, NEW b \in Bodies,
                      NEW h \in Horizons, NEW ok \in BOOLEAN, NEW t,
                      Finalize(id, token, t, b, h, ok)
               PROVE  \A x \in ClaimIds : ClaimKept(x)
    BY <1>5 DEF FinalizeStep, Anchoring
  <2>1. CASE FinalizeResult(id, token, t, b, h, ok) = "committed"
    <3>1. claims[id].state = "evaluating"
      BY <1>1, <2>1, FinalizeCommittable DEF Committable
    <3> QED
      BY <1>1, <2>1, <3>1, CommitKeepsClaims DEF Finalize
  <2> QED
    BY <1>2, <2>1 DEF Finalize
<1>6. CASE ProgressStep
  BY <1>1, <1>6, RecordProgressKeepsClaims DEF ProgressStep, Anchoring
<1>7. CASE RecoveryStep
  <2>1. ASSUME NEW id \in ClaimIds, LoadInterrupted(id) \/ LoadCommitted(id)
        PROVE  \A x \in ClaimIds : ClaimKept(x)
    BY <1>2, <2>1 DEF LoadInterrupted, LoadCommitted
  <2>2. ASSUME NEW id \in ClaimIds, NEW b \in Bodies, NEW ok \in BOOLEAN, NEW t,
               Recover(id, t, b, ok)
        PROVE  \A x \in ClaimIds : ClaimKept(x)
    <3>1. CASE RecoverResult(id, t, b, ok) = "committed"
      <4>1. claims[id].state = "evaluating"
        BY <1>1, <3>1, RecoverCommittable
      <4> QED
        BY <1>1, <2>2, <3>1, <4>1, CommitKeepsClaims DEF Recover
    <3> QED
      BY <1>2, <2>2, <3>1 DEF Recover
  <2> QED
    BY <1>7, <2>1, <2>2 DEF RecoveryStep, Anchoring
<1>8. CASE PublishStep
  BY <1>2, <1>8 DEF PublishStep, Publish
<1>9. CASE CheckpointStep
  BY <1>2, <1>9 DEF CheckpointStep, AcknowledgeReceipt, SetAcknowledgementWithheld
<1>10. CASE SignerStep
  BY <1>2, <1>10 DEF SignerStep, SetSignerFailure
<1>11. CASE AbandonStep
  BY <1>1, <1>11, AbandonKeepsClaims DEF AbandonStep, Anchoring
<1>12. CASE ReleaseStep
  BY <1>1, <1>12, RecordReleaseKeepsClaims DEF ReleaseStep, Anchoring
<1>13. CASE UNCHANGED storeVars
  BY <1>2, <1>13 DEF storeVars
<1> QED
  BY <1>3, <1>4, <1>5, <1>6, <1>7, <1>8, <1>9, <1>10, <1>11, <1>12, <1>13 DEF Next

(* No method ever loses an accepted claim, exchanges what it seals, its    *)
(* owner or its lease, changes a committed result, replaces a release      *)
(* record or lifts an abandonment.                                         *)
THEOREM ClaimsImmutable == Spec => CommittedImmutable
<1>1. StoreInv /\ [Next]_storeVars => [\A id \in ClaimIds : ClaimKept(id)]_storeVars
  BY NextKeepsClaims
<1> QED
  BY <1>1, StoreInvariant, PTL DEF Spec, CommittedImmutable

-----------------------------------------------------------------------------
(* What the store remembers is true of its whole history, for every clock: *)
(* each commit lies in the window of its author, time runs forward along   *)
(* the receipt log, the streams are contiguous, and no interval holds more *)
(* allows than a rate limit.  The four parts rest on the store invariant   *)
(* and on the immutability of accepted claims.                             *)

-----------------------------------------------------------------------------
(* Every commit lies in the window of its author.  A committed result      *)
(* never changes, so only the step that commits can put one outside:       *)
(* finalize_v2_claim and recover_interrupted_v2_claim, whose checks meet   *)
(* at the lease expiry.                                                    *)

(* What CommitInWindow says of one record.                                 *)
InWindow(r) ==
  /\ PayloadBinds(r.claim, r.terminal, r.receiptBody)
  /\ r.claimedAt <= r.finalizedAt
  /\ r.finalizedAt >= r.leaseExpiresAt => r.terminal = "interrupted"
  /\ IF r.terminal = "allow"
     THEN r.finalizedAt < r.allowHorizon /\ r.finalizedAt < r.claim.expiresAt
     ELSE r.allowHorizon = 0

(* What a commit now must satisfy to lie in it.                            *)
WindowNow(id, terminal, body, horizon) ==
  /\ claims[id].state = "evaluating"
  /\ PayloadBinds(claims[id].claim, terminal, body)
  /\ claims[id].claimedAt <= now
  /\ now >= claims[id].leaseExpiresAt => terminal = "interrupted"
  /\ IF terminal = "allow" THEN now < horizon /\ now < claims[id].claim.expiresAt
                           ELSE horizon = 0

NoNewTerminal == \A x \in ClaimIds : Terminal(x)' => Terminal(x)

NoNewClaim == \A x \in ClaimIds : Accepted(x)' => Accepted(x)

(* An accepted record holds a claim of its own replay key and a lease that *)
(* began when it was claimed: recovery after the lease expiry is therefore *)
(* after the claim.                                                        *)
LeaseFollowsClaim ==
  \A id \in ClaimIds :
    Accepted(id) => /\ claims[id].claim \in Claims /\ claims[id].claim.key = id
                    /\ claims[id].claimedAt <= claims[id].leaseExpiresAt

WindowInv == CommitInWindow /\ LeaseFollowsClaim

-----------------------------------------------------------------------------
(* The checks of finalize_v2_claim: owner and live lease, payload, horizon. *)
LEMMA FinalizeInWindow ==
  ASSUME TypeOK, LeaseFollowsClaim, NEW id \in ClaimIds, NEW token \in ClaimIds, NEW body \in Bodies,
         NEW terminal, NEW horizon \in Horizons, NEW ok \in BOOLEAN,
         FinalizeResult(id, token, terminal, body, horizon, ok) = "committed"
  PROVE  WindowNow(id, terminal, body, horizon)
<1>1. OwnerResult(id, token) = "ok"
  BY DEF FinalizeResult, OwnerResult, ClockReading
<1>2. /\ claims[id].state = "evaluating" /\ claims[id].claimedAt <= now
      /\ now < claims[id].leaseExpiresAt
  BY <1>1, OwnerOk
<1>3. /\ PayloadBinds(claims[id].claim, terminal, body)
      /\ HorizonMatches(body, horizon)
      /\ ~(horizon > 0 /\ (now >= horizon \/ now >= claims[id].claim.expiresAt))
  BY <1>1 DEF FinalizeResult
<1>4. claims[id] \in ClaimRecord /\ now \in Int /\ claims[id].leaseExpiresAt \in Int
  BY DEF TypeOK, ClaimRecord
<1>5. ~(now >= claims[id].leaseExpiresAt)
  BY <1>2, <1>4
<1>6. CASE terminal = "allow"
  <2>1. horizon \in 1..MaxTimestamp /\ horizon > 0
    BY <1>3, <1>6, StoreAssumption DEF PayloadBinds, HorizonMatches
  <2>2. claims[id].claim.expiresAt \in Int
    <3>1. claims[id].claim \in Claims
      BY <1>2 DEF LeaseFollowsClaim, Accepted
    <3> QED
      BY <3>1, StoreAssumption DEF ClaimType
  <2> QED
    BY <1>2, <1>3, <1>4, <1>5, <1>6, <2>1, <2>2 DEF WindowNow
<1>7. CASE terminal # "allow"
  <2>1. horizon = 0
    BY <1>3, <1>7 DEF PayloadBinds, HorizonMatches
  <2> QED
    BY <1>2, <1>3, <1>5, <1>7, <2>1 DEF WindowNow
<1> QED
  BY <1>6, <1>7

(* The checks of recover_interrupted_v2_claim: an expired lease and the    *)
(* interrupted result.                                                     *)
LEMMA RecoverInWindow ==
  ASSUME TypeOK, LeaseFollowsClaim, NEW id \in ClaimIds, NEW body \in Bodies, NEW terminal, NEW ok \in BOOLEAN,
         RecoverResult(id, terminal, body, ok) = "committed"
  PROVE  WindowNow(id, terminal, body, 0)
<1>1. /\ claims[id].state = "evaluating" /\ ClockOk
      /\ ~(now < claims[id].leaseExpiresAt)
      /\ PayloadBinds(claims[id].claim, terminal, body) /\ body.result = "interrupted"
  BY DEF RecoverResult, ClockOk, ClockReading, TypeOK, ClaimRecord
<1>2. claims[id].claimedAt <= claims[id].leaseExpiresAt
  BY <1>1 DEF LeaseFollowsClaim, Accepted
<1>3. /\ claims[id].claimedAt \in Int /\ claims[id].leaseExpiresAt \in Int
      /\ now \in Int
  BY StoreAssumption DEF TypeOK, ClaimRecord
<1>4. claims[id].claimedAt <= now
  BY <1>1, <1>2, <1>3
<1> QED
  BY <1>1, <1>4 DEF WindowNow, PayloadBinds

-----------------------------------------------------------------------------
(* A record that stays in its window when nothing of its commit changes.   *)
LEMMA KeptInWindow ==
  ASSUME CommitInWindow, NEW x \in ClaimIds, ClaimKept(x), Terminal(x)
  PROVE  InWindow(claims'[x])
<1>1. Accepted(x) /\ InWindow(claims[x])
  BY DEF CommitInWindow, InWindow, Accepted, Terminal
<1>2. /\ claims'[x].claim = claims[x].claim
      /\ claims'[x].leaseExpiresAt = claims[x].leaseExpiresAt
      /\ claims'[x].claimedAt = claims[x].claimedAt
      /\ claims'[x].terminal = claims[x].terminal
      /\ claims'[x].receiptBody = claims[x].receiptBody
      /\ claims'[x].allowHorizon = claims[x].allowHorizon
      /\ claims'[x].finalizedAt = claims[x].finalizedAt
  BY <1>1 DEF ClaimKept, ClaimFacts, CommitFacts
<1> QED
  BY <1>1, <1>2 DEF InWindow

(* A step that commits nothing keeps every commit in its window.           *)
LEMMA QuietKeepsWindow ==
  ASSUME CommitInWindow, \A x \in ClaimIds : ClaimKept(x), NoNewTerminal
  PROVE  CommitInWindow'
<1>1. \A x \in ClaimIds : Terminal(x)' => InWindow(claims'[x])
  BY KeptInWindow DEF NoNewTerminal
<1> QED
  BY <1>1 DEF CommitInWindow, InWindow

(* A commit inside its window keeps every commit in its window.            *)
LEMMA CommitKeepsWindow ==
  ASSUME TypeOK, CommitInWindow, \A x \in ClaimIds : ClaimKept(x), NEW id \in ClaimIds,
         NEW terminal, NEW body, NEW horizon, WindowNow(id, terminal, body, horizon),
         CommitTerminal(id, terminal, body, horizon)
  PROVE  CommitInWindow'
<1>1. claims \in [ClaimIds -> ClaimRecord] /\ claims[id] \in ClaimRecord
  BY DEF TypeOK
<1>2. claims'[id] = [claims[id] EXCEPT !.state = "terminal", !.terminal = terminal,
                       !.receiptBody = body, !.allowHorizon = horizon,
                       !.finalizedAt = now, !.outboxIndex = Len(outbox) + 1]
  BY <1>1 DEF CommitTerminal
<1>3. /\ claims'[id].claim = claims[id].claim
      /\ claims'[id].leaseExpiresAt = claims[id].leaseExpiresAt
      /\ claims'[id].claimedAt = claims[id].claimedAt
      /\ claims'[id].terminal = terminal /\ claims'[id].receiptBody = body
      /\ claims'[id].allowHorizon = horizon /\ claims'[id].finalizedAt = now
  BY <1>1, <1>2 DEF ClaimRecord
<1>4. InWindow(claims'[id])
  BY <1>3 DEF InWindow, WindowNow
<1>5. \A x \in ClaimIds \ {id} : claims'[x] = claims[x]
  BY <1>1 DEF CommitTerminal
<1>6. \A x \in ClaimIds : Terminal(x)' => InWindow(claims'[x])
  BY <1>4, <1>5, KeptInWindow DEF Terminal
<1> QED
  BY <1>6 DEF CommitInWindow, InWindow

-----------------------------------------------------------------------------
(* A step that accepts no claim keeps every lease after its claim.         *)
LEMMA QuietKeepsLease ==
  ASSUME LeaseFollowsClaim, \A x \in ClaimIds : ClaimKept(x), NoNewClaim
  PROVE  LeaseFollowsClaim'
<1>1. ASSUME NEW x \in ClaimIds, Accepted(x)'
      PROVE  /\ claims'[x].claim \in Claims /\ claims'[x].claim.key = x
             /\ claims'[x].claimedAt <= claims'[x].leaseExpiresAt
  <2>1. Accepted(x)
    BY <1>1 DEF NoNewClaim
  <2>2. /\ claims'[x].claim = claims[x].claim
        /\ claims'[x].leaseExpiresAt = claims[x].leaseExpiresAt
        /\ claims'[x].claimedAt = claims[x].claimedAt
    BY <2>1 DEF ClaimKept, ClaimFacts
  <2> QED
    BY <2>1, <2>2 DEF LeaseFollowsClaim
<1> QED
  BY <1>1 DEF LeaseFollowsClaim, Accepted

(* A step that changes the state of no record commits and accepts nothing. *)
LEMMA SameStatesKeep ==
  ASSUME WindowInv, \A x \in ClaimIds : ClaimKept(x),
         \A x \in ClaimIds : claims'[x].state = claims[x].state
  PROVE  WindowInv'
<1>1. NoNewTerminal /\ NoNewClaim
  BY DEF NoNewTerminal, NoNewClaim, Terminal, Accepted
<1> QED
  BY <1>1, QuietKeepsWindow, QuietKeepsLease DEF WindowInv

(* A commit inside its window keeps both: it accepts no claim.             *)
LEMMA CommitKeepsInv ==
  ASSUME TypeOK, WindowInv, \A x \in ClaimIds : ClaimKept(x), NEW id \in ClaimIds,
         NEW terminal, NEW body, NEW horizon, WindowNow(id, terminal, body, horizon),
         CommitTerminal(id, terminal, body, horizon)
  PROVE  WindowInv'
<1>1. CommitInWindow'
  BY CommitKeepsWindow DEF WindowInv
<1>2. \A x \in ClaimIds \ {id} : claims'[x] = claims[x]
  BY DEF CommitTerminal, TypeOK
<1>3. Accepted(id)
  BY DEF WindowNow, Accepted
<1>4. NoNewClaim
  BY <1>2, <1>3 DEF NoNewClaim, Accepted
<1> QED
  BY <1>1, <1>4, QuietKeepsLease DEF WindowInv

(* claim_v2 starts the lease at the reading it claims at.                  *)
LEMMA CreatedKeepsInv ==
  ASSUME TypeOK, WindowInv, \A x \in ClaimIds : ClaimKept(x), NEW c \in Claims,
         NEW ok \in BOOLEAN, Claim(c, ok), ClaimResult(c, ok) = "created"
  PROVE  WindowInv'
<1>1. c.id \in ClaimIds /\ claims' = [claims EXCEPT ![c.id] = NewRecord(c)]
  BY CreatedFresh DEF Claim
<1>2. /\ NewRecord(c).state = "evaluating" /\ NewRecord(c).claim = c
      /\ NewRecord(c).claimedAt = now /\ NewRecord(c).leaseExpiresAt = now + LeaseSeconds
  BY DEF NewRecord, Absent
<1>3. /\ claims'[c.id] = NewRecord(c)
      /\ \A x \in ClaimIds \ {c.id} : claims'[x] = claims[x]
  BY <1>1 DEF TypeOK
<1>4. NoNewTerminal
  BY <1>2, <1>3 DEF NoNewTerminal, Terminal
<1>5. now <= now + LeaseSeconds
  BY StoreAssumption DEF TypeOK
<1>6. ASSUME NEW x \in ClaimIds, Accepted(x)'
      PROVE  /\ claims'[x].claim \in Claims /\ claims'[x].claim.key = x
             /\ claims'[x].claimedAt <= claims'[x].leaseExpiresAt
  <2>1. CASE x = c.id
    <3>1. c.key = c.id
      BY DEF ClaimResult
    <3> QED
      BY <1>2, <1>3, <1>5, <2>1, <3>1
  <2>2. CASE x # c.id
    BY <1>3, <1>6, <2>2 DEF WindowInv, LeaseFollowsClaim, Accepted
  <2> QED
    BY <2>1, <2>2
<1>7. LeaseFollowsClaim'
  BY <1>6 DEF LeaseFollowsClaim, Accepted
<1> QED
  BY <1>4, <1>7, QuietKeepsWindow DEF WindowInv

(* Every method keeps every commit in its window.                          *)
LEMMA NextKeepsWindow ==
  StoreInv /\ WindowInv /\ [Next]_storeVars => WindowInv'
<1> SUFFICES ASSUME StoreInv, WindowInv, [Next]_storeVars PROVE WindowInv'
  OBVIOUS
<1>1. TypeOK /\ \A x \in ClaimIds : ClaimKept(x)
  BY NextKeepsClaims DEF StoreInv
<1>2. ASSUME \A x \in ClaimIds : claims'[x].state = claims[x].state PROVE WindowInv'
  BY <1>1, <1>2, SameStatesKeep
<1>3. ASSUME UNCHANGED claims PROVE WindowInv'
  BY <1>2, <1>3
<1>4. CASE ClockStep \/ PublishStep \/ CheckpointStep \/ SignerStep \/ UNCHANGED storeVars
  BY <1>3, <1>4 DEF ClockStep, SetTime, AuthoritativeTime, PublishStep, Publish, CheckpointStep,
                    AcknowledgeReceipt, SetAcknowledgementWithheld, SignerStep, SetSignerFailure,
                    storeVars
<1>5. CASE ClaimStep
  <2>1. PICK c \in Claims, ok \in BOOLEAN : Claim(c, ok)
    BY <1>5 DEF ClaimStep
  <2>2. CASE ClaimResult(c, ok) = "created"
    BY <1>1, <2>1, <2>2, CreatedKeepsInv
  <2> QED
    BY <1>3, <2>1, <2>2 DEF Claim
<1>6. CASE FinalizeStep
  <2> SUFFICES ASSUME NEW id \in ClaimIds, NEW token \in ClaimIds, NEW b \in Bodies,
                      NEW h \in Horizons, NEW ok \in BOOLEAN, NEW t,
                      Finalize(id, token, t, b, h, ok)
               PROVE  WindowInv'
    BY <1>6 DEF FinalizeStep, Anchoring
  <2>1. CASE FinalizeResult(id, token, t, b, h, ok) = "committed"
    BY <1>1, <2>1, FinalizeInWindow, CommitKeepsInv DEF Finalize, WindowInv
  <2> QED
    BY <1>3, <2>1 DEF Finalize
<1>7. CASE RecoveryStep
  <2>1. ASSUME NEW id \in ClaimIds, LoadInterrupted(id) \/ LoadCommitted(id)
        PROVE  WindowInv'
    BY <1>3, <2>1 DEF LoadInterrupted, LoadCommitted
  <2>2. ASSUME NEW id \in ClaimIds, NEW b \in Bodies, NEW ok \in BOOLEAN, NEW t,
               Recover(id, t, b, ok)
        PROVE  WindowInv'
    <3>1. CASE RecoverResult(id, t, b, ok) = "committed"
      BY <1>1, <2>2, <3>1, RecoverInWindow, CommitKeepsInv DEF Recover, WindowInv
    <3> QED
      BY <1>3, <2>2, <3>1 DEF Recover
  <2> QED
    BY <1>7, <2>1, <2>2 DEF RecoveryStep, Anchoring
<1>8. CASE ProgressStep
  <2>1. PICK id, p : /\ id \in ClaimIds
                     /\ \/ claims' = [claims EXCEPT ![id].progress = p]
                        \/ claims' = claims
    BY <1>8 DEF ProgressStep, RecordProgress
  <2>2. claims[id] \in ClaimRecord
    BY <1>1, <2>1 DEF TypeOK
  <2>3. [claims[id] EXCEPT !.progress = p].state = claims[id].state
    BY <2>2 DEF ClaimRecord
  <2> QED
    BY <1>1, <1>2, <2>1, <2>3 DEF TypeOK
<1>9. CASE ReleaseStep
  <2>1. PICK id, rel : /\ id \in ClaimIds
                       /\ \/ claims' = [claims EXCEPT ![id].release = rel]
                          \/ claims' = claims
    BY <1>9 DEF ReleaseStep, RecordRelease
  <2>2. claims[id] \in ClaimRecord
    BY <1>1, <2>1 DEF TypeOK
  <2>3. [claims[id] EXCEPT !.release = rel].state = claims[id].state
    BY <2>2 DEF ClaimRecord
  <2> QED
    BY <1>1, <1>2, <2>1, <2>3 DEF TypeOK
<1>10. CASE AbandonStep
  <2>1. ASSUME NEW x \in ClaimIds PROVE claims'[x].state = claims[x].state
    <3>1. claims'[x] = claims[x] \/ claims'[x] = [claims[x] EXCEPT !.abandoned = TRUE]
      BY <1>10 DEF AbandonStep, AbandonPendingReceipts
    <3>2. claims[x] \in ClaimRecord
      BY <1>1 DEF TypeOK
    <3> QED
      BY <3>1, <3>2 DEF ClaimRecord
  <2> QED
    BY <1>2, <2>1
<1> QED
  BY <1>4, <1>5, <1>6, <1>7, <1>8, <1>9, <1>10 DEF Next

(* An empty store has committed and accepted nothing.                      *)
LEMMA InitInWindow == Init => WindowInv
<1> SUFFICES ASSUME Init, NEW id \in ClaimIds PROVE ~Terminal(id) /\ ~Accepted(id)
  BY DEF WindowInv, CommitInWindow, LeaseFollowsClaim
<1>1. Absent(id).state = "absent"
  BY DEF Absent
<1> QED
  BY <1>1 DEF Init, Terminal, Accepted

(* Every committed result lies in the window of its author: the evaluator  *)
(* before the lease expiry, recovery from it on, an allow before every     *)
(* deadline (finalize_v2_claim against recover_interrupted_v2_claim).      *)
THEOREM CommitWindow == Spec => []CommitInWindow
<1>1. Init => WindowInv
  BY InitInWindow
<1>2. StoreInv /\ WindowInv /\ [Next]_storeVars => WindowInv'
  BY NextKeepsWindow
<1>3. WindowInv => CommitInWindow
  BY DEF WindowInv
<1> QED
  BY <1>1, <1>2, <1>3, StoreInvariant, PTL DEF Spec

-----------------------------------------------------------------------------
(* Time runs forward along the log.  The high-water mark of the clock only *)
(* advances, a commit and an acknowledgement are stamped with a reading    *)
(* that becomes the mark, and the order of the log carries the stamps of   *)
(* earlier entries.                                                        *)

(* The clock's mark never moves back.                                      *)
LEMMA MarkForward ==
  ASSUME TypeOK, [Next]_storeVars
  PROVE  highWater <= highWater'
<1>1. highWater \in Int /\ now \in Int /\ (ClockOk => highWater <= now)
  BY GoodReading DEF TypeOK
<1>2. highWater' \in {highWater, HighWaterAfterRead} => highWater <= highWater'
  BY <1>1 DEF HighWaterAfterRead
<1>3. CASE ClockStep \/ ClaimStep \/ SignerStep \/ AbandonStep \/ ReleaseStep
           \/ UNCHANGED storeVars
  BY <1>2, <1>3 DEF ClockStep, SetTime, AuthoritativeTime, ClaimStep, Claim, SignerStep,
     SetSignerFailure, AbandonStep, AbandonPendingReceipts, ReleaseStep, RecordRelease,
     ReadClockIf, storeVars, clockVars
<1>4. CASE FinalizeStep \/ ProgressStep \/ RecoveryStep
  BY <1>2, <1>4 DEF FinalizeStep, Finalize, ProgressStep, RecordProgress, RecoveryStep,
     LoadInterrupted, LoadCommitted, Recover, ReadClockIf
<1>5. CASE PublishStep \/ CheckpointStep
  BY <1>2, <1>5 DEF PublishStep, Publish, CheckpointStep, AcknowledgeReceipt,
     SetAcknowledgementWithheld, ReadClockIf
<1> QED
  BY <1>3, <1>4, <1>5 DEF Next

(* A step that commits nothing: the log keeps its claims, and what it      *)
(* acknowledges it stamps with the mark it leaves.                         *)
KeepsTimes ==
  /\ Len(outbox') = Len(outbox) /\ highWater <= highWater'
  /\ \A i \in 1..Len(outbox) :
       /\ outbox'[i].claimId = outbox[i].claimId
       /\ \/ outbox'[i].ack = outbox[i].ack
          \/ outbox[i].ack = NoAck /\ outbox'[i].ack = highWater'

finalAt(i) == claims[outbox[i].claimId].finalizedAt

(* What LogTimesForward says of one position, and of two.                  *)
StampedBefore(i) ==
  /\ finalAt(i) <= highWater
  /\ outbox[i].ack # NoAck => finalAt(i) <= outbox[i].ack /\ outbox[i].ack <= highWater
StampedInOrder(i, j) ==
  /\ finalAt(i) <= finalAt(j)
  /\ outbox[j].ack # NoAck => outbox[i].ack <= outbox[j].ack
Stamped ==
  \A i \in 1..Len(outbox) :
    StampedBefore(i) /\ \A j \in 1..Len(outbox) : i < j => StampedInOrder(i, j)

(* Stamped log entries are in the order of their times.                    *)
LEMMA StampedIsForward ==
  ASSUME TypeOK
  PROVE  LogTimesForward <=> Stamped
BY LogShape DEF LogTimesForward, Stamped, StampedBefore, StampedInOrder, finalAt

(* The times of a well-formed log are integers, and its claims terminal.   *)
LEMMA TimesTyped ==
  ASSUME StoreInv, NEW i \in 1..Len(outbox)
  PROVE  /\ outbox[i].claimId \in ClaimIds /\ Terminal(outbox[i].claimId)
         /\ finalAt(i) \in Int /\ outbox[i].ack \in Int /\ highWater \in Int
         /\ i \in Int /\ Len(outbox) \in Nat
<1>1. /\ outbox[i] \in Entry /\ DOMAIN outbox = 1..Len(outbox) /\ Len(outbox) \in Nat
      /\ highWater \in Int
  BY LogShape DEF StoreInv, TypeOK
<1>2. /\ outbox[i].claimId \in ClaimIds /\ Terminal(outbox[i].claimId)
      /\ outbox[i].ack \in 0..MaxTimestamp \cup {NoAck}
  BY <1>1 DEF Entry, StoreInv, OneEntryPerTerminalClaim
<1>3. claims[outbox[i].claimId] \in ClaimRecord
  BY <1>2 DEF StoreInv, TypeOK
<1>4. finalAt(i) \in 0..MaxTimestamp
  BY <1>3 DEF finalAt, ClaimRecord
<1> QED
  BY <1>1, <1>2, <1>4, StoreAssumption DEF NoAck

-----------------------------------------------------------------------------
(* A step that commits nothing keeps the stamps in order.                  *)
LEMMA QuietKeepsTimes ==
  ASSUME StoreInv, StoreInv', Stamped, \A x \in ClaimIds : ClaimKept(x), KeepsTimes
  PROVE  Stamped'
<1>1. ASSUME NEW i \in 1..Len(outbox) PROVE finalAt(i)' = finalAt(i)
  <2>1. outbox[i].claimId \in ClaimIds /\ Terminal(outbox[i].claimId)
    BY TimesTyped
  <2>2. claims'[outbox[i].claimId].finalizedAt = claims[outbox[i].claimId].finalizedAt
    BY <2>1 DEF ClaimKept, CommitFacts
  <2> QED
    BY <2>2 DEF finalAt, KeepsTimes
<1>2. highWater \in Int /\ highWater' \in Int
  BY DEF StoreInv, TypeOK
<1>3. ASSUME NEW i \in 1..Len(outbox) PROVE StampedBefore(i)'
  <2>1. StampedBefore(i) /\ finalAt(i) \in Int /\ outbox[i].ack \in Int
    BY TimesTyped DEF Stamped
  <2>2. \/ outbox'[i].ack = outbox[i].ack
        \/ outbox[i].ack = NoAck /\ outbox'[i].ack = highWater'
    BY DEF KeepsTimes
  <2> QED
    BY <1>1, <1>2, <2>1, <2>2 DEF StampedBefore, KeepsTimes
<1>4. ASSUME NEW i \in 1..Len(outbox), NEW j \in 1..Len(outbox), i < j
      PROVE  StampedInOrder(i, j)'
  <2>1. finalAt(i)' <= finalAt(j)'
    BY <1>1, <1>4 DEF Stamped, StampedInOrder
  <2>2. ASSUME outbox'[j].ack # NoAck PROVE outbox'[i].ack <= outbox'[j].ack
    <3>1. i \in 1..(j - 1) /\ DOMAIN outbox = 1..Len(outbox) /\ DOMAIN outbox' = 1..Len(outbox)
      BY <1>4, TimesTyped, LogShape, LenProperties DEF StoreInv, TypeOK, KeepsTimes
    <3>2. outbox'[i].ack # NoAck
      BY <2>2, <3>1 DEF StoreInv, LogInOrder, InOrder
    <3>3. CASE outbox[j].ack # NoAck
      <4>1. outbox[i].ack # NoAck /\ outbox[i].ack <= outbox[j].ack
        BY <1>4, <3>1, <3>3 DEF StoreInv, LogInOrder, InOrder, Stamped, StampedInOrder
      <4> QED
        BY <3>3, <4>1 DEF KeepsTimes
    <3>4. CASE outbox[j].ack = NoAck
      <4>1. outbox'[j].ack = highWater'
        BY <2>2, <3>4 DEF KeepsTimes
      <4>2. outbox'[i].ack <= highWater'
        BY <1>3, <3>2 DEF StampedBefore
      <4> QED
        BY <4>1, <4>2
    <3> QED
      BY <3>3, <3>4
  <2> QED
    BY <2>1, <2>2 DEF StampedInOrder
<1> QED
  BY <1>3, <1>4 DEF Stamped, KeepsTimes

(* A commit is stamped with the reading that becomes the mark.             *)
LEMMA CommitKeepsTimes ==
  ASSUME StoreInv, Stamped, NEW id \in ClaimIds, NEW terminal, NEW body, NEW horizon,
         claims[id].state = "evaluating", CommitTerminal(id, terminal, body, horizon),
         highWater <= now, highWater' = now
  PROVE  Stamped'
<1>1. CommitDelta(id, terminal, body, horizon) /\ Len(outbox) \in Nat /\ now \in Int
      /\ highWater \in Int
  BY CommitEffect, LogShape DEF StoreInv, TypeOK
<1> PICK n \in Int : n = Len(outbox) + 1
  BY <1>1
<1>2. /\ Len(outbox') = n /\ outbox'[n].claimId = id /\ outbox'[n].ack = NoAck
      /\ finalAt(n)' = now /\ n \in Int
  BY <1>1 DEF CommitDelta, finalAt
<1>3. ASSUME NEW i \in 1..Len(outbox)
      PROVE  /\ finalAt(i)' = finalAt(i) /\ outbox'[i].ack = outbox[i].ack
             /\ StampedBefore(i) /\ finalAt(i) \in Int /\ outbox[i].ack \in Int
  <2>1. outbox[i].claimId \in ClaimIds \ {id} /\ finalAt(i) \in Int /\ outbox[i].ack \in Int
    BY TimesTyped DEF Terminal
  <2> QED
    BY <1>1, <2>1 DEF CommitDelta, finalAt, Stamped
<1>4. ASSUME NEW i \in 1..n PROVE StampedBefore(i)'
  <2>1. CASE i = n
    BY <1>1, <1>2, <2>1 DEF StampedBefore
  <2>2. CASE i \in 1..Len(outbox)
    BY <1>1, <1>3, <2>2 DEF StampedBefore
  <2> QED
    BY <1>1, <2>1, <2>2
<1>5. ASSUME NEW i \in 1..n, NEW j \in 1..n, i < j PROVE StampedInOrder(i, j)'
  <2>1. i \in 1..Len(outbox)
    BY <1>1, <1>5
  <2>2. CASE j = n
    BY <1>1, <1>2, <1>3, <2>1, <2>2 DEF StampedInOrder, StampedBefore
  <2>3. CASE j \in 1..Len(outbox)
    BY <1>3, <1>5, <2>1, <2>3 DEF StampedInOrder, Stamped
  <2> QED
    BY <1>1, <2>2, <2>3
<1> QED
  BY <1>2, <1>4, <1>5 DEF Stamped

-----------------------------------------------------------------------------
(* What a submission stamps, it stamps with the reading it leaves as mark. *)
LEMMA AcknowledgePendingTimes ==
  ASSUME StoreInv, NEW log \in Seq(Entry), Len(log) = Len(outbox),
         \A i \in 1..Len(outbox) : log[i].claimId = outbox[i].claimId /\ log[i].ack = outbox[i].ack,
         ReadClockIf(PendingReadsClock(log)), outbox' = AcknowledgePending(log)
  PROVE  KeepsTimes
<1>1. TypeOK /\ PendingReadsClock(log) \in BOOLEAN
  BY DEF StoreInv, PendingReadsClock
<1>2. /\ highWater <= highWater'
      /\ PendingReadsClock(log) /\ ClockOk => highWater' = now
  BY <1>1, HighWaterForward
<1>3. Len(outbox') = Len(outbox)
  BY <1>1, AcknowledgePendingTyped
<1>4. ASSUME NEW i \in 1..Len(outbox)
      PROVE  /\ outbox'[i].claimId = outbox[i].claimId
             /\ \/ outbox'[i].ack = outbox[i].ack
                \/ outbox[i].ack = NoAck /\ outbox'[i].ack = highWater'
  <2>1. log[i] \in Entry
    BY ElementOfSeq
  <2>2. outbox'[i].claimId = outbox[i].claimId
    BY <1>1, AcknowledgePendingKeeps
  <2>3. outbox'[i] = IF i \in Pending(log) /\ ~checkpointFrozen /\ ClockOk
                     THEN [log[i] EXCEPT !.ack = now] ELSE log[i]
    BY <1>1, AcknowledgePendingTyped
  <2>4. CASE i \in Pending(log) /\ ~checkpointFrozen /\ ClockOk
    <3>1. log[i].ack = NoAck /\ PendingReadsClock(log)
      BY <2>4 DEF Pending, PendingReadsClock
    <3>2. outbox'[i].ack = now
      BY <2>1, <2>3, <2>4 DEF Entry
    <3> QED
      BY <1>2, <2>2, <2>4, <3>1, <3>2
  <2>5. CASE ~(i \in Pending(log) /\ ~checkpointFrozen /\ ClockOk)
    BY <2>2, <2>3, <2>5
  <2> QED
    BY <2>4, <2>5
<1> QED
  BY <1>2, <1>3, <1>4 DEF KeepsTimes

(* A step that leaves the log and does not move the clock back.            *)
LEMMA SameLogTimes ==
  ASSUME outbox' = outbox, highWater <= highWater'
  PROVE  KeepsTimes
BY DEF KeepsTimes

(* publish_v2_receipt stamps what it submits.                              *)
LEMMA PublishTimes ==
  ASSUME StoreInv, NEW id \in ClaimIds, NEW body \in Bodies, NEW ok \in BOOLEAN,
         Publish(id, body, ok)
  PROVE  KeepsTimes
<1> DEFINE n == claims[id].outboxIndex
           log == Appended(n)
<1>1. TypeOK /\ highWater \in Int
  BY DEF StoreInv, TypeOK
<1>2. CASE PublishResult(id, body, ok) # "appended"
  BY <1>1, <1>2, SameLogTimes DEF Publish, ReadClockIf
<1>3. CASE PublishResult(id, body, ok) = "appended"
  <2>1. Terminal(id)
    BY <1>3 DEF PublishResult, Terminal
  <2>2. n \in 1..Len(outbox) /\ n \in Nat
    BY <1>1, <2>1, LogShape DEF StoreInv, OneEntryPerTerminalClaim
  <2>3. log \in Seq(Entry) /\ Len(log) = Len(outbox)
    BY <1>1, <2>2, AppendedTyped
  <2>4. ASSUME NEW i \in 1..Len(outbox)
        PROVE  log[i].claimId = outbox[i].claimId /\ log[i].ack = outbox[i].ack
    <3>1. outbox[i] \in Entry /\ outbox[n] \in Entry
      BY <1>1, <2>2, LogShape
    <3>2. log[i] = IF i = n THEN [outbox[n] EXCEPT !.published = TRUE, !.digest = n]
                            ELSE outbox[i]
      BY <1>1, <2>2, AppendedTyped
    <3> HIDE DEF log, n
    <3> QED
      BY <3>1, <3>2 DEF Entry
  <2>5. /\ outbox' = IF ackWithheld THEN log ELSE AcknowledgePending(log)
        /\ ReadClockIf(~ackWithheld /\ PendingReadsClock(log))
    BY <1>3 DEF Publish
  <2> HIDE DEF log, n
  <2>6. CASE ackWithheld
    <3>1. highWater' = highWater
      BY <2>5, <2>6 DEF ReadClockIf
    <3> QED
      BY <1>1, <2>3, <2>4, <2>5, <2>6, <3>1 DEF KeepsTimes
  <2>7. CASE ~ackWithheld
    <3>1. ReadClockIf(PendingReadsClock(log)) /\ outbox' = AcknowledgePending(log)
      BY <2>5, <2>7 DEF ReadClockIf
    <3> QED
      BY <2>3, <2>4, <3>1, AcknowledgePendingTimes
  <2> QED
    BY <2>6, <2>7
<1> QED
  BY <1>2, <1>3

(* The checkpoint stamps what it acknowledges with its own reading.        *)
LEMMA CheckpointTimes ==
  ASSUME StoreInv, CheckpointStep
  PROVE  KeepsTimes
<1>1. /\ TypeOK /\ highWater \in Int /\ outbox \in Seq(Entry) /\ Len(outbox) \in Nat
      /\ DOMAIN outbox = 1..Len(outbox)
  BY LogShape DEF StoreInv, TypeOK
<1>2. ASSUME NEW withheld \in BOOLEAN, SetAcknowledgementWithheld(withheld) PROVE KeepsTimes
  <2>1. CASE withheld
    BY <1>1, <1>2, <2>1, SameLogTimes DEF SetAcknowledgementWithheld, ReadClockIf
  <2>2. CASE ~withheld
    <3>1. ReadClockIf(PendingReadsClock(outbox)) /\ outbox' = AcknowledgePending(outbox)
      BY <1>2, <2>2 DEF SetAcknowledgementWithheld, ReadClockIf
    <3> QED
      BY <1>1, <3>1, AcknowledgePendingTimes
  <2> QED
    BY <2>1, <2>2
<1>3. ASSUME NEW seq, NEW previous, NEW hash, AcknowledgeReceipt(seq, previous, hash)
      PROVE  KeepsTimes
  <2>1. CASE AcknowledgeResult(seq, previous, hash) # "acknowledged"
    BY <1>1, <1>3, <2>1, SameLogTimes DEF AcknowledgeReceipt
  <2>2. CASE AcknowledgeResult(seq, previous, hash) = "acknowledged"
    <3>1. /\ seq \in 1..Len(outbox) /\ ClockOk /\ outbox[seq].ack = NoAck
      BY <2>2 DEF AcknowledgeResult, ClockOk, ClockReading
    <3>2. highWater <= highWater' /\ highWater' = now
      BY <1>1, <1>3, <2>2, <3>1, HighWaterForward DEF AcknowledgeReceipt
    <3>3. outbox' = [outbox EXCEPT ![seq] = [outbox[seq] EXCEPT !.ack = now]]
      BY <1>3, <2>2 DEF AcknowledgeReceipt
    <3>4. /\ Len(outbox') = Len(outbox)
          /\ \A i \in 1..Len(outbox) : outbox'[i] =
               IF i = seq THEN [outbox[seq] EXCEPT !.ack = now] ELSE outbox[i]
      BY <1>1, <3>1, <3>3
    <3>5. ASSUME NEW i \in 1..Len(outbox)
          PROVE  /\ outbox'[i].claimId = outbox[i].claimId
                 /\ \/ outbox'[i].ack = outbox[i].ack
                    \/ outbox[i].ack = NoAck /\ outbox'[i].ack = highWater'
      <4>1. outbox[i] \in Entry /\ outbox[seq] \in Entry
        BY <1>1, <3>1, LogShape
      <4> QED
        BY <3>1, <3>2, <3>4, <4>1 DEF Entry
    <3> QED
      BY <3>2, <3>4, <3>5 DEF KeepsTimes
  <2> QED
    BY <2>1, <2>2
<1> QED
  BY <1>2, <1>3 DEF CheckpointStep

-----------------------------------------------------------------------------
(* Every method keeps the stamps of the log in order.                      *)
LEMMA NextKeepsTimes ==
  StoreInv /\ StoreInv' /\ Stamped /\ [Next]_storeVars => Stamped'
<1> SUFFICES ASSUME StoreInv, StoreInv', Stamped, [Next]_storeVars PROVE Stamped'
  OBVIOUS
<1>1. TypeOK /\ highWater \in Int /\ \A x \in ClaimIds : ClaimKept(x)
  BY NextKeepsClaims DEF StoreInv, TypeOK
<1>2. ASSUME KeepsTimes PROVE Stamped'
  BY <1>1, <1>2, QuietKeepsTimes
<1>3. ASSUME outbox' = outbox, NEW reads \in BOOLEAN, ReadClockIf(reads) PROVE Stamped'
  BY <1>1, <1>2, <1>3, HighWaterForward, SameLogTimes
<1>4. ASSUME outbox' = outbox, highWater' = highWater PROVE Stamped'
  BY <1>1, <1>2, <1>4, SameLogTimes
<1>5. CASE ClockStep
  BY <1>3, <1>4, <1>5 DEF ClockStep, SetTime, AuthoritativeTime
<1>6. CASE ClaimStep
  <2>1. PICK c \in Claims, ok \in BOOLEAN : Claim(c, ok)
    BY <1>6 DEF ClaimStep
  <2>2. outbox' = outbox /\ ReadClockIf(c.id = c.key)
    BY <2>1 DEF Claim
  <2> QED
    BY <1>3, <2>2
<1>7. CASE FinalizeStep
  <2> SUFFICES ASSUME NEW id \in ClaimIds, NEW token \in ClaimIds, NEW b \in Bodies,
                      NEW h \in Horizons, NEW ok \in BOOLEAN, NEW t,
                      Finalize(id, token, t, b, h, ok)
               PROVE  Stamped'
    BY <1>7 DEF FinalizeStep, Anchoring
  <2>1. ReadClockIf(OwnerReadsClock(id, token))
    BY DEF Finalize
  <2>2. CASE FinalizeResult(id, token, t, b, h, ok) = "committed"
    <3>1. OwnerResult(id, token) = "ok"
      BY <2>2 DEF FinalizeResult, OwnerResult, ClockReading
    <3>2. claims[id].state = "evaluating" /\ ClockOk
      BY <1>1, <3>1, OwnerOk
    <3>3. OwnerReadsClock(id, token)
      BY <3>1, <3>2 DEF OwnerReadsClock, OwnerResult, ClockOk, ClockReading
    <3>4. highWater' = now /\ highWater <= now
      BY <1>1, <2>1, <3>2, <3>3, GoodReading DEF ReadClockIf, HighWaterAfterRead
    <3> QED
      BY <2>2, <3>2, <3>4, CommitKeepsTimes DEF Finalize
  <2>3. CASE FinalizeResult(id, token, t, b, h, ok) # "committed"
    <3>1. outbox' = outbox /\ OwnerReadsClock(id, token) \in BOOLEAN
      BY <2>3 DEF Finalize, OwnerReadsClock
    <3> QED
      BY <1>3, <2>1, <3>1
  <2> QED
    BY <2>2, <2>3
<1>8. CASE RecoveryStep
  <2>1. ASSUME NEW id \in ClaimIds, LoadInterrupted(id) \/ LoadCommitted(id) PROVE Stamped'
    BY <1>3, <2>1 DEF LoadInterrupted, LoadCommitted
  <2>2. ASSUME NEW id \in ClaimIds, NEW b \in Bodies, NEW ok \in BOOLEAN, NEW t,
               Recover(id, t, b, ok)
        PROVE  Stamped'
    <3>1. CASE RecoverResult(id, t, b, ok) = "committed"
      <4>1. claims[id].state = "evaluating" /\ ClockOk
        BY <1>1, <3>1, RecoverCommittable
      <4>2. highWater' = now /\ highWater <= now
        BY <1>1, <2>2, <4>1, GoodReading DEF Recover, ReadClockIf, HighWaterAfterRead
      <4> QED
        BY <2>2, <3>1, <4>1, <4>2, CommitKeepsTimes DEF Recover
    <3>2. CASE RecoverResult(id, t, b, ok) # "committed"
      BY <1>3, <2>2, <3>2 DEF Recover
    <3> QED
      BY <3>1, <3>2
  <2> QED
    BY <1>8, <2>1, <2>2 DEF RecoveryStep, Anchoring
<1>9. CASE PublishStep
  BY <1>2, <1>9, PublishTimes DEF PublishStep, Anchoring
<1>10. CASE CheckpointStep
  BY <1>2, <1>10, CheckpointTimes
<1>11. CASE SignerStep \/ AbandonStep \/ UNCHANGED storeVars
  BY <1>4, <1>11 DEF SignerStep, SetSignerFailure, AbandonStep, AbandonPendingReceipts,
                     clockVars, storeVars
<1>12. CASE ProgressStep
  <2>1. PICK id, token : outbox' = outbox /\ ReadClockIf(OwnerReadsClock(id, token))
    BY <1>12 DEF ProgressStep, RecordProgress
  <2>2. OwnerReadsClock(id, token) \in BOOLEAN
    BY DEF OwnerReadsClock
  <2> QED
    BY <1>3, <2>1, <2>2
<1>13. CASE ReleaseStep
  BY <1>4, <1>13 DEF ReleaseStep, RecordRelease, clockVars
<1> QED
  BY <1>5, <1>6, <1>7, <1>8, <1>9, <1>10, <1>11, <1>12, <1>13 DEF Next

(* Time runs forward along the receipt log although the clock does not:    *)
(* commits and acknowledgements are in order, and nothing is later than    *)
(* the mark (read_clock_locked, acknowledge_pending_locked).               *)
THEOREM LogTimes == Spec => []LogTimesForward
<1>1. Init => Stamped
  BY DEF Init, Stamped
<1>2. StoreInv /\ StoreInv' /\ Stamped /\ [Next]_storeVars => Stamped'
  BY NextKeepsTimes
<1>3. StoreInv /\ Stamped => LogTimesForward
  BY StampedIsForward DEF StoreInv
<1> QED
  BY <1>1, <1>2, <1>3, StoreInvariant, PTL DEF Spec

-----------------------------------------------------------------------------
(* The streams are contiguous: only claim_v2 moves a stream, by one, and   *)
(* together with the one claim it accepts.                                 *)

Members(s) == {id \in ClaimIds : Accepted(id) /\ claims[id].claim.stream = s}
Sequences(s) == {claims[id].claim.seq : id \in Members(s)}

(* The claims of a stream are finitely many, one for each sequence up to   *)
(* the last.                                                               *)
StreamInv ==
  \A s \in Streams : /\ IsFiniteSet(Members(s))
                     /\ Sequences(s) = 1..streams[s]
                     /\ Cardinality(Members(s)) = streams[s]

-----------------------------------------------------------------------------
(* A step that accepts no claim leaves every stream as it is.              *)
LEMMA QuietKeepsStreams ==
  ASSUME StreamInv, \A x \in ClaimIds : ClaimKept(x), NoNewClaim, streams' = streams
  PROVE  StreamInv'
<1>1. ASSUME NEW x \in ClaimIds
      PROVE  /\ Accepted(x)' <=> Accepted(x)
             /\ Accepted(x) => claims'[x].claim = claims[x].claim
  BY DEF NoNewClaim, ClaimKept, ClaimFacts
<1>2. ASSUME NEW s \in Streams PROVE Members(s)' = Members(s) /\ Sequences(s)' = Sequences(s)
  <2>1. Members(s)' = Members(s)
    BY <1>1 DEF Members
  <2> QED
    BY <1>1, <2>1 DEF Sequences, Members
<1> QED
  BY <1>2 DEF StreamInv

(* claim_v2 accepts the next sequence of its stream and moves the stream.  *)
LEMMA CreatedKeepsStreams ==
  ASSUME TypeOK, StreamInv, NEW c \in Claims, NEW ok \in BOOLEAN, Claim(c, ok),
         ClaimResult(c, ok) = "created"
  PROVE  StreamInv'
<1>1. c.id \in ClaimIds /\ claims[c.id].state = "absent"
  BY CreatedFresh
<1>2. /\ claims'[c.id] = NewRecord(c)
      /\ \A x \in ClaimIds \ {c.id} : claims'[x] = claims[x]
  BY <1>1 DEF Claim, TypeOK
<1>3. NewRecord(c).state = "evaluating" /\ NewRecord(c).claim = c
  BY DEF NewRecord, Absent
<1>4. ASSUME NEW s \in Streams, c.stream # s
      PROVE  Members(s)' = Members(s) /\ Sequences(s)' = Sequences(s)
  <2>1. Members(s)' = Members(s)
    BY <1>1, <1>2, <1>3, <1>4 DEF Members, Accepted
  <2>2. \A x \in Members(s) : claims'[x] = claims[x]
    BY <1>1, <1>2 DEF Members, Accepted
  <2> QED
    BY <2>1, <2>2 DEF Sequences
<1>5. /\ HasStream(c) => c.stream \in Streams /\ c.seq = streams[c.stream] + 1
      /\ ~HasStream(c) => c.stream \notin Streams
  <2>1. StreamResult(c) = "ok" /\ c.stream \in Streams \cup {NoStream}
    BY StoreAssumption DEF ClaimResult, StreamResult, StreamSequenceResult, ClaimType
  <2> QED
    BY <2>1, StoreAssumption DEF StreamResult, StreamSequenceResult, HasStream
<1>6. CASE ~HasStream(c)
  <2>1. streams' = streams
    BY <1>6 DEF Claim
  <2> QED
    BY <1>4, <1>5, <1>6, <2>1 DEF StreamInv
<1>7. CASE HasStream(c)
  <2> DEFINE s == c.stream
             n == streams[s]
  <2>1. /\ streams' = [streams EXCEPT ![s] = c.seq] /\ s \in Streams /\ n \in Nat
        /\ c.seq = n + 1
    BY <1>5, <1>7, StoreAssumption DEF Claim, TypeOK
  <2>2. streams'[s] = n + 1 /\ \A other \in Streams \ {s} : streams'[other] = streams[other]
    BY <2>1 DEF TypeOK
  <2>3. Members(s)' = Members(s) \cup {c.id} /\ c.id \notin Members(s)
    BY <1>1, <1>2, <1>3 DEF Members, Accepted
  <2>4. Sequences(s)' = Sequences(s) \cup {n + 1}
    <3>1. \A x \in Members(s) : claims'[x] = claims[x]
      BY <1>1, <1>2 DEF Members, Accepted
    <3>2. claims'[c.id].claim.seq = n + 1
      BY <1>2, <1>3, <2>1
    <3> QED
      BY <2>3, <3>1, <3>2 DEF Sequences
  <2>5. IsFiniteSet(Members(s)) /\ Cardinality(Members(s)) = n /\ Sequences(s) = 1..n
    BY <2>1 DEF StreamInv
  <2>6. IsFiniteSet(Members(s)') /\ Cardinality(Members(s)') = n + 1
    <3>1. \A S : IsFiniteSet(S) /\ c.id \notin S =>
             IsFiniteSet(S \cup {c.id}) /\ Cardinality(S \cup {c.id}) = Cardinality(S) + 1
      BY FS_AddElement
    <3> QED
      BY <2>3, <2>5, <3>1
  <2>7. Sequences(s)' = 1..(n + 1)
    <3>1. 1..(n + 1) = (1..n) \cup {n + 1}
      BY <2>1
    <3> QED
      BY <2>4, <2>5, <3>1
  <2>8. ASSUME NEW t \in Streams
        PROVE  /\ IsFiniteSet(Members(t)') /\ Sequences(t)' = 1..streams'[t]
               /\ Cardinality(Members(t)') = streams'[t]
    <3>1. CASE t = c.stream
      BY <2>2, <2>6, <2>7, <3>1
    <3>2. CASE t # c.stream
      BY <1>4, <2>2, <3>2 DEF StreamInv
    <3> QED
      BY <3>1, <3>2
  <2> QED
    BY <2>8 DEF StreamInv
<1> QED
  BY <1>6, <1>7

-----------------------------------------------------------------------------
(* No method but claim_v2 accepts a claim or moves a stream.               *)
LEMMA OnlyClaimAccepts ==
  ASSUME TypeOK, [Next]_storeVars, ~ClaimStep
  PROVE  NoNewClaim /\ streams' = streams
<1>1. streams' = streams
  BY DEF Next, ClockStep, SetTime, AuthoritativeTime, FinalizeStep, Finalize, ProgressStep,
         RecordProgress, RecoveryStep, LoadInterrupted, LoadCommitted, Recover, PublishStep,
         Publish, CheckpointStep, AcknowledgeReceipt, SetAcknowledgementWithheld, SignerStep,
         SetSignerFailure, AbandonStep, AbandonPendingReceipts, ReleaseStep, RecordRelease,
         storeVars
<1> SUFFICES NoNewClaim
  BY <1>1
<1>2. ASSUME \A x \in ClaimIds : claims'[x].state = claims[x].state PROVE NoNewClaim
  BY <1>2 DEF NoNewClaim, Accepted
<1>3. ASSUME UNCHANGED claims PROVE NoNewClaim
  BY <1>2, <1>3
<1>4. ASSUME NEW id \in ClaimIds, NEW t, NEW b, NEW h, CommitTerminal(id, t, b, h),
             claims[id].state = "evaluating"
      PROVE  NoNewClaim
  <2>1. \A x \in ClaimIds \ {id} : claims'[x] = claims[x]
    BY <1>4 DEF CommitTerminal, TypeOK
  <2> QED
    BY <1>4, <2>1 DEF NoNewClaim, Accepted
<1>5. CASE ClockStep \/ PublishStep \/ CheckpointStep \/ SignerStep \/ UNCHANGED storeVars
  BY <1>3, <1>5 DEF ClockStep, SetTime, AuthoritativeTime, PublishStep, Publish, CheckpointStep,
                    AcknowledgeReceipt, SetAcknowledgementWithheld, SignerStep, SetSignerFailure,
                    storeVars
<1>6. CASE FinalizeStep
  <2> SUFFICES ASSUME NEW id \in ClaimIds, NEW token \in ClaimIds, NEW b \in Bodies,
                      NEW h \in Horizons, NEW ok \in BOOLEAN, NEW t,
                      Finalize(id, token, t, b, h, ok)
               PROVE  NoNewClaim
    BY <1>6 DEF FinalizeStep, Anchoring
  <2>1. CASE FinalizeResult(id, token, t, b, h, ok) = "committed"
    <3>1. claims[id].state = "evaluating"
      BY <2>1, FinalizeCommittable DEF Committable
    <3> QED
      BY <1>4, <2>1, <3>1 DEF Finalize
  <2> QED
    BY <1>3, <2>1 DEF Finalize
<1>7. CASE RecoveryStep
  <2>1. ASSUME NEW id \in ClaimIds, LoadInterrupted(id) \/ LoadCommitted(id)
        PROVE  NoNewClaim
    BY <1>3, <2>1 DEF LoadInterrupted, LoadCommitted
  <2>2. ASSUME NEW id \in ClaimIds, NEW b \in Bodies, NEW ok \in BOOLEAN, NEW t,
               Recover(id, t, b, ok)
        PROVE  NoNewClaim
    <3>1. CASE RecoverResult(id, t, b, ok) = "committed"
      <4>1. claims[id].state = "evaluating"
        BY <3>1, RecoverCommittable
      <4> QED
        BY <1>4, <2>2, <3>1, <4>1 DEF Recover
    <3> QED
      BY <1>3, <2>2, <3>1 DEF Recover
  <2> QED
    BY <1>7, <2>1, <2>2 DEF RecoveryStep, Anchoring
<1>8. ASSUME NEW id \in ClaimIds, NEW p,
             \/ claims' = [claims EXCEPT ![id].progress = p]
             \/ claims' = [claims EXCEPT ![id].release = p]
      PROVE  NoNewClaim
  <2>1. claims \in [ClaimIds -> ClaimRecord] /\ claims[id] \in ClaimRecord
    BY DEF TypeOK
  <2>2. /\ [claims[id] EXCEPT !.progress = p].state = claims[id].state
        /\ [claims[id] EXCEPT !.release = p].state = claims[id].state
    BY <2>1 DEF ClaimRecord
  <2> QED
    BY <1>2, <1>8, <2>1, <2>2
<1>9. CASE ProgressStep
  <2>1. PICK id, p : /\ id \in ClaimIds
                     /\ \/ claims' = [claims EXCEPT ![id].progress = p]
                        \/ claims' = claims
    BY <1>9 DEF ProgressStep, RecordProgress
  <2> QED
    BY <1>3, <1>8, <2>1
<1>10. CASE ReleaseStep
  <2>1. PICK id, rel : /\ id \in ClaimIds
                       /\ \/ claims' = [claims EXCEPT ![id].release = rel]
                          \/ claims' = claims
    BY <1>10 DEF ReleaseStep, RecordRelease
  <2> QED
    BY <1>3, <1>8, <2>1
<1>11. CASE AbandonStep
  <2>1. ASSUME NEW x \in ClaimIds PROVE claims'[x].state = claims[x].state
    <3>1. claims'[x] = claims[x] \/ claims'[x] = [claims[x] EXCEPT !.abandoned = TRUE]
      BY <1>11 DEF AbandonStep, AbandonPendingReceipts
    <3>2. claims[x] \in ClaimRecord
      BY DEF TypeOK
    <3> QED
      BY <3>1, <3>2 DEF ClaimRecord
  <2> QED
    BY <1>2, <2>1
<1> QED
  BY <1>5, <1>6, <1>7, <1>9, <1>10, <1>11 DEF Next

(* Every method keeps every stream contiguous.                             *)
LEMMA NextKeepsStreams ==
  StoreInv /\ StreamInv /\ [Next]_storeVars => StreamInv'
<1> SUFFICES ASSUME StoreInv, StreamInv, [Next]_storeVars PROVE StreamInv'
  OBVIOUS
<1>1. TypeOK /\ \A x \in ClaimIds : ClaimKept(x)
  BY NextKeepsClaims DEF StoreInv
<1>2. CASE ~ClaimStep
  BY <1>1, <1>2, OnlyClaimAccepts, QuietKeepsStreams
<1>3. CASE ClaimStep
  <2>1. PICK c \in Claims, ok \in BOOLEAN : Claim(c, ok)
    BY <1>3 DEF ClaimStep
  <2>2. CASE ClaimResult(c, ok) = "created"
    BY <1>1, <2>1, <2>2, CreatedKeepsStreams
  <2>3. CASE ClaimResult(c, ok) # "created"
    BY <1>1, <2>1, <2>3, QuietKeepsStreams DEF Claim, NoNewClaim, Accepted
  <2> QED
    BY <2>2, <2>3
<1> QED
  BY <1>2, <1>3

(* The accepted claims of a stream carry exactly the sequences 1 to its    *)
(* last, each of them once (claim_v2, check_v2_stream_sequence).           *)
THEOREM StreamsContiguous == Spec => []StreamContiguous
<1>1. Init => StreamInv
  <2> SUFFICES ASSUME Init, NEW s \in Streams
               PROVE  /\ IsFiniteSet(Members(s)) /\ Sequences(s) = 1..streams[s]
                      /\ Cardinality(Members(s)) = streams[s]
    BY DEF StreamInv
  <2>1. \A id \in ClaimIds : Absent(id).state = "absent"
    BY DEF Absent
  <2>2. Members(s) = {} /\ Sequences(s) = {}
    BY <2>1 DEF Init, Members, Sequences, Accepted
  <2>3. streams[s] = 0
    BY DEF Init
  <2> QED
    BY <2>2, <2>3, FS_EmptySet
<1>2. StoreInv /\ StreamInv /\ [Next]_storeVars => StreamInv'
  BY NextKeepsStreams
<1>3. StreamInv => StreamContiguous
  BY DEF StreamInv, StreamContiguous, Members, Sequences
<1> QED
  BY <1>1, <1>2, <1>3, StoreInvariant, PTL DEF Spec

-----------------------------------------------------------------------------
(* The log is append only.  Callers of the store that go on after a call   *)
(* (module Release) rely on it: what they read of a receipt stays true.    *)

(* What no step may do to an entry of the log.                             *)
EntryKept(i) ==
  /\ outbox'[i].claimId = outbox[i].claimId /\ outbox'[i].body = outbox[i].body
  /\ outbox[i].published => outbox'[i].published /\ outbox'[i].digest = outbox[i].digest
  /\ (outbox[i].ack # NoAck \/ checkpointFrozen) => outbox'[i].ack = outbox[i].ack
  /\ outbox'[i].published /\ ~outbox[i].published => outbox'[i].digest = i

LogKept ==
  /\ Len(outbox) <= Len(outbox')
  /\ \A i \in 1..Len(outbox) : EntryKept(i)
  /\ \A i \in 1..Len(outbox') : i > Len(outbox) => ~outbox'[i].published

(* The digest of an appended entry is its position.                        *)
DigestsNameEntries ==
  \A i \in 1..Len(outbox) : outbox[i].published => outbox[i].digest = i

(* A step that leaves the log alone keeps it.                              *)
LEMMA SameLogKept ==
  ASSUME TypeOK, outbox' = outbox
  PROVE  LogKept
BY LogShape DEF LogKept, EntryKept

(* A submission exchanges nothing of an entry but a missing                *)
(* acknowledgement, and after a fork not even that.                        *)
LEMMA SubmissionKeepsEntries ==
  ASSUME TypeOK, NEW log \in Seq(Entry), NEW i \in 1..Len(log),
         log[i].ack # NoAck \/ checkpointFrozen
  PROVE  AcknowledgePending(log)[i].ack = log[i].ack
<1>1. AcknowledgePending(log)[i] = IF i \in Pending(log) /\ ~checkpointFrozen /\ ClockOk
                                   THEN [log[i] EXCEPT !.ack = now] ELSE log[i]
  BY AcknowledgePendingTyped
<1>2. ~(i \in Pending(log) /\ ~checkpointFrozen)
  BY DEF Pending
<1> QED
  BY <1>1, <1>2

(* publish_v2_receipt signs an entry once and gives it its own digest.     *)
LEMMA PublishKeepsLog ==
  ASSUME StoreInv, NEW id \in ClaimIds, NEW body \in Bodies, NEW ok \in BOOLEAN,
         Publish(id, body, ok)
  PROVE  LogKept
<1> DEFINE n == claims[id].outboxIndex
           log == Appended(n)
<1>1. TypeOK
  BY DEF StoreInv
<1>2. CASE PublishResult(id, body, ok) # "appended"
  BY <1>1, <1>2, SameLogKept DEF Publish
<1>3. CASE PublishResult(id, body, ok) = "appended"
  <2>1. Terminal(id) /\ ~outbox[n].published
    BY <1>3 DEF PublishResult, Terminal
  <2>2. n \in 1..Len(outbox) /\ n \in Nat /\ Len(outbox) \in Nat
    BY <1>1, <2>1, LogShape DEF StoreInv, OneEntryPerTerminalClaim
  <2>3. log \in Seq(Entry) /\ Len(log) = Len(outbox)
    BY <1>1, <2>2, AppendedTyped
  <2>4. ASSUME NEW i \in 1..Len(outbox)
        PROVE  /\ log[i].claimId = outbox[i].claimId /\ log[i].body = outbox[i].body
               /\ log[i].ack = outbox[i].ack
               /\ i # n => log[i] = outbox[i]
               /\ i = n => log[i].published /\ log[i].digest = i
    <3>1. outbox[i] \in Entry /\ outbox[n] \in Entry
      BY <1>1, <2>2, LogShape
    <3>2. log[i] = IF i = n THEN [outbox[n] EXCEPT !.published = TRUE, !.digest = n]
                            ELSE outbox[i]
      BY <1>1, <2>2, AppendedTyped
    <3> HIDE DEF log, n
    <3> QED
      BY <3>1, <3>2 DEF Entry
  <2>5. outbox' = IF ackWithheld THEN log ELSE AcknowledgePending(log)
    BY <1>3 DEF Publish
  <2> HIDE DEF log, n
  <2>6. /\ Len(outbox') = Len(outbox)
        /\ \A i \in 1..Len(outbox) :
             /\ outbox'[i].claimId = log[i].claimId /\ outbox'[i].body = log[i].body
             /\ outbox'[i].published = log[i].published /\ outbox'[i].digest = log[i].digest
             /\ (log[i].ack # NoAck \/ checkpointFrozen) => outbox'[i].ack = log[i].ack
    <3>1. CASE ackWithheld
      BY <2>3, <2>5, <3>1
    <3>2. CASE ~ackWithheld
      BY <1>1, <2>3, <2>5, <3>2, AcknowledgePendingTyped, AcknowledgePendingKeeps,
         SubmissionKeepsEntries
    <3> QED
      BY <3>1, <3>2
  <2>7. \A i \in 1..Len(outbox) : EntryKept(i)
    BY <2>1, <2>4, <2>6 DEF EntryKept
  <2> QED
    BY <2>2, <2>6, <2>7 DEF LogKept
<1> QED
  BY <1>2, <1>3

(* The checkpoint acknowledges an entry once.                              *)
LEMMA CheckpointKeepsLog ==
  ASSUME StoreInv, CheckpointStep
  PROVE  LogKept
<1>1. /\ TypeOK /\ outbox \in Seq(Entry) /\ Len(outbox) \in Nat
      /\ DOMAIN outbox = 1..Len(outbox) /\ \A i \in 1..Len(outbox) : outbox[i] \in Entry
  BY LogShape DEF StoreInv, TypeOK
<1>2. ASSUME NEW withheld \in BOOLEAN, SetAcknowledgementWithheld(withheld) PROVE LogKept
  <2>1. CASE withheld
    BY <1>1, <1>2, <2>1, SameLogKept DEF SetAcknowledgementWithheld
  <2>2. CASE ~withheld
    <3>1. outbox' = AcknowledgePending(outbox)
      BY <1>2, <2>2 DEF SetAcknowledgementWithheld
    <3>2. Len(outbox') = Len(outbox)
      BY <1>1, <3>1, AcknowledgePendingTyped
    <3>3. \A i \in 1..Len(outbox) : EntryKept(i)
      BY <1>1, <3>1, AcknowledgePendingKeeps, SubmissionKeepsEntries DEF EntryKept
    <3> QED
      BY <1>1, <3>2, <3>3 DEF LogKept
  <2> QED
    BY <2>1, <2>2
<1>3. ASSUME NEW seq, NEW previous, NEW hash, AcknowledgeReceipt(seq, previous, hash)
      PROVE  LogKept
  <2>1. CASE AcknowledgeResult(seq, previous, hash) # "acknowledged"
    BY <1>1, <1>3, <2>1, SameLogKept DEF AcknowledgeReceipt
  <2>2. CASE AcknowledgeResult(seq, previous, hash) = "acknowledged"
    <3>1. seq \in 1..Len(outbox) /\ outbox[seq].ack = NoAck /\ ~checkpointFrozen
      BY <2>2 DEF AcknowledgeResult, ClockReading
    <3>2. outbox' = [outbox EXCEPT ![seq] = [outbox[seq] EXCEPT !.ack = now]]
      BY <1>3, <2>2 DEF AcknowledgeReceipt
    <3>3. /\ Len(outbox') = Len(outbox)
          /\ \A i \in 1..Len(outbox) : outbox'[i] =
               IF i = seq THEN [outbox[seq] EXCEPT !.ack = now] ELSE outbox[i]
      BY <1>1, <3>1, <3>2
    <3>4. ASSUME NEW i \in 1..Len(outbox) PROVE EntryKept(i)
      <4>1. outbox[i] \in Entry /\ outbox[seq] \in Entry
        BY <1>1, <3>1
      <4> QED
        BY <3>1, <3>3, <4>1 DEF EntryKept, Entry
    <3> QED
      BY <1>1, <3>3, <3>4 DEF LogKept
  <2> QED
    BY <2>1, <2>2
<1> QED
  BY <1>2, <1>3 DEF CheckpointStep

(* A commit adds an entry that is not appended yet.                        *)
LEMMA CommitKeepsLog ==
  ASSUME TypeOK, NEW id \in ClaimIds, NEW terminal, NEW body, NEW horizon,
         CommitTerminal(id, terminal, body, horizon)
  PROVE  LogKept
<1>1. CommitDelta(id, terminal, body, horizon) /\ Len(outbox) \in Nat
  BY CommitEffect, LogShape
<1>2. ~outbox'[Len(outbox) + 1].published
  BY <1>1 DEF CommitDelta
<1>3. \A i \in 1..Len(outbox') : i > Len(outbox) => i = Len(outbox) + 1
  BY <1>1 DEF CommitDelta
<1>4. \A i \in 1..Len(outbox) : outbox'[i] = outbox[i]
  BY <1>1 DEF CommitDelta
<1>5. Len(outbox) <= Len(outbox')
  BY <1>1 DEF CommitDelta
<1> QED
  BY <1>2, <1>3, <1>4, <1>5 DEF LogKept, EntryKept

(* No method changes what must stay of an entry.                           *)
LEMMA NextKeepsLog ==
  StoreInv /\ [Next]_storeVars => LogKept
<1> SUFFICES ASSUME StoreInv, [Next]_storeVars PROVE LogKept
  OBVIOUS
<1>1. TypeOK
  BY DEF StoreInv
<1>2. ASSUME outbox' = outbox PROVE LogKept
  BY <1>1, <1>2, SameLogKept
<1>3. CASE \/ ClockStep \/ ClaimStep \/ ProgressStep \/ SignerStep \/ AbandonStep
           \/ ReleaseStep \/ UNCHANGED storeVars
  BY <1>2, <1>3 DEF ClockStep, SetTime, AuthoritativeTime, ClaimStep, Claim, ProgressStep,
     RecordProgress, SignerStep, SetSignerFailure, AbandonStep, AbandonPendingReceipts,
     ReleaseStep, RecordRelease, storeVars
<1>4. CASE FinalizeStep
  <2> SUFFICES ASSUME NEW id \in ClaimIds, NEW token \in ClaimIds, NEW b \in Bodies,
                      NEW h \in Horizons, NEW ok \in BOOLEAN, NEW t,
                      Finalize(id, token, t, b, h, ok)
               PROVE  LogKept
    BY <1>4 DEF FinalizeStep, Anchoring
  <2>1. CASE FinalizeResult(id, token, t, b, h, ok) = "committed"
    BY <1>1, <2>1, CommitKeepsLog DEF Finalize
  <2> QED
    BY <1>2, <2>1 DEF Finalize
<1>5. CASE RecoveryStep
  <2>1. ASSUME NEW id \in ClaimIds, LoadInterrupted(id) \/ LoadCommitted(id) PROVE LogKept
    BY <1>2, <2>1 DEF LoadInterrupted, LoadCommitted
  <2>2. ASSUME NEW id \in ClaimIds, NEW b \in Bodies, NEW ok \in BOOLEAN, NEW t,
               Recover(id, t, b, ok)
        PROVE  LogKept
    <3>1. CASE RecoverResult(id, t, b, ok) = "committed"
      BY <1>1, <2>2, <3>1, CommitKeepsLog DEF Recover
    <3> QED
      BY <1>2, <2>2, <3>1 DEF Recover
  <2> QED
    BY <1>5, <2>1, <2>2 DEF RecoveryStep, Anchoring
<1>6. CASE PublishStep
  BY <1>6, PublishKeepsLog DEF PublishStep, Anchoring
<1>7. CASE CheckpointStep
  BY <1>7, CheckpointKeepsLog
<1> QED
  BY <1>3, <1>4, <1>5, <1>6, <1>7 DEF Next

(* A log that is kept keeps the digests of its entries.                    *)
LEMMA KeptDigests ==
  ASSUME TypeOK, TypeOK', DigestsNameEntries, LogKept
  PROVE  DigestsNameEntries'
<1> SUFFICES ASSUME NEW i \in 1..Len(outbox'), outbox'[i].published
             PROVE  outbox'[i].digest = i
  BY DEF DigestsNameEntries
<1>1. Len(outbox) \in Nat /\ Len(outbox') \in Nat
  BY LogShape, LenProperties DEF TypeOK
<1>2. i \in 1..Len(outbox)
  BY <1>1 DEF LogKept
<1>3. EntryKept(i)
  BY <1>2 DEF LogKept
<1> QED
  BY <1>2, <1>3 DEF EntryKept, DigestsNameEntries

(* The log is append only: no method exchanges an entry, signs it twice,   *)
(* moves an acknowledgement or acknowledges anything after a fork          *)
(* (publish_v2_receipt, acknowledge_v2_receipt, commit_terminal_locked).   *)
THEOREM LogImmutable == Spec => LogAppendOnly
<1>1. StoreInv /\ [Next]_storeVars => [LogExtends]_storeVars
  BY NextKeepsLog, LogShape DEF LogKept, EntryKept, LogExtends, StoreInv
<1> QED
  BY <1>1, StoreInvariant, PTL DEF Spec, LogAppendOnly

-----------------------------------------------------------------------------
(* A shared rate counter.  Its commits are stamps of the allows that drew  *)
(* on it, one each: what the counter says is active at a commit is at      *)
(* least what the log says, and the commit was admitted below the limit.   *)

(* The allows that drew on a counter, and those an allow is counted with.  *)
Draws(k) ==
  {d \in ClaimIds : /\ claims[d].terminal = "allow"
                    /\ \E item \in claims[d].claim.batch : item.counter = k}
Recent(id, k) ==
  {d \in Draws(k) : /\ claims[d].outboxIndex <= claims[id].outboxIndex
                    /\ claims[d].finalizedAt > claims[id].finalizedAt - Window[k]}

(* Only a terminal claim is allowed.                                       *)
AllowIsTerminal == \A x \in ClaimIds : claims[x].terminal = "allow" => Terminal(x)

(* A stamping names a commit of the counter for each allow that drew on    *)
(* it, another for each of them, made at the time of the allow.            *)
Stampings(k) ==
  {f \in [Draws(k) -> DOMAIN rateCommits[k]] :
     /\ \A a, b \in Draws(k) : f[a] = f[b] => a = b
     /\ \A d \in Draws(k) : rateCommits[k][f[d]] = claims[d].finalizedAt}
EveryDrawStamped == \A k \in Counters : Stampings(k) # {}

WithinLimits ==
  \A id \in ClaimIds : (RateAtFinalization /\ claims[id].terminal = "allow") =>
    \A item \in claims[id].claim.batch : Cardinality(Recent(id, item.counter)) <= item.limit

RateInv ==
  /\ AllowIsTerminal
  /\ RateAtFinalization => EveryDrawStamped /\ WithinLimits

NoNewAllow == \A x \in ClaimIds : claims'[x].terminal = "allow" => claims[x].terminal = "allow"

-----------------------------------------------------------------------------
(* RateWithinLimit in these terms.                                         *)
LEMMA WithinLimitsSuffices == WithinLimits => RateWithinLimit
<1>1. ASSUME NEW id \in ClaimIds, NEW k
      PROVE  Recent(id, k) =
               {d \in ClaimIds :
                 /\ /\ claims[d].terminal = "allow"
                    /\ \E item \in claims[d].claim.batch : item.counter = k
                 /\ claims[d].outboxIndex <= claims[id].outboxIndex
                 /\ claims[d].finalizedAt > claims[id].finalizedAt - Window[k]}
  BY DEF Recent, Draws
<1> QED
  BY <1>1 DEF WithinLimits, RateWithinLimit

(* What a kept allow keeps of its draw.                                    *)
LEMMA KeptDraw ==
  ASSUME AllowIsTerminal, NEW x \in ClaimIds, ClaimKept(x), claims[x].terminal = "allow"
  PROVE  /\ claims'[x].terminal = "allow" /\ claims'[x].state = "terminal"
         /\ claims'[x].claim = claims[x].claim
         /\ claims'[x].outboxIndex = claims[x].outboxIndex
         /\ claims'[x].finalizedAt = claims[x].finalizedAt
BY DEF AllowIsTerminal, ClaimKept, ClaimFacts, CommitFacts, Terminal, Accepted

(* A step that allows nothing new leaves every counter as it is.           *)
LEMMA QuietKeepsRate ==
  ASSUME RateInv, \A x \in ClaimIds : ClaimKept(x), NoNewAllow, rateCommits' = rateCommits
  PROVE  RateInv'
<1>1. \A x \in ClaimIds : claims'[x].terminal = "allow" <=> claims[x].terminal = "allow"
  BY KeptDraw DEF NoNewAllow, RateInv
<1>2. ASSUME NEW x \in ClaimIds, claims[x].terminal = "allow"
      PROVE  /\ claims'[x].state = "terminal" /\ claims'[x].claim = claims[x].claim
             /\ claims'[x].outboxIndex = claims[x].outboxIndex
             /\ claims'[x].finalizedAt = claims[x].finalizedAt
  BY <1>2, KeptDraw DEF RateInv
<1>3. AllowIsTerminal'
  BY <1>1, <1>2 DEF AllowIsTerminal, Terminal
<1>4. ASSUME NEW k PROVE Draws(k)' = Draws(k)
  BY <1>1, <1>2 DEF Draws
<1>5. ASSUME RateAtFinalization PROVE EveryDrawStamped'
  <2> SUFFICES ASSUME NEW k \in Counters PROVE Stampings(k)' # {}
    BY DEF EveryDrawStamped
  <2>1. \A d \in Draws(k) : claims'[d].finalizedAt = claims[d].finalizedAt
    BY <1>2 DEF Draws
  <2>2. Stampings(k)' = Stampings(k)
    BY <1>4, <2>1 DEF Stampings
  <2> QED
    BY <1>5, <2>2 DEF RateInv, EveryDrawStamped
<1>6. ASSUME RateAtFinalization PROVE WithinLimits'
  <2>1. ASSUME NEW x \in ClaimIds, NEW k, claims[x].terminal = "allow"
        PROVE  Recent(x, k)' = Recent(x, k)
    <3>1. /\ claims'[x].outboxIndex = claims[x].outboxIndex
          /\ claims'[x].finalizedAt = claims[x].finalizedAt
      BY <1>2, <2>1
    <3>2. \A d \in Draws(k) : /\ claims'[d].outboxIndex = claims[d].outboxIndex
                              /\ claims'[d].finalizedAt = claims[d].finalizedAt
      BY <1>2 DEF Draws
    <3> QED
      BY <1>4, <3>1, <3>2 DEF Recent
  <2>2. ASSUME NEW x \in ClaimIds, claims'[x].terminal = "allow",
               NEW item \in claims'[x].claim.batch
        PROVE  Cardinality(Recent(x, item.counter)') <= item.limit
    <3>1. claims[x].terminal = "allow" /\ item \in claims[x].claim.batch
      BY <1>1, <1>2, <2>2
    <3>2. Recent(x, item.counter)' = Recent(x, item.counter)
      BY <2>1, <3>1
    <3> QED
      BY <1>6, <3>1, <3>2 DEF RateInv, WithinLimits
  <2> QED
    BY <2>2 DEF WithinLimits
<1> QED
  BY <1>3, <1>5, <1>6 DEF RateInv

(* No more allows of a window than the counter shows active in it.         *)
LEMMA ActiveBound ==
  ASSUME TypeOK, NEW k \in Counters, Stampings(k) # {}, NEW t \in Int,
         NEW old, old = {d \in Draws(k) : claims[d].finalizedAt > t - Window[k]}
  PROVE  /\ IsFiniteSet(old) /\ Cardinality(old) \in Nat /\ Cardinality(ActiveCommits(k, t)) \in Nat
         /\ Cardinality(old) <= Cardinality(ActiveCommits(k, t))
<1>1. PICK f \in Stampings(k) : TRUE
  OBVIOUS
<1>2. /\ f \in [Draws(k) -> DOMAIN rateCommits[k]]
      /\ \A a, b \in Draws(k) : f[a] = f[b] => a = b
      /\ \A d \in Draws(k) : rateCommits[k][f[d]] = claims[d].finalizedAt
  BY DEF Stampings
<1> DEFINE active == ActiveCommits(k, t)
           g == [d \in old |-> f[d]]
<1>3. IsFiniteSet(active)
  <2>1. rateCommits[k] \in Seq(0..MaxTimestamp)
    BY DEF TypeOK
  <2>2. DOMAIN rateCommits[k] = 1..Len(rateCommits[k]) /\ Len(rateCommits[k]) \in Nat
    BY <2>1, LenProperties
  <2>3. IsFiniteSet(1..Len(rateCommits[k]))
    BY <2>2, FS_Interval
  <2>4. active \in SUBSET (1..Len(rateCommits[k]))
    BY <2>2 DEF ActiveCommits
  <2> QED
    BY <2>3, <2>4, FS_Subset
<1>4. g \in [old -> active] /\ \A a, b \in old : g[a] = g[b] => a = b
  BY <1>2 DEF ActiveCommits
<1>5. g \in Injection(old, active)
  BY <1>4 DEF Injection, IsInjective
<1> QED
  BY <1>3, <1>5, FS_Injection, FS_CardinalityType

-----------------------------------------------------------------------------
(* finalize_v2_claim admits an allow below every limit of its batch and    *)
(* stamps each of its counters.                                            *)
LEMMA AllowKeepsRate ==
  ASSUME StoreInv, LeaseFollowsClaim, RateInv, \A x \in ClaimIds : ClaimKept(x),
         NEW id \in ClaimIds, NEW token \in ClaimIds, NEW b \in Bodies,
         NEW h \in Horizons, NEW ok \in BOOLEAN,
         Finalize(id, token, "allow", b, h, ok),
         FinalizeResult(id, token, "allow", b, h, ok) = "committed"
  PROVE  RateInv'
<1> DEFINE n == Len(outbox) + 1
           batch == claims[id].claim.batch
<1>1. TypeOK /\ claims[id] \in ClaimRecord /\ claims \in [ClaimIds -> ClaimRecord] /\ Len(outbox) \in Nat
  BY LenProperties DEF StoreInv, TypeOK
<1>2. /\ claims[id].state = "evaluating" /\ ClockOk /\ h \in 0..MaxTimestamp
      /\ PayloadBinds(claims[id].claim, "allow", b)
  BY <1>1, FinalizeCommittable DEF Committable
<1>3. h > 0 /\ (RateAtFinalization => ~RateExhausted(claims[id].claim, now))
  <2>1. OwnerResult(id, token) = "ok"
    BY DEF FinalizeResult, OwnerResult, ClockReading
  <2>2. HorizonMatches(b, h)
    BY <2>1 DEF FinalizeResult
  <2>3. h > 0
    BY <1>2, <2>2, StoreAssumption DEF HorizonMatches, PayloadBinds
  <2>4. ~(AdmitsRate(h) /\ RateExhausted(claims[id].claim, now))
    BY <2>1 DEF FinalizeResult
  <2> QED
    BY <2>3, <2>4 DEF AdmitsRate
<1>4. now \in 0..MaxTimestamp
  BY <1>1, <1>2, GoodReading
<1>5. /\ claims'[id].terminal = "allow" /\ claims'[id].state = "terminal"
      /\ claims'[id].claim = claims[id].claim /\ claims'[id].outboxIndex = n
      /\ claims'[id].finalizedAt = now
      /\ \A x \in ClaimIds \ {id} : claims'[x] = claims[x]
  <2>1. CommitTerminal(id, "allow", b, h)
    BY DEF Finalize
  <2>2. claims'[id] = [claims[id] EXCEPT !.state = "terminal", !.terminal = "allow",
                         !.receiptBody = b, !.allowHorizon = h,
                         !.finalizedAt = now, !.outboxIndex = Len(outbox) + 1]
    BY <1>1, <2>1 DEF CommitTerminal
  <2> QED
    BY <1>1, <2>1, <2>2 DEF CommitTerminal, ClaimRecord
<1>6. AllowIsTerminal'
  BY <1>5 DEF RateInv, AllowIsTerminal, Terminal
<1>7. claims[id].terminal # "allow"
  BY <1>2 DEF RateInv, AllowIsTerminal, Terminal
<1>8. ASSUME NEW k
      PROVE  /\ id \notin Draws(k)
             /\ \A d \in Draws(k) : claims'[d] = claims[d] /\ d # id /\ d \in ClaimIds
             /\ Draws(k)' = IF \E item \in batch : item.counter = k THEN Draws(k) \cup {id}
                                                                     ELSE Draws(k)
  BY <1>5, <1>7 DEF Draws
<1>9. CASE ~RateAtFinalization
  BY <1>6, <1>9 DEF RateInv
<1>10. CASE RateAtFinalization
  <2> USE <1>10
  <2>1. EveryDrawStamped /\ WithinLimits
    BY DEF RateInv
  <2>2. ASSUME NEW k \in Counters PROVE Stampings(k)' # {}
    <3> DEFINE m == Len(rateCommits[k]) + 1
    <3>1. PICK f \in Stampings(k) : TRUE
      BY <2>1 DEF EveryDrawStamped
    <3>2. /\ f \in [Draws(k) -> DOMAIN rateCommits[k]]
          /\ \A x, y \in Draws(k) : f[x] = f[y] => x = y
          /\ \A d \in Draws(k) : rateCommits[k][f[d]] = claims[d].finalizedAt
      BY DEF Stampings
    <3>3. rateCommits[k] \in Seq(0..MaxTimestamp)
      BY <1>1 DEF TypeOK
    <3>4. DOMAIN rateCommits[k] = 1..Len(rateCommits[k]) /\ Len(rateCommits[k]) \in Nat
      BY <3>3, LenProperties
    <3>5. rateCommits'[k] = IF \E item \in batch : item.counter = k
                            THEN Append(rateCommits[k], now) ELSE rateCommits[k]
      BY <1>3 DEF Finalize, AdmitsRate
    <3>6. CASE ~\E item \in batch : item.counter = k
      <4>1. Draws(k)' = Draws(k) /\ rateCommits'[k] = rateCommits[k]
        BY <1>8, <3>5, <3>6
      <4>2. f \in Stampings(k)'
        BY <1>8, <3>2, <4>1 DEF Stampings
      <4> QED
        BY <4>2
    <3>7. CASE \E item \in batch : item.counter = k
      <4> DEFINE g == [d \in Draws(k) \cup {id} |-> IF d = id THEN m ELSE f[d]]
      <4>1. /\ DOMAIN rateCommits'[k] = 1..m /\ rateCommits'[k][m] = now
            /\ \A i \in 1..Len(rateCommits[k]) : rateCommits'[k][i] = rateCommits[k][i]
        BY <1>4, <3>3, <3>4, <3>5, <3>7, AppendProperties
      <4>2. Draws(k)' = Draws(k) \cup {id}
        BY <1>8, <3>7
      <4>3. \A d \in Draws(k) : g[d] = f[d] /\ f[d] \in 1..Len(rateCommits[k])
        BY <1>8, <3>2, <3>4
      <4>4. g[id] = m
        OBVIOUS
      <4>5. g \in [Draws(k) \cup {id} -> 1..m]
        BY <3>4, <4>3, <4>4
      <4>6. \A x, y \in Draws(k) \cup {id} : g[x] = g[y] => x = y
        BY <3>2, <3>4, <4>3, <4>4
      <4>7. \A d \in Draws(k) \cup {id} : rateCommits'[k][g[d]] = claims'[d].finalizedAt
        BY <1>5, <1>8, <3>2, <4>1, <4>3, <4>4
      <4>8. g \in Stampings(k)'
        BY <4>1, <4>2, <4>5, <4>6, <4>7 DEF Stampings
      <4> QED
        BY <4>8
    <3> QED
      BY <3>6, <3>7
  <2>3. \A x \in ClaimIds : claims[x].terminal = "allow" =>
          claims[x].outboxIndex \in 1..Len(outbox)
    BY <1>1, LenProperties DEF RateInv, AllowIsTerminal, StoreInv, OneEntryPerTerminalClaim, TypeOK
  <2>4. ASSUME NEW x \in ClaimIds, x # id, claims[x].terminal = "allow", NEW k
        PROVE  Recent(x, k)' = Recent(x, k)
    <3>1. claims'[x] = claims[x] /\ ~(n <= claims[x].outboxIndex)
      BY <1>1, <1>5, <2>3, <2>4
    <3> QED
      BY <1>5, <1>8, <3>1 DEF Recent
  <2>5. ASSUME NEW item \in batch
        PROVE  Cardinality(Recent(id, item.counter)') <= item.limit
    <3> DEFINE k == item.counter
               old == {d \in Draws(k) : claims[d].finalizedAt > now - Window[k]}
               active == Cardinality(ActiveCommits(k, now))
    <3>1. claims[id].claim \in Claims
      BY <1>2 DEF LeaseFollowsClaim, Accepted
    <3>2. k \in Counters /\ item.limit \in Nat
      BY <3>1, StoreAssumption DEF ClaimType
    <3>3. Recent(id, k)' = old \cup {id}
      <4>1. Draws(k)' = Draws(k) \cup {id}
        BY <1>8
      <4>2. \A d \in Draws(k) : /\ claims'[d].outboxIndex <= n
                                /\ claims'[d].finalizedAt = claims[d].finalizedAt
        BY <1>1, <1>8, <2>3 DEF Draws
      <4>3. Window[k] \in Nat \ {0}
        BY <3>2, StoreAssumption
      <4>4. now > now - Window[k] /\ n <= n
        BY <1>1, <1>4, <4>3
      <4> QED
        BY <1>5, <4>1, <4>2, <4>4 DEF Recent
    <3>4. Stampings(k) # {} /\ now \in Int
      BY <1>4, <2>1, <3>2 DEF EveryDrawStamped
    <3>5. IsFiniteSet(old) /\ Cardinality(old) \in Nat /\ active \in Nat /\ Cardinality(old) <= active
      BY <1>1, <3>2, <3>4, ActiveBound
    <3>6. id \notin old
      BY <1>8
    <3>7. Cardinality(old \cup {id}) = Cardinality(old) + 1
      BY <3>5, <3>6, FS_AddElement
    <3>8. active < item.limit
      BY <1>3, <3>2, <3>5 DEF RateExhausted
    <3> HIDE DEF old, active
    <3>9. Cardinality(old) + 1 <= item.limit
      BY <3>2, <3>5, <3>8
    <3> QED
      BY <3>3, <3>7, <3>9
  <2>6. WithinLimits'
    <3>1. ASSUME NEW x \in ClaimIds, claims'[x].terminal = "allow",
                 NEW item \in claims'[x].claim.batch
          PROVE  Cardinality(Recent(x, item.counter)') <= item.limit
      <4>1. CASE x = id
        BY <1>5, <2>5, <3>1, <4>1
      <4>2. CASE x # id
        <5>1. claims'[x] = claims[x]
          BY <1>5, <4>2
        <5>2. claims[x].terminal = "allow" /\ item \in claims[x].claim.batch
          BY <3>1, <5>1
        <5> QED
          BY <2>1, <2>4, <4>2, <5>2 DEF WithinLimits
      <4> QED
        BY <4>1, <4>2
    <3> QED
      BY <3>1 DEF WithinLimits
  <2> QED
    BY <1>6, <2>2, <2>6 DEF RateInv, EveryDrawStamped
<1> QED
  BY <1>9, <1>10

(* Every other step allows nothing new and draws on no counter.            *)
LEMMA NextKeepsRate ==
  StoreInv /\ LeaseFollowsClaim /\ RateInv /\ [Next]_storeVars => RateInv'
<1> SUFFICES ASSUME StoreInv, LeaseFollowsClaim, RateInv, [Next]_storeVars PROVE RateInv'
  OBVIOUS
<1>1. TypeOK /\ (\A x \in ClaimIds : ClaimKept(x)) /\ claims \in [ClaimIds -> ClaimRecord]
  BY NextKeepsClaims DEF StoreInv, TypeOK
<1>2. ASSUME \A x \in ClaimIds : claims'[x].terminal = claims[x].terminal, rateCommits' = rateCommits
      PROVE  RateInv'
  BY <1>1, <1>2, QuietKeepsRate DEF NoNewAllow
<1>3. ASSUME UNCHANGED <<claims, rateCommits>> PROVE RateInv'
  BY <1>2, <1>3
<1>4. ASSUME NEW id \in ClaimIds, NEW t, NEW b, NEW h, CommitTerminal(id, t, b, h),
             t # "allow", rateCommits' = rateCommits
      PROVE  RateInv'
  <2>1. /\ \A x \in ClaimIds \ {id} : claims'[x] = claims[x]
        /\ claims'[id] = [claims[id] EXCEPT !.state = "terminal", !.terminal = t,
                            !.receiptBody = b, !.allowHorizon = h,
                            !.finalizedAt = now, !.outboxIndex = Len(outbox) + 1]
    BY <1>1, <1>4 DEF CommitTerminal
  <2>2. claims'[id].terminal = t
    BY <1>1, <2>1 DEF ClaimRecord
  <2> QED
    BY <1>1, <1>4, <2>1, <2>2, QuietKeepsRate DEF NoNewAllow
<1>5. CASE ClockStep \/ PublishStep \/ CheckpointStep \/ SignerStep \/ UNCHANGED storeVars
  BY <1>3, <1>5 DEF ClockStep, SetTime, AuthoritativeTime, PublishStep, Publish, CheckpointStep,
                    AcknowledgeReceipt, SetAcknowledgementWithheld, SignerStep, SetSignerFailure,
                    storeVars
<1>6. CASE ClaimStep
  <2>1. PICK c \in Claims, ok \in BOOLEAN : Claim(c, ok)
    BY <1>6 DEF ClaimStep
  <2>2. CASE ClaimResult(c, ok) = "created"
    <3>1. c.id \in ClaimIds /\ claims' = [claims EXCEPT ![c.id] = NewRecord(c)]
      BY <1>1, <2>1, <2>2, CreatedFresh DEF Claim
    <3>2. NewRecord(c).terminal = "none"
      BY DEF NewRecord, Absent
    <3>3. NoNewAllow
      BY <1>1, <3>1, <3>2 DEF NoNewAllow
    <3> QED
      BY <1>1, <2>1, <3>3, QuietKeepsRate DEF Claim
  <2> QED
    BY <1>3, <2>1, <2>2 DEF Claim
<1>7. CASE FinalizeStep
  <2> SUFFICES ASSUME NEW id \in ClaimIds, NEW token \in ClaimIds, NEW b \in Bodies,
                      NEW h \in Horizons, NEW ok \in BOOLEAN, NEW t,
                      Finalize(id, token, t, b, h, ok)
               PROVE  RateInv'
    BY <1>7 DEF FinalizeStep, Anchoring
  <2>1. CASE FinalizeResult(id, token, t, b, h, ok) # "committed"
    BY <1>3, <2>1 DEF Finalize
  <2>2. CASE FinalizeResult(id, token, t, b, h, ok) = "committed" /\ t = "allow"
    BY <1>1, <2>2, AllowKeepsRate
  <2>3. CASE FinalizeResult(id, token, t, b, h, ok) = "committed" /\ t # "allow"
    <3>1. h = 0
      BY <1>1, <2>3, FinalizeInWindow DEF WindowNow
    <3>2. \A k \in Counters : rateCommits'[k] = rateCommits[k]
      BY <2>3, <3>1 DEF Finalize, AdmitsRate
    <3>3. DOMAIN rateCommits' = Counters /\ DOMAIN rateCommits = Counters
          /\ rateCommits' = [k \in Counters |-> rateCommits'[k]]
          /\ rateCommits = [k \in Counters |-> rateCommits[k]]
      BY <1>1, <2>3 DEF Finalize, TypeOK
    <3>4. rateCommits' = rateCommits
      BY <3>2, <3>3
    <3> QED
      BY <1>4, <2>3, <3>4 DEF Finalize
  <2> QED
    BY <2>1, <2>2, <2>3
<1>8. CASE RecoveryStep
  <2>1. ASSUME NEW id \in ClaimIds, LoadInterrupted(id) \/ LoadCommitted(id)
        PROVE  RateInv'
    BY <1>3, <2>1 DEF LoadInterrupted, LoadCommitted
  <2>2. ASSUME NEW id \in ClaimIds, NEW b \in Bodies, NEW ok \in BOOLEAN, NEW t,
               Recover(id, t, b, ok)
        PROVE  RateInv'
    <3>1. CASE RecoverResult(id, t, b, ok) = "committed"
      <4>1. t # "allow"
        BY <3>1 DEF RecoverResult, PayloadBinds, ClockReading
      <4> QED
        BY <1>4, <2>2, <3>1, <4>1 DEF Recover
    <3> QED
      BY <1>3, <2>2, <3>1 DEF Recover
  <2> QED
    BY <1>8, <2>1, <2>2 DEF RecoveryStep, Anchoring
<1>9. ASSUME NEW id \in ClaimIds, NEW p, rateCommits' = rateCommits,
             \/ claims' = [claims EXCEPT ![id].progress = p]
             \/ claims' = [claims EXCEPT ![id].release = p]
             \/ claims' = claims
      PROVE  RateInv'
  <2>1. claims[id] \in ClaimRecord
    BY <1>1
  <2>2. /\ [claims[id] EXCEPT !.progress = p].terminal = claims[id].terminal
        /\ [claims[id] EXCEPT !.release = p].terminal = claims[id].terminal
    BY <2>1 DEF ClaimRecord
  <2> QED
    BY <1>1, <1>2, <1>9, <2>2
<1>10. CASE ProgressStep
  <2>1. PICK id, p : /\ id \in ClaimIds /\ rateCommits' = rateCommits
                     /\ \/ claims' = [claims EXCEPT ![id].progress = p]
                        \/ claims' = claims
    BY <1>10 DEF ProgressStep, RecordProgress
  <2> QED
    BY <1>9, <2>1
<1>11. CASE ReleaseStep
  <2>1. PICK id, rel : /\ id \in ClaimIds /\ rateCommits' = rateCommits
                       /\ \/ claims' = [claims EXCEPT ![id].release = rel]
                          \/ claims' = claims
    BY <1>11 DEF ReleaseStep, RecordRelease
  <2> QED
    BY <1>9, <2>1
<1>12. CASE AbandonStep
  <2>1. ASSUME NEW x \in ClaimIds PROVE claims'[x].terminal = claims[x].terminal
    <3>1. claims'[x] = claims[x] \/ claims'[x] = [claims[x] EXCEPT !.abandoned = TRUE]
      BY <1>12 DEF AbandonStep, AbandonPendingReceipts
    <3>2. claims[x] \in ClaimRecord
      BY <1>1
    <3> QED
      BY <3>1, <3>2 DEF ClaimRecord
  <2> QED
    BY <1>2, <1>12, <2>1 DEF AbandonStep, AbandonPendingReceipts
<1> QED
  BY <1>5, <1>6, <1>7, <1>8, <1>10, <1>11, <1>12 DEF Next

(* With the rate limiter at finalization, no allow is one too many for any *)
(* limit sealed in its claim, counted from the receipt log: whatever the   *)
(* clock did between the commits and whichever claims share the counter    *)
(* (finalize_v2_claim).                                                    *)
THEOREM RateLimited == Spec => []RateWithinLimit
<1>1. Init => RateInv
  <2> SUFFICES ASSUME Init PROVE RateInv
    OBVIOUS
  <2>1. \A x \in ClaimIds : claims[x].terminal # "allow"
    BY DEF Init, Absent
  <2>2. ASSUME NEW k \in Counters PROVE Stampings(k) # {}
    <3>1. Draws(k) = {}
      BY <2>1 DEF Draws
    <3>2. [d \in {} |-> 0] \in Stampings(k)
      BY <3>1 DEF Stampings
    <3> QED
      BY <3>2
  <2> QED
    BY <2>1, <2>2 DEF RateInv, AllowIsTerminal, EveryDrawStamped, WithinLimits
<1>2. Init => WindowInv
  BY InitInWindow
<1>3. StoreInv /\ WindowInv /\ [Next]_storeVars => WindowInv'
  BY NextKeepsWindow
<1>4. StoreInv /\ WindowInv /\ RateInv /\ [Next]_storeVars => RateInv'
  BY NextKeepsRate DEF WindowInv
<1>5. RateInv => RateWithinLimit
  BY WithinLimitsSuffices DEF RateInv, WithinLimits, RateWithinLimit
<1> QED
  BY <1>1, <1>2, <1>3, <1>4, <1>5, StoreInvariant, PTL DEF Spec
=============================================================================
