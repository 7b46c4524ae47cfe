---------------------------- MODULE ReleaseProofs ----------------------------
(***************************************************************************)
(* Releases are sound for any number of concurrent callers, claims and     *)
(* clocks: a released answer is the recorded release of its claim, an      *)
(* action on it keeps its deadlines, and a rejection never blames an       *)
(* honest log.                                                             *)
(*                                                                         *)
(* A call reads the store five times, and what it read may be old when it  *)
(* records.  The proof therefore says what a call knows at each of its     *)
(* places (CallOk), only in terms of facts that no later step can undo:    *)
(* the commit of its claim, its log entry, acknowledgements and a record   *)
(* already written (ClaimKept and LogKept of ClaimStoreProofs).          *)
(***************************************************************************)
EXTENDS Release, ClaimStoreProofs

-----------------------------------------------------------------------------
(* What a call knows.                                                      *)

Statuses == {"none", "pending", "rejected", "withheld", "released"}
Reasons == WithheldReasons \cup
  {"none", "claim_store_unavailable", "release_state_mismatch", "receipt_abandoned",
   "receipt_not_appended", "receipt_body_mismatch", "acknowledgement_unavailable",
   "log_predecessor_mismatch", "acknowledgement_mismatch", "clock_unavailable"}
Underway == {"predecessor", "acknowledgement", "clock", "record"}

CallType ==
  [pc : Underway \cup {"idle", "done"}, handoff : HandoffType \cup {NoHandoff},
   receipt : Nat, finalizedAt : Int, prior : ReleaseType, ack : Int, time : Int,
   write : ReleaseType, status : Statuses, reason : Reasons]

(* After the load: a terminal claim, its one log entry, which is appended, *)
(* and a prior release if one is recorded.                                 *)
Loaded(c) ==
  /\ c.handoff.id \in ClaimIds /\ Terminal(c.handoff.id) /\ c.handoff = Handoff(c.handoff.id)
  /\ c.receipt \in 1..Len(outbox) /\ c.receipt = claims[c.handoff.id].outboxIndex
  /\ outbox[c.receipt].published
  /\ c.finalizedAt = claims[c.handoff.id].finalizedAt
  /\ c.prior # NoRelease => /\ c.prior = claims[c.handoff.id].release
                            /\ c.prior.outcome = "released"

PredecessorAcked(c) == c.receipt > 1 => outbox[c.receipt - 1].ack # NoAck

Acked(c) == /\ c.ack # NoAck /\ outbox[c.receipt].ack = c.ack
            /\ c.prior # NoRelease => c.prior.ackTimestamp = c.ack

(* The times of a release, and no later than the high-water mark.          *)
InTime(c) ==
  /\ c.finalizedAt <= c.ack /\ c.ack <= c.time /\ c.time <= highWater
  /\ c.time < c.handoff.expiresAt
  /\ c.handoff.body.result = "allow" => c.time < c.handoff.allowHorizon

(* What the call is about to record.                                       *)
WritesTruth(c) ==
  /\ c.write.entryHash = c.receipt /\ c.write.ackTimestamp = c.ack
  /\ ValidReleaseOutcome(c.write) /\ (c.write.outcome = "released" => InTime(c))

ReleaseOf(c) == [entryHash |-> c.receipt, ackTimestamp |-> c.ack,
                 outcome |-> "released", reason |-> "none"]

Released(c) == /\ Loaded(c) /\ PredecessorAcked(c) /\ Acked(c) /\ InTime(c)
               /\ claims[c.handoff.id].release = ReleaseOf(c)

(* A rejected call lost to another record, or had a handoff or a receipt   *)
(* that is not, and never will be, the one of its claim.                   *)
Outrun(c) ==
  LET r == claims[c.handoff.id]
  IN  c.write # NoRelease /\ r.release # NoRelease /\ r.release # c.write
NotGenuine(c) ==
  LET id == c.handoff.id
  IN  \/ Terminal(id) /\ (c.handoff # Handoff(id) \/ c.receipt # claims[id].outboxIndex)
      \/ ~Terminal(id) /\ c.receipt <= Len(outbox)
Rejected(c) == c.handoff.id \in ClaimIds /\ (Outrun(c) \/ NotGenuine(c))

CallOk(c) ==
  /\ c.pc \in Underway => Loaded(c)
  /\ c.pc = "predecessor" => c.receipt > 1
  /\ c.pc \in Underway \ {"predecessor"} => PredecessorAcked(c)
  /\ c.pc \in {"clock", "record"} => Acked(c)
  /\ c.pc = "record" => WritesTruth(c)
  /\ c.status # "none" => c.pc = "done"
  /\ c.status = "released" => Released(c)
  /\ c.status = "rejected" => Rejected(c)

(* What an action on a released allow rests on.                            *)
ActedOk(c, t) ==
  LET r == claims[c.handoff.id]
  IN  /\ c.status = "released" /\ r.terminal = "allow" /\ r.release.outcome = "released"
      /\ c.time <= t /\ t < r.claim.expiresAt /\ t < r.allowHorizon

(* Every recorded release names the one log entry of its claim and the     *)
(* acknowledgement of that entry.                                          *)
ReleasesTrue ==
  \A id \in ClaimIds : claims[id].release # NoRelease =>
    LET r == claims[id]
    IN  /\ ValidReleaseOutcome(r.release) /\ r.release.entryHash = r.outboxIndex
        /\ outbox[r.outboxIndex].ack # NoAck
        /\ r.release.ackTimestamp = outbox[r.outboxIndex].ack

StoreOk == StoreInv /\ WindowInv /\ DigestsNameEntries /\ ReleasesTrue

RelInv ==
  /\ StoreOk
  /\ call \in [Calls -> CallType] /\ acted \in [Calls -> Int]
  /\ \A k \in Calls : CallOk(call[k])
  /\ \A k \in Calls : acted[k] # NotActed => ActedOk(call[k], acted[k])

-----------------------------------------------------------------------------
(* Nothing of this is undone by a step of the store.                       *)

StoreKept ==
  /\ StoreOk /\ StoreOk' /\ LogKept /\ highWater <= highWater'
  /\ \A x \in ClaimIds : ClaimKept(x)

(* The facts of a terminal claim and of its entry.                         *)
LEMMA TerminalFacts ==
  ASSUME StoreInv, NEW id \in ClaimIds, Terminal(id)
  PROVE  /\ claims[id].outboxIndex \in 1..Len(outbox)
         /\ outbox[claims[id].outboxIndex].claimId = id
         /\ outbox[claims[id].outboxIndex].body = claims[id].receiptBody
         /\ claims[id].receiptBody \in Bodies
         /\ outbox[claims[id].outboxIndex].published => ~claims[id].abandoned
<1>1. TypeOK /\ DOMAIN outbox = 1..Len(outbox) /\ \A i \in 1..Len(outbox) : outbox[i] \in Entry
  BY LogShape DEF StoreInv
<1>2. /\ claims[id].outboxIndex \in 1..Len(outbox)
      /\ outbox[claims[id].outboxIndex].claimId = id
      /\ outbox[claims[id].outboxIndex].body = claims[id].receiptBody
  BY <1>1 DEF StoreInv, OneEntryPerTerminalClaim
<1>3. outbox[claims[id].outboxIndex].body \in Bodies
  BY <1>1, <1>2 DEF Entry
<1> QED
  BY <1>2, <1>3 DEF StoreInv, AbandonedNeverAppended

(* A terminal claim keeps its handoff, its commit and its entry.           *)
LEMMA TerminalKept ==
  ASSUME StoreKept, NEW id \in ClaimIds, Terminal(id)
  PROVE  /\ Terminal(id)' /\ Handoff(id)' = Handoff(id)
         /\ claims'[id].outboxIndex = claims[id].outboxIndex
         /\ claims'[id].finalizedAt = claims[id].finalizedAt
         /\ claims'[id].terminal = claims[id].terminal
         /\ claims'[id].claim = claims[id].claim
         /\ claims'[id].allowHorizon = claims[id].allowHorizon
         /\ claims[id].release # NoRelease => claims'[id].release = claims[id].release
<1>1. ClaimKept(id) /\ Accepted(id)
  BY DEF StoreKept, Accepted, Terminal
<1>2. /\ Terminal(id)' /\ ClaimFacts(claims'[id]) = ClaimFacts(claims[id])
      /\ CommitFacts(claims'[id]) = CommitFacts(claims[id])
  BY <1>1 DEF ClaimKept
<1> QED
  BY <1>1, <1>2 DEF ClaimFacts, CommitFacts, Handoff, ClaimKept

(* The handoff of a terminal claim.                                        *)
LEMMA HandoffTyped ==
  ASSUME StoreOk, NEW id \in ClaimIds, Terminal(id)
  PROVE  Handoff(id) \in HandoffType
<1>1. StoreInv /\ claims[id] \in ClaimRecord /\ claims[id].claim \in Claims
  BY DEF StoreOk, StoreInv, TypeOK, WindowInv, LeaseFollowsClaim, Accepted, Terminal
<1>2. claims[id].receiptBody \in Bodies /\ claims[id].claim.expiresAt \in Int
  BY <1>1, TerminalFacts, StoreAssumption DEF ClaimType
<1> QED
  BY <1>1, <1>2 DEF Handoff, HandoffType, ClaimRecord

(* What the load established stays.                                        *)
LEMMA LoadedKept ==
  ASSUME StoreKept, NEW c \in CallType, Loaded(c)
  PROVE  Loaded(c)'
<1> DEFINE id == c.handoff.id
<1>1. id \in ClaimIds /\ Terminal(id) /\ c.handoff = Handoff(id)
  BY DEF Loaded
<1>2. /\ Terminal(id)' /\ Handoff(id)' = Handoff(id)
      /\ claims'[id].outboxIndex = claims[id].outboxIndex
      /\ claims'[id].finalizedAt = claims[id].finalizedAt
      /\ claims[id].release # NoRelease => claims'[id].release = claims[id].release
  BY <1>1, TerminalKept
<1>3. /\ c.receipt \in 1..Len(outbox) /\ Len(outbox) \in Nat /\ Len(outbox') \in Nat
      /\ Len(outbox) <= Len(outbox') /\ EntryKept(c.receipt)
  BY LogShape, LenProperties DEF Loaded, StoreKept, StoreOk, StoreInv, LogKept, TypeOK
<1>4. c.receipt \in 1..Len(outbox') /\ outbox'[c.receipt].published
  BY <1>3 DEF Loaded, EntryKept
<1> QED
  BY <1>1, <1>2, <1>4 DEF Loaded

(* Acknowledgements stay.                                                  *)
LEMMA AckedKept ==
  ASSUME StoreKept, NEW c \in CallType, Loaded(c)
  PROVE  /\ PredecessorAcked(c) => PredecessorAcked(c)'
         /\ Acked(c) => Acked(c)'
<1>1. /\ c.receipt \in 1..Len(outbox) /\ Len(outbox) \in Nat
      /\ \A i \in 1..Len(outbox) : outbox[i].ack # NoAck => outbox'[i].ack = outbox[i].ack
  BY LogShape DEF Loaded, StoreKept, StoreOk, StoreInv, LogKept, EntryKept
<1>2. c.receipt > 1 => c.receipt - 1 \in 1..Len(outbox)
  BY <1>1
<1> QED
  BY <1>1, <1>2 DEF PredecessorAcked, Acked

(* The times of a call stay in order: the mark only advances.              *)
LEMMA InTimeKept ==
  ASSUME StoreKept, NEW c \in CallType, InTime(c)
  PROVE  InTime(c)'
<1>1. highWater \in Int /\ highWater' \in Int /\ highWater <= highWater' /\ c.time \in Int
  BY DEF StoreKept, StoreOk, StoreInv, TypeOK, CallType
<1> QED
  BY <1>1 DEF InTime

(* A release that is recorded stays.                                       *)
LEMMA ReleasedKept ==
  ASSUME StoreKept, NEW c \in CallType, Released(c)
  PROVE  Released(c)'
<1>1. Loaded(c)' /\ PredecessorAcked(c)' /\ Acked(c)' /\ InTime(c)'
  BY LoadedKept, AckedKept, InTimeKept DEF Released
<1>2. c.handoff.id \in ClaimIds /\ Terminal(c.handoff.id)
  BY DEF Released, Loaded
<1>3. ReleaseOf(c) # NoRelease
  BY DEF ReleaseOf, NoRelease
<1>4. claims'[c.handoff.id].release = ReleaseOf(c)
  BY <1>2, <1>3, TerminalKept DEF Released
<1> QED
  BY <1>1, <1>4 DEF Released, ReleaseOf

(* A rejection stays justified: a claim that is committed later gets a log *)
(* position beyond every receipt handed in before.                         *)
LEMMA RejectedKept ==
  ASSUME StoreKept, NEW c \in CallType, Rejected(c)
  PROVE  Rejected(c)'
<1> DEFINE id == c.handoff.id
<1>1. id \in ClaimIds /\ ClaimKept(id) /\ c.receipt \in Nat
  BY DEF Rejected, StoreKept, CallType
<1>2. CASE Outrun(c)
  BY <1>1, <1>2 DEF Rejected, Outrun, ClaimKept
<1>3. CASE Terminal(id) /\ (c.handoff # Handoff(id) \/ c.receipt # claims[id].outboxIndex)
  BY <1>1, <1>3, TerminalKept DEF Rejected, NotGenuine
<1>4. CASE ~Terminal(id) /\ c.receipt <= Len(outbox)
  <2>1. Len(outbox) \in Nat /\ Len(outbox') \in Nat /\ Len(outbox) <= Len(outbox')
    BY LogShape, LenProperties DEF StoreKept, StoreOk, StoreInv, LogKept, TypeOK
  <2>2. CASE ~Terminal(id)'
    BY <1>1, <1>4, <2>1, <2>2 DEF Rejected, NotGenuine
  <2>3. CASE Terminal(id)'
    <3>1. claims'[id].outboxIndex \in 1..Len(outbox')
      <4>1. DOMAIN outbox' = 1..Len(outbox')
        BY LenProperties DEF StoreKept, StoreOk, StoreInv, TypeOK
      <4> QED
        BY <1>1, <2>3, <4>1 DEF StoreKept, StoreOk, StoreInv, OneEntryPerTerminalClaim
    <3>2. ASSUME claims'[id].outboxIndex \in 1..Len(outbox) PROVE FALSE
      <4> DEFINE i == claims'[id].outboxIndex
      <4>1. outbox'[i].claimId = id
        BY <1>1, <2>3 DEF StoreKept, StoreOk, StoreInv, OneEntryPerTerminalClaim
      <4>2. outbox[i].claimId = id
        BY <3>2, <4>1 DEF StoreKept, LogKept, EntryKept
      <4>3. DOMAIN outbox = 1..Len(outbox)
        BY LogShape DEF StoreKept, StoreOk, StoreInv
      <4> QED
        BY <1>4, <3>2, <4>2, <4>3 DEF StoreKept, StoreOk, StoreInv, OneEntryPerTerminalClaim
    <3>3. c.receipt # claims'[id].outboxIndex
      BY <1>1, <1>4, <2>1, <3>1, <3>2
    <3> QED
      BY <1>1, <2>3, <3>3 DEF Rejected, NotGenuine
  <2> QED
    BY <2>2, <2>3
<1> QED
  BY <1>1, <1>2, <1>3, <1>4 DEF Rejected, NotGenuine

(* What a call knows is not undone by a step of the store.                 *)
LEMMA CallKept ==
  ASSUME StoreKept, NEW c \in CallType, CallOk(c)
  PROVE  CallOk(c)'
<1>1. Loaded(c) => Loaded(c)'
  BY LoadedKept
<1>2. ASSUME Loaded(c)
      PROVE  /\ PredecessorAcked(c) => PredecessorAcked(c)'
             /\ Acked(c) => Acked(c)'
  BY <1>2, AckedKept
<1>3. WritesTruth(c) => WritesTruth(c)'
  BY InTimeKept DEF WritesTruth
<1>4. Released(c) => Released(c)'
  BY ReleasedKept
<1>5. Rejected(c) => Rejected(c)'
  BY RejectedKept
<1>6. {"clock", "record"} \subseteq Underway
  BY DEF Underway
<1> QED
  BY <1>1, <1>2, <1>3, <1>4, <1>5, <1>6 DEF CallOk

(* Nor is what an action rests on.                                         *)
LEMMA ActedKept ==
  ASSUME StoreKept, NEW c \in CallType, CallOk(c), NEW t \in Int, ActedOk(c, t)
  PROVE  ActedOk(c, t)'
<1>1. c.handoff.id \in ClaimIds /\ Terminal(c.handoff.id)
  BY DEF CallOk, ActedOk, Released, Loaded
<1>2. claims[c.handoff.id].release # NoRelease
  BY DEF ActedOk, NoRelease
<1> QED
  BY <1>1, <1>2, TerminalKept DEF ActedOk

-----------------------------------------------------------------------------
(* The steps of the store.                                                 *)

(* Recorded releases stay true when a step records none.                   *)
LEMMA ReleasesStayTrue ==
  ASSUME StoreInv, ReleasesTrue, LogKept, NEW id \in ClaimIds, ClaimKept(id),
         claims'[id].release = claims[id].release, claims[id].release # NoRelease
  PROVE  /\ ValidReleaseOutcome(claims'[id].release)
         /\ claims'[id].release.entryHash = claims'[id].outboxIndex
         /\ outbox'[claims'[id].outboxIndex].ack # NoAck
         /\ claims'[id].release.ackTimestamp = outbox'[claims'[id].outboxIndex].ack
<1>1. Terminal(id)
  BY DEF StoreInv, ReleasedTerminal
<1>2. claims'[id].outboxIndex = claims[id].outboxIndex
  BY <1>1 DEF ClaimKept, CommitFacts
<1>3. claims[id].outboxIndex \in 1..Len(outbox)
  BY <1>1, TerminalFacts
<1>4. /\ ValidReleaseOutcome(claims[id].release)
      /\ claims[id].release.entryHash = claims[id].outboxIndex
      /\ outbox[claims[id].outboxIndex].ack # NoAck
      /\ claims[id].release.ackTimestamp = outbox[claims[id].outboxIndex].ack
  BY DEF ReleasesTrue
<1>5. outbox'[claims[id].outboxIndex].ack = outbox[claims[id].outboxIndex].ack
  BY <1>3, <1>4 DEF LogKept, EntryKept
<1> QED
  BY <1>2, <1>4, <1>5

(* A method that records no release keeps all of this.                     *)
LEMMA StoreStepKept ==
  ASSUME StoreOk, [Next]_storeVars,
         \A x \in ClaimIds : claims'[x].release = claims[x].release
  PROVE  StoreKept
<1>1. /\ StoreInv' /\ WindowInv' /\ LogKept /\ highWater <= highWater'
      /\ \A x \in ClaimIds : ClaimKept(x)
  BY NextKeepsStore, NextKeepsWindow, NextKeepsLog, NextKeepsClaims, MarkForward
  DEF StoreOk, StoreInv
<1>2. DigestsNameEntries'
  BY <1>1, KeptDigests DEF StoreOk, StoreInv
<1>3. ReleasesTrue'
  BY <1>1, ReleasesStayTrue DEF StoreOk, ReleasesTrue
<1> QED
  BY <1>1, <1>2, <1>3 DEF StoreKept, StoreOk

(* record_v2_release keeps it too when what it records is true.            *)
LEMMA RecordStepKept ==
  ASSUME StoreOk, NEW id \in ClaimIds, NEW rel \in ReleaseType, NEW ok \in BOOLEAN,
         RecordRelease(id, rel, ok),
         /\ rel.entryHash = claims[id].outboxIndex
         /\ outbox[claims[id].outboxIndex].ack # NoAck
         /\ rel.ackTimestamp = outbox[claims[id].outboxIndex].ack
  PROVE  StoreKept
<1>1. StoreInv /\ TypeOK
  BY DEF StoreOk, StoreInv
<1>2. StoreInv'
  BY <1>1, RecordReleaseTyped, RecordReleaseKeepsStore
<1>3. \A x \in ClaimIds : ClaimKept(x)
  BY <1>1, RecordReleaseKeepsClaims
<1>4. /\ UNCHANGED <<outbox, highWater>> /\ highWater \in Int
  BY <1>1 DEF RecordRelease, clockVars, TypeOK
<1>5. LogKept
  BY <1>1, <1>4, SameLogKept
<1>6. DigestsNameEntries'
  BY <1>4 DEF StoreOk, DigestsNameEntries
<1>7. \/ claims' = claims
      \/ /\ claims' = [claims EXCEPT ![id] = [claims[id] EXCEPT !.release = rel]]
         /\ RecordReleaseResult(id, rel, ok) = "recorded"
  BY DEF RecordRelease
<1>8. claims \in [ClaimIds -> ClaimRecord] /\ claims[id] \in ClaimRecord
  BY <1>1 DEF TypeOK
<1>9. WindowInv'
  <2>1. \A x \in ClaimIds : claims'[x].state = claims[x].state
    BY <1>7, <1>8 DEF ClaimRecord
  <2> QED
    BY <1>3, <2>1, SameStatesKeep DEF StoreOk
<1>10. ReleasesTrue'
  <2>1. CASE claims' = claims
    BY <1>3, <1>5, <2>1, <1>1, ReleasesStayTrue DEF StoreOk, ReleasesTrue
  <2>2. CASE claims' # claims
    <3>1. /\ claims'[id].release = rel /\ claims'[id].outboxIndex = claims[id].outboxIndex
          /\ \A x \in ClaimIds \ {id} : claims'[x] = claims[x]
      BY <1>7, <1>8, <2>2 DEF ClaimRecord
    <3>2. ValidReleaseOutcome(rel)
      BY <1>7, <2>2 DEF RecordReleaseResult
    <3>3. /\ rel.entryHash = claims'[id].outboxIndex
          /\ outbox'[claims'[id].outboxIndex].ack # NoAck
          /\ rel.ackTimestamp = outbox'[claims'[id].outboxIndex].ack
      BY <1>4, <3>1
    <3> QED
      BY <1>1, <1>3, <1>5, <3>1, <3>2, <3>3, ReleasesStayTrue DEF StoreOk, ReleasesTrue
  <2> QED
    BY <2>1, <2>2
<1> QED
  BY <1>2, <1>3, <1>4, <1>5, <1>6, <1>9, <1>10 DEF StoreKept, StoreOk

(* A step that leaves the store alone keeps it.                            *)
LEMMA SameStoreKept ==
  ASSUME StoreOk, UNCHANGED storeVars
  PROVE  StoreKept
BY StoreStepKept DEF storeVars

(* Evaluation, recovery, publication, the checkpoint and abandonment are   *)
(* methods of the store, none of which records a release.                  *)
LEMMA EnvironmentKept ==
  ASSUME StoreOk, Environment
  PROVE  StoreKept
<1>1. StoreInv /\ TypeOK
  BY DEF StoreOk, StoreInv
<1>2. TRUE \in Anchoring
  BY DEF Anchoring
<1>3. \A b \in Bodies : b.proof[1] \in ClaimIds
  BY StoreAssumption DEF BodyType, ProofType
<1>4. ASSUME NEW c \in Claims, Claim(c, TRUE) PROVE StoreKept
  <2>1. [Next]_storeVars
    BY <1>4 DEF Next, ClaimStep
  <2>2. \A x \in ClaimIds : claims'[x].release = claims[x].release
    <3>1. CASE ClaimResult(c, TRUE) = "created"
      <4>1. c.id \in ClaimIds /\ claims[c.id].state = "absent"
        BY <1>1, <3>1, CreatedFresh
      <4>2. claims[c.id].release = NoRelease /\ NewRecord(c).release = NoRelease
        BY <1>1, <4>1 DEF StoreInv, ReleasedTerminal, Terminal, NewRecord, Absent
      <4> QED
        BY <1>1, <1>4, <3>1, <4>1, <4>2 DEF Claim, TypeOK
    <3> QED
      BY <1>4, <3>1 DEF Claim
  <2> QED
    BY <2>1, <2>2, StoreStepKept
<1>5. ASSUME NEW b \in Bodies, NEW h \in Horizons,
             Finalize(b.proof[1], b.proof[1], b.result, b, h, TRUE)
      PROVE  StoreKept
  <2>1. [Next]_storeVars
    BY <1>2, <1>3, <1>5 DEF Next, FinalizeStep
  <2>2. \/ CommitTerminal(b.proof[1], b.result, b, h)
        \/ claims' = claims
    BY <1>5 DEF Finalize
  <2>3. \A x \in ClaimIds : claims'[x].release = claims[x].release
    BY <1>1, <1>3, <2>2, CommitEffect DEF CommitDelta
  <2> QED
    BY <2>1, <2>3, StoreStepKept
<1>6. ASSUME NEW b \in Bodies, Recover(b.proof[1], b.result, b, TRUE) PROVE StoreKept
  <2>1. [Next]_storeVars
    BY <1>2, <1>3, <1>6 DEF Next, RecoveryStep
  <2>2. \/ CommitTerminal(b.proof[1], b.result, b, 0)
        \/ claims' = claims
    BY <1>6 DEF Recover
  <2>3. \A x \in ClaimIds : claims'[x].release = claims[x].release
    BY <1>1, <1>3, <2>2, CommitEffect DEF CommitDelta
  <2> QED
    BY <2>1, <2>3, StoreStepKept
<1>7. ASSUME NEW t \in ClockSettings, SetTime(t) PROVE StoreKept
  <2>1. [Next]_storeVars /\ claims' = claims
    BY <1>7 DEF Next, ClockStep, SetTime
  <2> QED
    BY <2>1, StoreStepKept
<1>8. ASSUME NEW id \in ClaimIds, PublishOne(id) PROVE StoreKept
  <2>1. claims[id].receiptBody \in Bodies
    BY <1>1, <1>8, TerminalFacts DEF PublishOne
  <2>2. [Next]_storeVars /\ claims' = claims
    BY <1>2, <1>8, <2>1 DEF Next, PublishStep, PublishOne, Publish
  <2> QED
    BY <2>2, StoreStepKept
<1>9. ASSUME CheckpointStep PROVE StoreKept
  <2>1. [Next]_storeVars /\ claims' = claims
    BY <1>9 DEF Next, CheckpointStep, AcknowledgeReceipt, SetAcknowledgementWithheld
  <2> QED
    BY <2>1, StoreStepKept
<1>10. ASSUME AbandonPendingReceipts(TRUE) PROVE StoreKept
  <2>1. [Next]_storeVars
    BY <1>2, <1>10 DEF Next, AbandonStep
  <2>2. ASSUME NEW x \in ClaimIds PROVE claims'[x].release = claims[x].release
    <3>1. claims'[x] = claims[x] \/ claims'[x] = [claims[x] EXCEPT !.abandoned = TRUE]
      BY <1>10 DEF AbandonPendingReceipts
    <3>2. claims[x] \in ClaimRecord
      BY <1>1 DEF TypeOK
    <3> QED
      BY <3>1, <3>2 DEF ClaimRecord
  <2> QED
    BY <2>1, <2>2, StoreStepKept
<1> QED
  BY <1>4, <1>5, <1>6, <1>7, <1>8, <1>9, <1>10 DEF Environment, Commit

-----------------------------------------------------------------------------
(* The steps of a call.                                                    *)

(* A step of one call that ends in a state the call may be in keeps the    *)
(* invariant; an action already taken is not touched.                      *)
LEMMA OneCallInv ==
  ASSUME RelInv, StoreKept, NEW k \in Calls, NEW d \in CallType, CallOk(d)',
         call' = [call EXCEPT ![k] = d], acted' = acted, acted[k] = NotActed
  PROVE  RelInv'
<1>1. call' \in [Calls -> CallType] /\ acted' \in [Calls -> Int]
  BY DEF RelInv
<1>2. ASSUME NEW j \in Calls PROVE CallOk(call[j])'
  <2>1. CASE j = k
    <3>1. call'[j] = d
      BY <2>1 DEF RelInv
    <3> QED
      BY <3>1
  <2>2. CASE j # k
    <3>1. call'[j] = call[j] /\ call[j] \in CallType /\ CallOk(call[j])
      BY <2>2 DEF RelInv
    <3> PICK c \in CallType : c = call[j]
      BY <3>1
    <3>2. CallOk(c)'
      BY <3>1, CallKept
    <3> QED
      BY <3>1, <3>2
  <2> QED
    BY <2>1, <2>2
<1>3. ASSUME NEW j \in Calls, acted'[j] # NotActed PROVE ActedOk(call[j], acted[j])'
  <2>1. j # k /\ acted[j] # NotActed
    BY <1>3
  <2>2. /\ call'[j] = call[j] /\ call[j] \in CallType /\ CallOk(call[j])
        /\ acted[j] \in Int /\ ActedOk(call[j], acted[j])
    BY <2>1 DEF RelInv
  <2> PICK c \in CallType : c = call[j]
    BY <2>2
  <2> PICK t \in Int : t = acted[j]
    BY <2>2
  <2>3. ActedOk(c, t)'
    BY <2>2, ActedKept
  <2> QED
    BY <2>2, <2>3
<1> QED
  BY <1>1, <1>2, <1>3 DEF RelInv, StoreKept

(* A step that leaves every call alone keeps the invariant.                *)
LEMMA SameCallsInv ==
  ASSUME RelInv, StoreKept, UNCHANGED relVars
  PROVE  RelInv'
<1>1. ASSUME NEW j \in Calls PROVE CallOk(call[j])'
  <2>1. call'[j] = call[j] /\ call[j] \in CallType /\ CallOk(call[j])
    BY DEF RelInv, relVars
  <2> PICK c \in CallType : c = call[j]
    BY <2>1
  <2>2. CallOk(c)'
    BY <2>1, CallKept
  <2> QED
    BY <2>1, <2>2
<1>2. ASSUME NEW j \in Calls, acted'[j] # NotActed PROVE ActedOk(call[j], acted[j])'
  <2>1. /\ call'[j] = call[j] /\ call[j] \in CallType /\ CallOk(call[j])
        /\ acted'[j] = acted[j] /\ acted[j] \in Int /\ ActedOk(call[j], acted[j])
    BY <1>2 DEF RelInv, relVars
  <2> PICK c \in CallType : c = call[j]
    BY <2>1
  <2> PICK t \in Int : t = acted[j]
    BY <2>1
  <2>2. ActedOk(c, t)'
    BY <2>1, ActedKept
  <2> QED
    BY <2>1, <2>2
<1> QED
  BY <1>1, <1>2 DEF RelInv, StoreKept, relVars

(* A call that has not begun.                                              *)
LEMMA NoCallType ==
  NoCall \in CallType /\ NoCall.pc = "idle" /\ NoCall.status = "none" /\ NoCall.write = NoRelease
<1>1. NoRelease \in ReleaseType
  BY DEF NoRelease, ReleaseType
<1> QED
  BY <1>1 DEF NoCall, CallType, Underway, Statuses, Reasons, NoAck

(* An answer ends the call and keeps what it learned, unless it is pending. *)
LEMMA AnswerType ==
  ASSUME NEW c \in CallType, NEW status \in Statuses, NEW reason \in Reasons
  PROVE  /\ Answer(c, status, reason) \in CallType
         /\ Answer(c, status, reason).pc = "done"
         /\ Answer(c, status, reason).status = status
         /\ status # "pending" =>
              /\ Answer(c, status, reason).handoff = c.handoff
              /\ Answer(c, status, reason).receipt = c.receipt
              /\ Answer(c, status, reason).finalizedAt = c.finalizedAt
              /\ Answer(c, status, reason).prior = c.prior
              /\ Answer(c, status, reason).ack = c.ack
              /\ Answer(c, status, reason).time = c.time
              /\ Answer(c, status, reason).write = c.write
<1>1. CASE status = "pending"
  BY <1>1, NoCallType DEF Answer, CallType
<1>2. CASE status # "pending"
  BY <1>2 DEF Answer, CallType
<1> QED
  BY <1>1, <1>2

(* An idle call, and one that is done with nothing to show, is sound.      *)
LEMMA QuietCallOk ==
  ASSUME NEW c \in CallType, c.pc \notin Underway,
         c.status \notin {"released", "rejected"}, c.status # "none" => c.pc = "done"
  PROVE  CallOk(c)
BY DEF CallOk, Underway

(* A call that is not done has not acted.                                  *)
LEMMA NotDoneNotActed ==
  ASSUME RelInv, NEW k \in Calls, call[k].pc # "done"
  PROVE  acted[k] = NotActed
BY DEF RelInv, ActedOk, CallOk

(* Two claims never share a body: it names the claim it answers.           *)
LEMMA BodyNamesClaim ==
  ASSUME StoreOk, NEW x \in ClaimIds, NEW y \in ClaimIds, Terminal(x), Terminal(y),
         claims[x].receiptBody = claims[y].receiptBody
  PROVE  x = y
<1>1. ASSUME NEW z \in ClaimIds, Terminal(z) PROVE claims[z].receiptBody.proof[1] = z
  <2>1. claims[z].claim \in Claims /\ claims[z].claim.key = z
    BY <1>1 DEF StoreOk, WindowInv, LeaseFollowsClaim, Accepted, Terminal
  <2>2. claims[z].receiptBody.proof = claims[z].claim.proof
    BY <1>1 DEF StoreOk, WindowInv, CommitInWindow, PayloadBinds
  <2> QED
    BY <2>1, <2>2, StoreAssumption
<1> QED
  BY <1>1

(* A receipt with the body of a terminal claim is the receipt of it.       *)
LEMMA ReceiptOfClaim ==
  ASSUME StoreOk, NEW id \in ClaimIds, Terminal(id), NEW i \in 1..Len(outbox),
         outbox[i].body = claims[id].receiptBody
  PROVE  i = claims[id].outboxIndex
<1> DEFINE x == outbox[i].claimId
<1>1. StoreInv /\ TypeOK /\ DOMAIN outbox = 1..Len(outbox) /\ outbox[i] \in Entry
  BY LogShape DEF StoreOk, StoreInv
<1>2. x \in ClaimIds /\ Terminal(x) /\ claims[x].outboxIndex = i
  BY <1>1 DEF StoreInv, OneEntryPerTerminalClaim, Entry
<1>3. claims[x].receiptBody = outbox[i].body
  BY <1>1, <1>2, TerminalFacts
<1> QED
  BY <1>2, <1>3, BodyNamesClaim

(* The result of a load is one of its answers.                             *)
LEMMA LoadAnswers ==
  ASSUME StoreInv, NEW h \in HandoffType, NEW receipt \in Receipts, NEW up \in BOOLEAN
  PROVE  /\ LoadResult(h, receipt, up)[1] \in {"pending", "rejected", "withheld", "ok"}
         /\ LoadResult(h, receipt, up)[2] \in Reasons
<1>1. claims[h.id].release \in ReleaseType
  BY DEF StoreInv, TypeOK, HandoffType, ClaimRecord
<1>2. claims[h.id].release.reason \in Reasons
  BY <1>1 DEF ReleaseType, Reasons
<1> QED
  BY <1>2 DEF LoadResult, Reasons

(* What a successful load has checked, and what a rejected one has found.  *)
LEMMA LoadChecks ==
  ASSUME StoreOk, NEW h \in HandoffType, NEW receipt \in Receipts, NEW up \in BOOLEAN
  PROVE  LET result == LoadResult(h, receipt, up)
             r == claims[h.id]
         IN  /\ result[1] = "ok" =>
                  /\ Terminal(h.id) /\ h = Handoff(h.id) /\ r.release.outcome # "withheld"
                  /\ receipt \in 1..Len(outbox) /\ receipt = r.outboxIndex
                  /\ outbox[receipt].published
             /\ result[1] = "rejected" =>
                  \/ Terminal(h.id) /\ (h # Handoff(h.id) \/ receipt # r.outboxIndex)
                  \/ ~Terminal(h.id) /\ receipt <= Len(outbox)
<1> DEFINE result == LoadResult(h, receipt, up)
           r == claims[h.id]
<1>1. /\ StoreInv /\ TypeOK /\ h.id \in ClaimIds /\ DOMAIN outbox = 1..Len(outbox)
      /\ Len(outbox) \in Nat
  BY LogShape DEF StoreOk, StoreInv, HandoffType
<1>2. /\ receipt \in Nat /\ receipt <= Len(outbox)
      /\ receipt # 0 => receipt \in 1..Len(outbox) /\ outbox[receipt].published
  BY <1>1 DEF Receipts
<1>3. (/\ r.receiptBody = h.body /\ r.claim.expiresAt = h.expiresAt
       /\ r.allowHorizon = h.allowHorizon) <=> h = Handoff(h.id)
  BY DEF Handoff, HandoffType
<1>4. ASSUME result[1] = "ok"
      PROVE  /\ Terminal(h.id) /\ h = Handoff(h.id) /\ r.release.outcome # "withheld"
             /\ receipt \in 1..Len(outbox) /\ receipt = r.outboxIndex
             /\ outbox[receipt].published
  <2>1. /\ r.state = "terminal" /\ r.receiptBody = h.body /\ r.claim.expiresAt = h.expiresAt
        /\ r.allowHorizon = h.allowHorizon /\ r.release.outcome # "withheld"
        /\ receipt # 0 /\ outbox[receipt].body = h.body
    BY <1>4 DEF LoadResult
  <2> QED
    BY <1>1, <1>2, <1>3, <2>1, ReceiptOfClaim DEF Terminal
<1>5. ASSUME result[1] = "rejected"
      PROVE  \/ Terminal(h.id) /\ (h # Handoff(h.id) \/ receipt # r.outboxIndex)
             \/ ~Terminal(h.id) /\ receipt <= Len(outbox)
  <2>1. \/ r.state # "terminal" \/ r.receiptBody # h.body
        \/ r.claim.expiresAt # h.expiresAt \/ r.allowHorizon # h.allowHorizon
        \/ outbox[receipt].body # h.body
        \/ r.release # NoRelease /\ r.release.entryHash # receipt
    BY <1>5 DEF LoadResult
  <2>2. ASSUME Terminal(h.id), h = Handoff(h.id) PROVE receipt # r.outboxIndex
    <3>1. outbox[r.outboxIndex].body = h.body
      BY <1>1, <2>2, TerminalFacts DEF Handoff
    <3>2. r.release # NoRelease => r.release.entryHash = r.outboxIndex
      BY <1>1 DEF StoreOk, ReleasesTrue
    <3> QED
      BY <1>3, <2>1, <2>2, <3>1, <3>2 DEF Terminal
  <2> QED
    BY <1>2, <2>2
<1> QED
  BY <1>4, <1>5

(* Steps 1 to 4 leave a call that knows its claim and its entry, or an     *)
(* answer.                                                                 *)
LEMMA LoadInv ==
  ASSUME RelInv, NEW k \in Calls, NEW h \in HandoffType, NEW receipt \in Receipts,
         NEW up \in BOOLEAN, Load(k, h, receipt, up)
  PROVE  RelInv'
<1> DEFINE result == LoadResult(h, receipt, up)
           loaded == [NoCall EXCEPT !.handoff = h, !.receipt = receipt,
                        !.finalizedAt = claims[h.id].finalizedAt,
                        !.prior = claims[h.id].release]
           past == [loaded EXCEPT
                      !.pc = IF receipt > 1 THEN "predecessor" ELSE "acknowledgement"]
           answer == Answer(loaded, result[1], result[2])
<1>1. /\ StoreOk /\ StoreKept /\ StoreInv /\ TypeOK
  BY SameStoreKept DEF RelInv, StoreOk, StoreInv, Load
<1>2. acted[k] = NotActed
  BY NotDoneNotActed DEF Load
<1>3. /\ h.id \in ClaimIds /\ claims[h.id] \in ClaimRecord /\ receipt \in Nat
      /\ claims[h.id].finalizedAt \in Int /\ claims[h.id].release \in ReleaseType
  BY <1>1, LogShape, StoreAssumption DEF TypeOK, ClaimRecord, HandoffType, Receipts
<1>4. /\ loaded \in CallType
      /\ loaded.handoff = h /\ loaded.receipt = receipt /\ loaded.status = "none"
      /\ loaded.finalizedAt = claims[h.id].finalizedAt /\ loaded.prior = claims[h.id].release
      /\ loaded.pc = "idle" /\ loaded.write = NoRelease
  BY <1>3, NoCallType DEF CallType
<1> HIDE DEF loaded
<1>5. /\ past \in CallType /\ past.handoff = h /\ past.receipt = receipt
      /\ past.finalizedAt = claims[h.id].finalizedAt /\ past.prior = claims[h.id].release
      /\ past.status = "none"
      /\ past.pc = IF receipt > 1 THEN "predecessor" ELSE "acknowledgement"
  BY <1>4 DEF CallType, Underway
<1>6. /\ result[1] \in {"pending", "rejected", "withheld", "ok"} /\ result[2] \in Reasons
  BY <1>1, LoadAnswers
<1>7. /\ result[1] = "ok" =>
           /\ Terminal(h.id) /\ h = Handoff(h.id) /\ claims[h.id].release.outcome # "withheld"
           /\ receipt \in 1..Len(outbox) /\ receipt = claims[h.id].outboxIndex
           /\ outbox[receipt].published
      /\ result[1] = "rejected" =>
           \/ Terminal(h.id) /\ (h # Handoff(h.id) \/ receipt # claims[h.id].outboxIndex)
           \/ ~Terminal(h.id) /\ receipt <= Len(outbox)
  BY <1>1, LoadChecks
<1>8. /\ call' = [call EXCEPT ![k] = IF result[1] # "ok" THEN answer ELSE past]
      /\ acted' = acted
  BY DEF Load, loaded
<1> HIDE DEF past, result
<1>9. CASE result[1] = "ok"
  <2>1. claims[h.id].release # NoRelease => claims[h.id].release.outcome = "released"
    BY <1>1, <1>3, <1>7, <1>9 DEF StoreOk, ReleasesTrue, ValidReleaseOutcome
  <2>2. Loaded(past)
    BY <1>3, <1>5, <1>7, <1>9, <2>1 DEF Loaded
  <2>3. past.pc = "acknowledgement" => PredecessorAcked(past)
    BY <1>5 DEF PredecessorAcked
  <2>4. CallOk(past)
    BY <1>5, <2>2, <2>3 DEF CallOk, Underway
  <2> PICK d \in CallType : d = past
    BY <1>5
  <2>5. CallOk(d)'
    BY <1>1, <2>4, CallKept
  <2> QED
    BY <1>1, <1>2, <1>8, <1>9, <2>5, OneCallInv
<1>10. CASE result[1] # "ok"
  <2>1. /\ answer \in CallType /\ answer.pc = "done" /\ answer.status = result[1]
        /\ result[1] # "pending" => /\ answer.handoff = h /\ answer.receipt = receipt
                                    /\ answer.write = NoRelease
    <3>1. result[1] \in Statuses
      BY <1>6, <1>10 DEF Statuses
    <3>2. loaded \in CallType /\ result[2] \in Reasons
      BY <1>4, <1>6
    <3> QED
      BY <1>4, <3>1, <3>2, AnswerType
  <2> HIDE DEF answer
  <2>2. CallOk(answer)
    <3>1. CASE result[1] = "rejected"
      <4>1. Rejected(answer)
        BY <1>3, <1>7, <2>1, <3>1 DEF Rejected, NotGenuine
      <4> QED
        BY <2>1, <3>1, <4>1 DEF CallOk, Underway
    <3>2. CASE result[1] # "rejected"
      BY <1>6, <1>10, <2>1, <3>2, QuietCallOk DEF Underway
    <3> QED
      BY <3>1, <3>2
  <2> PICK d \in CallType : d = answer
    BY <2>1
  <2>3. CallOk(d)'
    BY <1>1, <2>2, CallKept
  <2> QED
    BY <1>1, <1>2, <1>8, <1>10, <2>3, OneCallInv
<1> QED
  BY <1>9, <1>10

(* A call that is underway, with its facts.                                *)
LEMMA UnderwayFacts ==
  ASSUME RelInv, NEW k \in Calls, call[k].pc \in Underway
  PROVE  /\ call[k] \in CallType /\ CallOk(call[k]) /\ acted[k] = NotActed
         /\ call[k].status = "none" /\ Loaded(call[k])
<1>1. call[k] \in CallType /\ CallOk(call[k])
  BY DEF RelInv
<1>2. call[k].pc # "done"
  BY DEF Underway
<1> QED
  BY <1>1, <1>2, NotDoneNotActed DEF CallOk

(* An answer that releases and rejects nothing may be given at any time.   *)
LEMMA QuietAnswerInv ==
  ASSUME RelInv, StoreKept, NEW k \in Calls, call[k].pc \in Underway,
         NEW status \in {"pending", "withheld"}, NEW reason \in Reasons,
         call' = Finish(k, status, reason), acted' = acted
  PROVE  RelInv'
<1>1. call[k] \in CallType /\ acted[k] = NotActed
  BY UnderwayFacts
<1> PICK c \in CallType : c = call[k]
  BY <1>1
<1> DEFINE answer == Answer(c, status, reason)
<1>2. answer \in CallType /\ answer.pc = "done" /\ answer.status = status
  <2>1. status \in Statuses
    BY DEF Statuses
  <2> QED
    BY <2>1, AnswerType
<1>3. call' = [call EXCEPT ![k] = answer]
  BY DEF Finish
<1> HIDE DEF answer
<1> PICK d \in CallType : d = answer
  BY <1>2
<1>4. CallOk(d)
  BY <1>2, QuietCallOk DEF Underway
<1>5. CallOk(d)'
  BY <1>4, CallKept
<1> QED
  BY <1>1, <1>3, <1>5, OneCallInv

(* Step 5: the predecessor of an appended entry is appended, so its digest *)
(* is its position and the call is never rejected here.                    *)
LEMMA PredecessorInv ==
  ASSUME RelInv, NEW k \in Calls, Predecessor(k)
  PROVE  RelInv'
<1>1. /\ StoreKept /\ StoreOk /\ StoreInv /\ TypeOK /\ acted' = acted
      /\ call[k].pc = "predecessor" /\ call[k].pc \in Underway
  BY SameStoreKept DEF RelInv, StoreOk, StoreInv, Predecessor, Underway
<1>2. /\ call[k] \in CallType /\ acted[k] = NotActed /\ CallOk(call[k])
      /\ call[k].status = "none" /\ Loaded(call[k])
  BY <1>1, UnderwayFacts
<1> PICK c \in CallType : c = call[k]
  BY <1>2
<1> DEFINE past == [c EXCEPT !.pc = "acknowledgement"]
           previous == outbox[c.receipt - 1]
<1>3. /\ past \in CallType /\ past.pc = "acknowledgement" /\ past.status = "none"
      /\ past.handoff = c.handoff /\ past.receipt = c.receipt /\ past.prior = c.prior
      /\ past.finalizedAt = c.finalizedAt
  BY <1>2 DEF CallType, Underway
<1>4. CASE previous.ack = NoAck
  <2>1. call' = Finish(k, "pending", "acknowledgement_unavailable")
    BY <1>4 DEF Predecessor
  <2> QED
    BY <1>1, <2>1, QuietAnswerInv DEF Reasons
<1>5. CASE previous.ack # NoAck
  <2>1. c.receipt \in 1..Len(outbox) /\ Len(outbox) \in Nat /\ DOMAIN outbox = 1..Len(outbox)
    BY <1>1, <1>2, LogShape DEF Loaded
  <2>2. c.receipt > 1
    <3>1. c.receipt # 1
      BY <1>1, <1>2 DEF CallOk
    <3> QED
      BY <2>1, <3>1
  <2>3. previous.published /\ previous.digest = c.receipt - 1
    BY <1>1, <1>5, <2>1, <2>2 DEF StoreOk, StoreInv, LogInOrder, InOrder, DigestsNameEntries
  <2>4. call' = [call EXCEPT ![k] = past]
    BY <1>5, <2>3 DEF Predecessor, Goto
  <2> HIDE DEF past
  <2>5. CallOk(past)
    <3>1. Loaded(past)
      BY <1>2, <1>3 DEF Loaded
    <3>2. PredecessorAcked(past)
      BY <1>3, <1>5 DEF PredecessorAcked
    <3> QED
      BY <1>3, <3>1, <3>2 DEF CallOk
  <2> PICK d \in CallType : d = past
    BY <1>3
  <2>6. CallOk(d)'
    BY <1>1, <2>5, CallKept
  <2> QED
    BY <1>1, <1>2, <2>4, <2>6, OneCallInv
<1> QED
  BY <1>4, <1>5

(* Step 6: the acknowledgement of the entry is the one a prior release was *)
(* recorded with, so the call is never rejected here either.               *)
LEMMA AcknowledgementInv ==
  ASSUME RelInv, NEW k \in Calls, Acknowledgement(k)
  PROVE  RelInv'
<1>1. /\ StoreKept /\ StoreOk /\ StoreInv /\ TypeOK /\ acted' = acted
      /\ call[k].pc = "acknowledgement" /\ call[k].pc \in Underway
  BY SameStoreKept DEF RelInv, StoreOk, StoreInv, Acknowledgement, Underway
<1>2. /\ call[k] \in CallType /\ acted[k] = NotActed /\ CallOk(call[k])
      /\ call[k].status = "none" /\ Loaded(call[k])
  BY <1>1, UnderwayFacts
<1> PICK c \in CallType : c = call[k]
  BY <1>2
<1> DEFINE entry == outbox[c.receipt]
           past == [c EXCEPT !.ack = entry.ack, !.pc = "clock"]
<1>3. c.receipt \in 1..Len(outbox) /\ entry \in Entry /\ entry.published
  BY <1>1, <1>2, LogShape DEF Loaded
<1>4. entry.ack \in Int
  BY <1>3, StoreAssumption DEF Entry, NoAck
<1> HIDE DEF entry
<1>5. /\ past \in CallType /\ past.pc = "clock" /\ past.status = "none"
      /\ past.handoff = c.handoff /\ past.receipt = c.receipt /\ past.prior = c.prior
      /\ past.finalizedAt = c.finalizedAt /\ past.ack = entry.ack
  BY <1>2, <1>4 DEF CallType, Underway
<1>6. CASE entry.ack = NoAck
  <2>1. call' = Finish(k, "pending", "acknowledgement_unavailable")
    BY <1>6 DEF Acknowledgement, entry
  <2> QED
    BY <1>1, <2>1, QuietAnswerInv DEF Reasons
<1>7. CASE entry.ack # NoAck
  <2>1. entry.digest = c.receipt
    BY <1>1, <1>3 DEF StoreOk, DigestsNameEntries, entry
  <2>2. c.prior # NoRelease => c.prior.ackTimestamp = entry.ack
    BY <1>1, <1>2 DEF Loaded, StoreOk, ReleasesTrue, entry
  <2>3. call' = [call EXCEPT ![k].ack = entry.ack, ![k].pc = "clock"]
    BY <1>7, <2>1, <2>2 DEF Acknowledgement, EntryHash, entry
  <2>4. call' = [call EXCEPT ![k] = past]
    BY <1>2, <2>3 DEF RelInv
  <2> HIDE DEF past
  <2>5. CallOk(past)
    <3>1. Loaded(past)
      BY <1>2, <1>5 DEF Loaded
    <3>2. PredecessorAcked(past)
      BY <1>1, <1>2, <1>5 DEF CallOk, PredecessorAcked, Underway
    <3>3. Acked(past)
      BY <1>5, <1>7, <2>2 DEF Acked, entry
    <3> QED
      BY <1>5, <3>1, <3>2, <3>3 DEF CallOk
  <2> PICK d \in CallType : d = past
    BY <1>5
  <2>6. CallOk(d)'
    BY <1>1, <2>5, CallKept
  <2> QED
    BY <1>1, <1>2, <2>4, <2>6, OneCallInv
<1> QED
  BY <1>6, <1>7

(* Steps 7 and 8 release only in time.                                     *)
LEMMA ReasonInTime ==
  ASSUME StoreKept, NEW c \in CallType, Loaded(c), ClockOk, highWater' = now,
         NEW k \in Calls, c = call[k], WithholdReason(k, now) = "none"
  PROVE  /\ c.finalizedAt <= c.ack /\ c.ack <= now /\ now <= highWater'
         /\ now < c.handoff.expiresAt
         /\ c.handoff.body.result = "allow" => now < c.handoff.allowHorizon
<1>1. /\ now \in Int /\ c.ack \in Int /\ c.handoff \in HandoffType
      /\ c.handoff.expiresAt \in Int
      /\ c.handoff.allowHorizon \in Int
  <2>1. c.handoff \in HandoffType
    BY HandoffTyped DEF Loaded, StoreKept
  <2> QED
    BY <2>1, StoreAssumption DEF StoreKept, StoreOk, StoreInv, TypeOK, CallType, HandoffType
<1>2. /\ c.finalizedAt <= c.ack /\ c.ack <= now
      /\ ~(now >= c.handoff.expiresAt)
      /\ c.handoff.body.result = "allow" => ~(now >= c.handoff.allowHorizon)
  BY DEF WithholdReason
<1> QED
  BY <1>1, <1>2

(* The reasons of steps 7 and 8.                                           *)
LEMMA ReasonType ==
  ASSUME NEW k, NEW t
  PROVE  WithholdReason(k, t) \in WithheldReasons \cup {"none"}
BY DEF WithholdReason, WithheldReasons

(* What a decision writes or answers.  A prior release was recorded with   *)
(* the same entry and acknowledgement, so releasing it again, or after a   *)
(* later reading withholding it, writes nothing.                           *)
LEMMA DecideInv ==
  ASSUME RelInv, StoreKept, NEW k \in Calls, call[k].pc = "clock", acted' = acted,
         NEW reason \in WithheldReasons \cup {"none"}, call' = Decide(k, reason),
         reason = "none" => /\ ClockOk /\ highWater' = now
                            /\ WithholdReason(k, now) = "none"
  PROVE  RelInv'
<1>1. /\ StoreOk /\ StoreInv /\ TypeOK /\ now \in Int /\ call[k].pc \in Underway
  BY DEF RelInv, StoreOk, StoreInv, TypeOK, Underway
<1>2. /\ call[k] \in CallType /\ acted[k] = NotActed /\ CallOk(call[k])
      /\ call[k].status = "none" /\ Loaded(call[k])
  BY <1>1, UnderwayFacts
<1> PICK c \in CallType : c = call[k]
  BY <1>2
<1> PICK t \in Int : t = now
  BY <1>1
<1> DEFINE write == [entryHash |-> c.receipt, ackTimestamp |-> c.ack,
                     outcome |-> IF reason = "none" THEN "released" ELSE "withheld",
                     reason |-> reason]
           past == [c EXCEPT !.write = write, !.time = t, !.pc = "record"]
           done == [c EXCEPT !.status = write.outcome, !.reason = reason,
                             !.time = t, !.pc = "done"]
<1>3. /\ write \in ReleaseType /\ ValidReleaseOutcome(write)
      /\ write.entryHash = c.receipt /\ write.ackTimestamp = c.ack
      /\ write.outcome \in {"released", "withheld"}
      /\ write.outcome = "released" => reason = "none" /\ write = ReleaseOf(c)
  BY DEF ReleaseType, CallType, ValidReleaseOutcome, Outcomes, ReleaseOf
<1>4. reason \in Reasons
  BY DEF Reasons
<1>5. call' = [call EXCEPT ![k] = IF c.prior = NoRelease THEN past ELSE done]
  BY <1>2 DEF Decide, RelInv, EntryHash
<1> HIDE DEF write
<1>6. /\ past \in CallType /\ past.pc = "record" /\ past.status = "none"
      /\ past.handoff = c.handoff /\ past.receipt = c.receipt /\ past.prior = c.prior
      /\ past.finalizedAt = c.finalizedAt /\ past.ack = c.ack
      /\ past.write = write /\ past.time = t
  BY <1>2, <1>3 DEF CallType, Underway
<1>7. /\ done \in CallType /\ done.pc = "done" /\ done.status = write.outcome
      /\ done.handoff = c.handoff /\ done.receipt = c.receipt /\ done.prior = c.prior
      /\ done.finalizedAt = c.finalizedAt /\ done.ack = c.ack /\ done.time = t
  BY <1>2, <1>3, <1>4 DEF CallType, Underway, Statuses
<1> HIDE DEF past, done
<1>8. Loaded(c)' /\ PredecessorAcked(c)' /\ Acked(c)'
  BY <1>1, <1>2, LoadedKept, AckedKept DEF CallOk, Underway
<1>9. write.outcome = "released" =>
        /\ c.finalizedAt <= c.ack /\ c.ack <= t /\ t <= highWater'
        /\ t < c.handoff.expiresAt
        /\ c.handoff.body.result = "allow" => t < c.handoff.allowHorizon
  BY <1>2, <1>3, ReasonInTime
<1>10. CASE c.prior = NoRelease
  <2> PICK d \in CallType : d = past
    BY <1>6
  <2>1. Loaded(d)' /\ PredecessorAcked(d)' /\ Acked(d)'
    BY <1>6, <1>8 DEF Loaded, PredecessorAcked, Acked
  <2>2. WritesTruth(d)'
    BY <1>3, <1>6, <1>9 DEF WritesTruth, InTime
  <2>3. CallOk(d)'
    BY <1>6, <2>1, <2>2 DEF CallOk
  <2> QED
    BY <1>2, <1>5, <1>10, <2>3, OneCallInv
<1>11. CASE c.prior # NoRelease
  <2> PICK d \in CallType : d = done
    BY <1>7
  <2>1. ASSUME write.outcome = "released" PROVE Released(d)'
    <3>1. Loaded(d)' /\ PredecessorAcked(d)' /\ Acked(d)'
      BY <1>7, <1>8 DEF Loaded, PredecessorAcked, Acked
    <3>2. InTime(d)'
      BY <1>7, <1>9, <2>1 DEF InTime
    <3>3. /\ claims'[c.handoff.id].release = c.prior /\ c.prior.outcome = "released"
          /\ claims'[c.handoff.id].outboxIndex = c.receipt /\ c.handoff.id \in ClaimIds
          /\ c.prior.ackTimestamp = c.ack
      BY <1>8, <1>11 DEF Loaded, Acked
    <3>4. c.prior.entryHash = c.receipt /\ c.prior.reason = "none"
      BY <1>11, <3>3 DEF StoreKept, StoreOk, ReleasesTrue, ValidReleaseOutcome
    <3>5. c.prior = ReleaseOf(c)
      BY <3>3, <3>4 DEF CallType, ReleaseType, ReleaseOf
    <3>6. ReleaseOf(d) = ReleaseOf(c)
      BY <1>7 DEF ReleaseOf
    <3>7. claims'[d.handoff.id].release = ReleaseOf(d)
      BY <1>7, <3>3, <3>5, <3>6
    <3> QED
      BY <3>1, <3>2, <3>7 DEF Released, ReleaseOf
  <2>2. CallOk(d)'
    BY <1>3, <1>7, <2>1 DEF CallOk, Underway
  <2> QED
    BY <1>2, <1>5, <1>11, <2>2, OneCallInv
<1> QED
  BY <1>10, <1>11

(* Steps 7 and 8 with their reading of the clock.                          *)
LEMMA ReleaseClockInv ==
  ASSUME RelInv, NEW k \in Calls, ReleaseClock(k)
  PROVE  RelInv'
<1>1. StoreOk /\ StoreInv /\ TypeOK /\ acted' = acted /\ call[k].pc = "clock"
  BY DEF RelInv, StoreOk, StoreInv, ReleaseClock
<1>2. StoreKept
  <2>1. [Next]_storeVars /\ claims' = claims
    BY DEF ReleaseClock, Next, ClockStep, AuthoritativeTime
  <2> QED
    BY <1>1, <2>1, StoreStepKept
<1>3. CASE ClockReading = "ok"
  <2>1. ClockOk /\ highWater' = now
    BY <1>3 DEF ClockOk, ReleaseClock, ReadClockIf, HighWaterAfterRead
  <2>2. call' = Decide(k, WithholdReason(k, now))
    BY <1>3 DEF ReleaseClock
  <2> QED
    BY <1>1, <1>2, <2>1, <2>2, ReasonType, DecideInv
<1>4. CASE ClockReading = "clock_regressed"
  <2>1. call' = Decide(k, "clock_regressed")
    BY <1>4 DEF ReleaseClock
  <2>2. "clock_regressed" \in WithheldReasons \cup {"none"} /\ "clock_regressed" # "none"
    BY DEF WithheldReasons
  <2> QED
    BY <1>1, <1>2, <2>1, <2>2, DecideInv
<1>5. CASE ClockReading \notin {"ok", "clock_regressed"}
  <2>1. call' = Finish(k, "pending", "clock_unavailable")
    BY <1>5 DEF ReleaseClock
  <2>2. call[k].pc \in Underway /\ "clock_unavailable" \in Reasons
    BY <1>1 DEF Underway, Reasons
  <2> QED
    BY <1>1, <1>2, <2>1, <2>2, QuietAnswerInv
<1> QED
  BY <1>3, <1>4, <1>5

(* Step 9: the first record of a claim wins.  A release is answered only   *)
(* when it is the record, and a rejection when another record is.          *)
LEMMA RecordInv ==
  ASSUME RelInv, NEW k \in Calls, NEW ok \in BOOLEAN, NEW heard \in BOOLEAN,
         Record(k, ok, heard)
  PROVE  RelInv'
<1>1. /\ StoreOk /\ StoreInv /\ TypeOK /\ acted' = acted
      /\ call[k].pc = "record" /\ call[k].pc \in Underway
  BY DEF RelInv, StoreOk, StoreInv, Record, Underway
<1>2. /\ call[k] \in CallType /\ acted[k] = NotActed /\ CallOk(call[k])
      /\ call[k].status = "none" /\ Loaded(call[k]) /\ WritesTruth(call[k])
      /\ PredecessorAcked(call[k]) /\ Acked(call[k])
  BY <1>1, UnderwayFacts DEF CallOk, Underway
<1> PICK c \in CallType : c = call[k]
  BY <1>2
<1> DEFINE id == c.handoff.id
           result == RecordReleaseResult(id, c.write, ok)
<1>3. /\ id \in ClaimIds /\ RecordRelease(id, c.write, ok) /\ c.write \in ReleaseType
      /\ c.write.entryHash = claims[id].outboxIndex
      /\ outbox[claims[id].outboxIndex].ack # NoAck
      /\ c.write.ackTimestamp = outbox[claims[id].outboxIndex].ack
      /\ ValidReleaseOutcome(c.write) /\ Terminal(id)
  BY <1>2 DEF Record, Loaded, WritesTruth, Acked, CallType
<1>4. StoreKept
  BY <1>1, <1>3, RecordStepKept
<1>5. /\ Loaded(c)' /\ PredecessorAcked(c)' /\ Acked(c)' /\ WritesTruth(c)'
  BY <1>2, <1>4, LoadedKept, AckedKept, InTimeKept DEF WritesTruth
<1>6. c.write.outcome \in {"released", "withheld"} /\ c.write.reason \in Reasons
      /\ (c.write.outcome = "released" => c.write = ReleaseOf(c))
  <2>1. c.write.outcome = "released" => c.write.reason = "none"
    BY <1>3 DEF ValidReleaseOutcome
  <2>2. c.write.outcome = "released" => c.write = ReleaseOf(c)
    BY <1>2, <1>3, <2>1 DEF WritesTruth, ReleaseOf, ReleaseType
  <2> QED
    BY <1>3, <2>2 DEF ValidReleaseOutcome, ReleaseType, Reasons
<1>7. result \in {"recorded", "unchanged"} => claims'[id].release = c.write
  BY <1>1, <1>3 DEF RecordRelease, RecordReleaseResult, TypeOK, ClaimRecord
<1>8. result = "release_state_mismatch" =>
        /\ claims[id].release # NoRelease /\ claims[id].release # c.write
  BY <1>3 DEF RecordReleaseResult, Terminal
<1>9. CASE heard /\ result = "release_state_mismatch"
  <2> DEFINE answer == Answer(c, "rejected", "release_state_mismatch")
  <2>1. call' = [call EXCEPT ![k] = answer]
    BY <1>9 DEF Record, Finish
  <2>2. "rejected" \in Statuses /\ "release_state_mismatch" \in Reasons
    BY DEF Statuses, Reasons
  <2>3. /\ answer \in CallType /\ answer.pc = "done" /\ answer.status = "rejected"
        /\ answer.handoff = c.handoff /\ answer.write = c.write
    BY <2>2, AnswerType
  <2> HIDE DEF answer
  <2>4. CallOk(answer)
    <3>1. c.write # NoRelease
      BY <1>6 DEF NoRelease
    <3>2. Rejected(answer)
      BY <1>3, <1>8, <1>9, <2>3, <3>1 DEF Rejected, Outrun
    <3> QED
      BY <2>3, <3>2 DEF CallOk, Underway
  <2> PICK d \in CallType : d = answer
    BY <2>3
  <2>5. CallOk(d)'
    BY <1>4, <2>4, CallKept
  <2> QED
    BY <1>1, <1>2, <1>4, <2>1, <2>5, OneCallInv
<1>10. CASE ~(heard /\ result = "release_state_mismatch") /\ c.write.outcome = "withheld"
  <2>1. call' = Finish(k, "withheld", c.write.reason)
    BY <1>10 DEF Record
  <2> QED
    BY <1>1, <1>4, <1>6, <2>1, QuietAnswerInv
<1>11. CASE heard /\ result \in {"recorded", "unchanged"} /\ c.write.outcome = "released"
  <2> DEFINE answer == Answer(c, "released", c.write.reason)
  <2>1. call' = [call EXCEPT ![k] = answer]
    BY <1>11 DEF Record, Finish
  <2>2. "released" \in Statuses
    BY DEF Statuses
  <2>3. /\ answer \in CallType /\ answer.pc = "done" /\ answer.status = "released"
        /\ answer.handoff = c.handoff /\ answer.receipt = c.receipt /\ answer.prior = c.prior
        /\ answer.finalizedAt = c.finalizedAt /\ answer.ack = c.ack /\ answer.time = c.time
    BY <1>6, <2>2, AnswerType
  <2> HIDE DEF answer
  <2> PICK d \in CallType : d = answer
    BY <2>3
  <2>4. Loaded(d)' /\ PredecessorAcked(d)' /\ Acked(d)'
    BY <1>5, <2>3 DEF Loaded, PredecessorAcked, Acked
  <2>5. InTime(d)'
    BY <1>5, <1>11, <2>3 DEF WritesTruth, InTime
  <2>6. claims'[d.handoff.id].release = ReleaseOf(d)
    BY <1>6, <1>7, <1>11, <2>3 DEF ReleaseOf
  <2>7. CallOk(d)'
    BY <2>3, <2>4, <2>5, <2>6 DEF CallOk, Released, ReleaseOf, Underway
  <2> QED
    BY <1>1, <1>2, <1>4, <2>1, <2>7, OneCallInv
<1>12. CASE /\ ~(heard /\ result \in {"recorded", "unchanged", "release_state_mismatch"})
            /\ c.write.outcome = "released"
  <2>1. call' = Finish(k, "pending", "claim_store_unavailable")
    BY <1>12 DEF Record
  <2>2. "claim_store_unavailable" \in Reasons
    BY DEF Reasons
  <2> QED
    BY <1>1, <1>4, <2>1, <2>2, QuietAnswerInv
<1> QED
  BY <1>6, <1>9, <1>10, <1>11, <1>12

(* The caller goes on to its next call.                                    *)
LEMMA AgainInv ==
  ASSUME RelInv, NEW k \in Calls, Again(k)
  PROVE  RelInv'
<1>1. StoreKept /\ acted' = acted /\ acted[k] = NotActed
      /\ call' = [call EXCEPT ![k] = NoCall]
  BY SameStoreKept DEF RelInv, Again
<1> PICK d \in CallType : d = NoCall
  BY NoCallType
<1>2. CallOk(d)
  BY NoCallType, QuietCallOk DEF Underway
<1>3. CallOk(d)'
  BY <1>1, <1>2, CallKept
<1> QED
  BY <1>1, <1>3, OneCallInv

(* allowed reads the clock after the release, before the side effect.      *)
LEMMA ActInv ==
  ASSUME RelInv, NEW k \in Calls, Act(k)
  PROVE  RelInv'
<1>1. /\ StoreOk /\ StoreInv /\ TypeOK /\ call' = call /\ claims' = claims
      /\ call[k] \in CallType /\ CallOk(call[k]) /\ call[k].status = "released"
  BY DEF RelInv, StoreOk, StoreInv, Act
<1>2. StoreKept
  <2>1. highWater' = highWater \/ highWater' = HighWaterAfterRead
    BY DEF Act, ReadClockIf
  <2>2. [Next]_storeVars
    BY <2>1 DEF Act, Next, ClockStep, AuthoritativeTime, ReadClockIf, storeVars, clockVars
  <2> QED
    BY <1>1, <2>2, StoreStepKept
<1>3. CASE ~Allowed(k)
  BY <1>1, <1>2, <1>3, SameCallsInv DEF Act, relVars
<1>4. CASE Allowed(k)
  <2>1. /\ ClockOk /\ now \in Int /\ highWater \in Int /\ highWater <= now
    BY <1>1, <1>4, GoodReading DEF Allowed, TypeOK
  <2>2. acted' = [acted EXCEPT ![k] = now]
    BY <1>4 DEF Act
  <2> PICK c \in CallType : c = call[k]
    BY <1>1
  <2> PICK t \in Int : t = now
    BY <2>1
  <2>3. Released(c) /\ c.handoff.id \in ClaimIds /\ Terminal(c.handoff.id)
    BY <1>1 DEF CallOk, Released, Loaded
  <2>4. /\ c.handoff.body = claims[c.handoff.id].receiptBody
        /\ c.handoff.expiresAt = claims[c.handoff.id].claim.expiresAt
        /\ c.handoff.allowHorizon = claims[c.handoff.id].allowHorizon
    BY <2>3 DEF Released, Loaded, Handoff
  <2>5. claims[c.handoff.id].terminal = "allow"
    BY <1>1, <1>4, <2>3, <2>4 DEF Allowed, StoreOk, WindowInv, CommitInWindow, PayloadBinds
  <2>6. c.time <= t
    BY <2>1, <2>3 DEF Released, InTime, CallType
  <2>7. ActedOk(c, t)
    BY <1>1, <1>4, <2>3, <2>4, <2>5, <2>6 DEF ActedOk, Allowed, Released, ReleaseOf
  <2>8. ActedOk(c, t)'
    BY <1>1, <1>2, <2>7, ActedKept
  <2>9. ASSUME NEW j \in Calls PROVE CallOk(call[j])'
    <3>1. call'[j] = call[j] /\ call[j] \in CallType /\ CallOk(call[j])
      BY <1>1 DEF RelInv
    <3> PICK e \in CallType : e = call[j]
      BY <3>1
    <3>2. CallOk(e)'
      BY <1>2, <3>1, CallKept
    <3> QED
      BY <3>1, <3>2
  <2>10. ASSUME NEW j \in Calls, acted'[j] # NotActed PROVE ActedOk(call[j], acted[j])'
    <3>1. CASE j = k
      <4>1. call'[j] = c /\ acted'[j] = t
        BY <1>1, <2>2, <3>1 DEF RelInv
      <4> QED
        BY <2>8, <4>1
    <3>2. CASE j # k
      <4>1. /\ call'[j] = call[j] /\ call[j] \in CallType /\ CallOk(call[j])
            /\ acted'[j] = acted[j] /\ acted[j] \in Int /\ ActedOk(call[j], acted[j])
        BY <1>1, <2>2, <2>10, <3>2 DEF RelInv
      <4> PICK e \in CallType : e = call[j]
        BY <4>1
      <4> PICK u \in Int : u = acted[j]
        BY <4>1
      <4>2. ActedOk(e, u)'
        BY <1>2, <4>1, ActedKept
      <4> QED
        BY <4>1, <4>2
    <3> QED
      BY <3>1, <3>2
  <2> QED
    BY <1>1, <1>2, <2>1, <2>2, <2>9, <2>10 DEF RelInv, StoreKept
<1> QED
  BY <1>3, <1>4

-----------------------------------------------------------------------------
(* Every step of the deployment and of its callers keeps the invariant.    *)
LEMMA RelNextInv ==
  ASSUME RelInv, [RelNext]_vars
  PROVE  RelInv'
<1>1. StoreOk
  BY DEF RelInv
<1>2. CASE Environment
  BY <1>1, <1>2, EnvironmentKept, SameCallsInv DEF Environment
<1>3. CASE UNCHANGED vars
  BY <1>1, <1>3, SameStoreKept, SameCallsInv DEF vars
<1>4. ASSUME NEW k \in Calls, NEW id \in ClaimIds, NEW receipt \in Receipts, NEW up \in BOOLEAN,
             GenuineCall(k, id, receipt, up)
      PROVE  RelInv'
  <2>1. Handoff(id) \in HandoffType
    BY <1>1, <1>4, HandoffTyped DEF GenuineCall, Terminal
  <2> QED
    BY <1>4, <2>1, LoadInv DEF GenuineCall
<1>5. ASSUME NEW k \in Calls, ForeignCall(k) PROVE RelInv'
  BY <1>5, LoadInv, ForeignAssumption DEF ForeignCall
<1>6. ASSUME NEW k \in Calls, Unavailable(k) PROVE RelInv'
  <2>1. StoreKept /\ acted' = acted /\ call[k].pc \in Underway
        /\ "acknowledgement_unavailable" \in Reasons
    BY <1>1, <1>6, SameStoreKept DEF Unavailable, Underway, Reasons
  <2> QED
    BY <1>6, <2>1, QuietAnswerInv DEF Unavailable
<1>7. ASSUME NEW k \in Calls, CallStep(k) PROVE RelInv'
  BY <1>7, PredecessorInv, AcknowledgementInv, ReleaseClockInv, RecordInv, AgainInv DEF CallStep
<1> QED
  BY <1>2, <1>3, <1>4, <1>5, <1>6, <1>7, RecordInv, ActInv DEF RelNext

(* The invariant of releases, for any number of callers, any claims and    *)
(* any clock, and whatever handoffs of other stores are presented.         *)
THEOREM ReleaseInvariant == RelSpec => []RelInv
<1>1. RelInit => RelInv
  <2> SUFFICES ASSUME RelInit PROVE RelInv
    OBVIOUS
  <2>1. StoreInv /\ WindowInv
    BY InitKeepsStore, InitInWindow DEF RelInit
  <2>2. outbox = <<>> /\ \A id \in ClaimIds : claims[id].release = NoRelease
    <3>1. \A id \in ClaimIds : Absent(id).release = NoRelease
      BY DEF Absent
    <3> QED
      BY <3>1 DEF RelInit, Init
  <2>3. StoreOk
    BY <2>1, <2>2 DEF StoreOk, DigestsNameEntries, ReleasesTrue
  <2>4. /\ \A k \in Calls : call[k] = NoCall /\ acted[k] = NotActed
        /\ call \in [Calls -> CallType] /\ acted \in [Calls -> Int]
    BY NoCallType DEF RelInit, NotActed
  <2>5. CallOk(NoCall)
    BY NoCallType, QuietCallOk DEF Underway
  <2> QED
    BY <2>3, <2>4, <2>5 DEF RelInv
<1>2. RelInv /\ [RelNext]_vars => RelInv'
  BY RelNextInv
<1> QED
  BY <1>1, <1>2, PTL DEF RelSpec

(* A released answer, whatever ran between the five calls that produced    *)
(* it, is the recorded release of a terminal claim: one log entry, its     *)
(* acknowledgement and its predecessor's, and times in order before the    *)
(* sealed deadlines (release_v2_decision).                                 *)
THEOREM ReleasesSound == RelSpec => []ReleaseSound
<1>1. RelInv => ReleaseSound
  <2> SUFFICES ASSUME RelInv, NEW k \in Calls, call[k].status = "released"
               PROVE  LET h == call[k].handoff
                          r == claims[h.id]
                          i == call[k].receipt
                      IN  /\ Terminal(h.id) /\ ~r.abandoned /\ h = Handoff(h.id)
                          /\ i = r.outboxIndex /\ outbox[i].published
                          /\ outbox[i].ack = call[k].ack
                          /\ i > 1 => outbox[i - 1].ack # NoAck
                          /\ r.release = [entryHash |-> i, ackTimestamp |-> call[k].ack,
                                          outcome |-> "released", reason |-> "none"]
                          /\ r.finalizedAt <= call[k].ack /\ call[k].ack <= call[k].time
                          /\ call[k].time < h.expiresAt
                          /\ h.body.result = "allow" => call[k].time < h.allowHorizon
    BY DEF ReleaseSound
  <2>1. Released(call[k]) /\ StoreInv
    BY DEF RelInv, StoreOk, CallOk
  <2>2. ~claims[call[k].handoff.id].abandoned
    BY <2>1, TerminalFacts DEF Released, Loaded
  <2> QED
    BY <2>1, <2>2 DEF Released, Loaded, PredecessorAcked, Acked, InTime, ReleaseOf
<1> QED
  BY <1>1, ReleaseInvariant, PTL

(* An action on a released allow is taken at a reading no earlier than the *)
(* release and strictly before both sealed deadlines (allowed).            *)
THEOREM ActionsInTime == RelSpec => []ActedInTime
<1>1. RelInv => ActedInTime
  BY DEF RelInv, ActedInTime, ActedOk
<1> QED
  BY <1>1, ReleaseInvariant, PTL

(* With the handoff and the receipt of its own claim a call is rejected    *)
(* only because another call recorded a different result first.            *)
THEOREM RejectionsJustified == RelSpec => []RejectedOnlyOnConflict
<1>1. RelInv => RejectedOnlyOnConflict
  BY DEF RelInv, RejectedOnlyOnConflict, CallOk, Rejected, Outrun, NotGenuine
<1> QED
  BY <1>1, ReleaseInvariant, PTL
=============================================================================
