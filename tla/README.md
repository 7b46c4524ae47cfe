# Ratify Protocol: TLA+ models and proofs

Ratify lets a verifier decide whether an agent may act under delegations that a
principal signed. Protocol v2 turns a decision into a durable state machine: a
challenge is claimed once, evaluated by one evaluator under a lease, committed
together with a position in an append-only receipt log, signed and published,
acknowledged by an independent checkpoint, and only then released to the
application. Around it stand status evidence, key rotation, witness logs,
challenge issuance and an offline device, each with durable state of its own;
Protocol v1 is a single stateless check against a challenge store, and a C ABI
exposes both. This project models these parts from the Rust sources, checks
them with TLC on small instances and proves the central ones with TLAPS for
every value of the constants. File names below are relative to
`sdks/rust/src/v2` unless they start with `sdks/`.

## 1. The system

### Components, state and operations

| Component | State | Operations |
|---|---|---|
| Part B store (`reference/store.rs`) | clock and its high-water mark, claims, streams, receipt outbox, checkpoint and log freezes, release records, rate commits | clock reading, claim, progress, finalize, load/recover interrupted, load committed, publish, acknowledge, abandon, load terminal, record release |
| Live decision path (`verify.rs`) | the evaluation of one call: token, progress | preflight, claim, trust, local authorization, status, audience, rate, finalize |
| Recovery and resumption (`evaluation_progress.rs`) | none of its own: progress is in the store | recover an expired claim, resume a committed one |
| Authorization stages (`authorization.rs`) | pending assessment of one evaluation | local, after status, after audience, after rate, allow horizon |
| Receipts (`receipt.rs`) | none | consistency table, body, signature, wire |
| Release (`release.rs`) | none of its own: the record is in the store | `release_v2_decision`, `V2ReleasedDecision::allowed` |
| Status evidence (`status.rs`, `status_provenance.rs`, `status_batch.rs`) | reducer state per issuer and epoch | apply list, apply push, status stage |
| Security journal (`journal.rs`, `journal_snapshot.rs`, `reference/journal.rs`) | anchored journal and head | compare-and-swap, key roles, status-key epochs |
| Status publisher (`status_publisher.rs`) | sequence, revoked set | genesis, heartbeat, revoke |
| Key rotation (`rotation.rs`) | accepted statements, frozen | accept, recover |
| Challenge issuance (`challenge_issuance.rs`, `reference/challenges.rs`) | issued challenges | issue, load, preflight |
| Offline device (`reference/offline_device.rs`, `reference/device_state.rs`) | secure head, records, capacity | anchor, commit, startup, resubmit, upload, copy, bind |
| Approval ledger and trust registry (`reference/approval_ledger.rs`, `reference/trust_registry.rs`) | approval sets | open, record approval, execute |
| Witness log (`witness.rs`, `checkpoint_ack.rs`) | log head, freeze | sign an entry, verify one at a position |
| Constraints (`constraints.rs`, `evaluator.rs`, `tzdb.rs`) | evaluator threads of one call | one verdict per constraint, chain status, rate batch, time-window horizon |
| Receiver audience (`audience.rs`) | none | named receivers, memberships, horizon |
| Protocol v1 (`sdks/rust/src/verify.rs`, `challenge_store.rs`, `constraints.rs`, `scope.rs`) | challenges, session tokens, stream position | verify bundle, streamed turn, issue and consume a challenge, draft constraints |
| C ABI (`sdks/c/src`, `sdks/c/src/v2`) | opaque handles, poison flags, cancellation of one operation | every exported function; adapters around C callbacks |

Everything else of the repository (wire formats, canonical JSON, cryptography,
the parser of time-zone data, transactions and archival verification, the ports
to other languages, the UniFFI wrappers, demos, vectors) keeps no protocol
state.

### How the parts interact

`verify_proof_bundle_v2` calls the store to claim, three times to record
progress around the trust and status lookups, and once or twice to finalize.
A recovery worker makes two store calls. `release_v2_decision` makes up to five
calls: load, two acknowledgements, clock, record. The publisher and the
checkpoint run on their own. The store's mutex makes each call atomic and
nothing more: between two calls of one caller anything may happen, the clock may
be set in either direction, and a call may take effect and its answer be lost,
because a panic of the store is caught and read as unavailable.

The status stage reads the security journal, applies what it fetched and
writes the result back by compare-and-swap, so that two stages and an operator
race for one head. The publisher's own journal decides which status key it may
use. Challenge issuance writes a record before it exposes a value; the preflight
reads it back. The device anchors a digest of its complete state in a secure
element before it acknowledges anything, and a copy of the device is a second
writer. The approval ledger consumes released decisions. Across the C ABI every
store and provider is an adapter around a C function.

### What is hard here

- the lease boundary between evaluator and recovery, and every race across it;
- a clock that regresses or leaves its domain between any two steps;
- state loaded in one call and relied on in a later one (recovery, release, the
  journal's compare-and-swap, the device's staged changes);
- a commit whose handoff, or a record whose answer, is lost;
- head-of-line blocking, forks and abandonment of the receipt log on two
  acknowledgement paths;
- rate admission at finalization, with a retry as a denial;
- verdicts that stay pending across stages and must end in a receipt that the
  receipt table accepts;
- evidence that arrives reordered, duplicated, in two versions, or signed by a
  key of another epoch;
- power loss and rollback between anchoring, storing and acknowledging; a device
  that is copied or bound lock by lock while it goes on changing;
- evaluators on threads that answer too late or answer another call;
- panics and poisoned handles in the middle of a multi-step export.

`PROJECT.json` lists these as hazards, each at its line and with the properties
that would fail.

## 2. Modules

| Module | Models | Notes |
|---|---|---|
| `ClaimStore` | `reference/store.rs`, with the claim rules of `claim_store.rs`, `limits.rs`, `stream_sequence.rs` | callers are arbitrary: any method, any argument, any time |
| `Release` | `release.rs` | EXTENDS `ClaimStore`; each call is a process with a program counter |
| `Authorization` | stages of `authorization.rs`, decision of `claim_store.rs`, table of `receipt.rs` | pure operators over abstract findings |
| `Evaluation` | `verify.rs`, `evaluation_progress.rs` | EXTENDS `ClaimStore` and `Authorization` |
| `StatusReducer` | `status.rs`: apply, compaction, forks, gaps, epochs, validation, query | pure functions over one issuer's state |
| `StatusHistory` | a caller that applies any authentic objects in any order | composes the reducer with an adversarial history |
| `RevocationLedger` | the abstract promise of the journal: what was accepted as revoked only grows | abstract specification |
| `SecurityJournal` | `journal.rs`, `journal_snapshot.rs`, the status stage of `status_provenance.rs` and `status_batch.rs` | stages and an operator race by compare-and-swap; implements `RevocationLedger` |
| `StatusFeed` | `status_publisher.rs` with its caller's duties, a channel and a verifier | crashes between signing, storing and sending |
| `KeyRotation` | `rotation.rs` | several verifiers, equivocating holders, recovery by the root |
| `WitnessLog` | `witness.rs`, the shared log-position decision of `checkpoint_ack.rs` | several readers |
| `ChallengeIssuance`, `Preflight` | `challenge_issuance.rs`, `reference/challenges.rs`; `preflight.rs`, `context_policy.rs` | issuance is a multi-step call with failure points |
| `OfflineDevice` | `reference/offline_device.rs`, `reference/device_state.rs` | several primaries, one secure element, threads that stage changes; copying and binding take one lock after another |
| `ApprovalLedger` | `reference/approval_ledger.rs`, `reference/trust_registry.rs` | consumes released decisions |
| `Calendar`, `CountedCalendar` | calendar conversions, and a calendar counted day by day | algorithm and reference definition |
| `CivilTime` | time windows over zone transitions and their horizon | |
| `ConstraintEvaluation` | the evaluators of a chain, extension evaluators on worker threads | |
| `Audience` | `audience.rs` | memberships as they age |
| `ConstraintsV1`, `ConstraintDrafts` | v1 constraints and scopes; drafting and evaluating them | |
| `VerifyV1` | `verify_bundle`, streamed turns, session tokens, the challenge store | |
| `CExports`, `CAbi` | every function of the v1 C ABI as a contract; sequences of calls over handles | |
| `CExportsV2`, `CAbiV2` | the same for v2 | |
| `CCallbacks` | the adapters around C callbacks and the bridges to the reference stores | |
| `MCClaimStore`, `MCEvaluation`, `MCProgress`, `MCStatus`, `MCKeys`, `MCDevice`, `MCConstraints`, `MCV1` | instances for TLC | several scenarios each |
| `ClaimStoreProofs`, `ReleaseProofs`, `EvaluationProofs` | theorems about `ClaimStore` and the two modules that extend it | TLAPS |
| `StatusProofs` | theorems about `StatusReducer` with `StatusHistory`, and about `SecurityJournal` | TLAPS |
| `KeysProofs` | theorems about `KeyRotation`, `WitnessLog` and `ChallengeIssuance` | TLAPS |
| `DeviceProofs` | theorems about `OfflineDevice` and `ApprovalLedger` | TLAPS |
| `VerifyV1Proofs`, `ConstraintsProofs` | theorems about `VerifyV1`; about `Audience` and `ConstraintEvaluation` | TLAPS |

Conventions. A store method `m` is two operators: `MResult`, the value it
returns, in the order of the code's early returns, and the action `M`, its
whole effect, the clock reading included. `ok` is the outcome of what the code
cannot decide itself (the anchor accepts the change, an owner token is drawn),
`heard` says whether the caller receives the answer. An operator whose comment
says *faulty variant* is a bug the code does not have; it is used only to show
that a property notices it.

An MC module EXTENDS the components whose properties it checks, with constants
that name everything its scenarios use, and restricts them per scenario by
`INSTANCE ... WITH`; components about which nothing is proved are only
instantiated. A variable `scenario` (`part` in `MCProgress`), fixed at the
start, says which of them moves; the variables of the others keep one idle
value. Where one MC module extends several components, their specifications
have names of their own (`HistorySpec`, `ApprovalSpec`, `IssuanceSpec`, ...).

Data. A claim ID names its replay key; a bundle hash is a pair of the challenge
and a variant; a receipt body is the bundle hash, the result and the three
assessments; a signed receipt is its log position, because the digest of an
entry covers body and predecessor, and any other number stands for a hash that
is not in the log. The owner token is named by the claim it was drawn for: it is
32 random bytes and no two claims share one. Status objects, statements, log
entries and challenges are records of the fields their signatures cover;
whoever holds a key may sign any of them. Integers are unbounded; every sum in
the code is either checked or of values inside the timestamp domain, far below
2^63.

State and code. `claims[id]` is `ClaimRecord` (`state = "absent"` when the map
has no entry), `streams` the map of last sequences with 0 for none, `outbox` the
vector of `OutboxEntry` (`published` is `wire.is_some()`), `rateCommits` the
commit times per counter, and the four switches are the fields of the same
names. In `Release`, `call[k]` holds what the running call has loaded. In
`Evaluation`, `eval[e]` is one call of `verify_proof_bundle_v2`; `inputs` is
what its stages will find, chosen at claim time, which loses nothing because
the findings do not depend on the store. In `SecurityJournal`, `anchored` is
the stored journal, `stage[s]` a status stage with the journal it read. In
`OfflineDevice`, `prim[p]` is one primary with its records and its binding
(`attached`: the anchor holds a component; `hooked`: the store anchors its
changes; `last`: `last_store`), `comp` the component with its records,
`thread[t]` a change between the copy it would restore and the anchor lock,
`setup[p]` the copy that makes `p` or the bind of `p`, one step per lock, and
`told` what callers were told is durable. `overlapped` is history: a store
changed while it was being bound.

## 3. Runs

All bounds are the constants of the `.cfg` files and of the scenarios in the MC
modules. Times are small integers with `MaxTimestamp` inside the range of
`ClockSettings`, so the clock also shows values outside its domain; the clock
is set to any of them in any order (except in `shared`), so every order of two
readings occurs.

| Run | Scenarios | Checks |
|---|---|---|
| `Store` | `contract`: one challenge, two proofs, a claim with a foreign ID, every method, a refusing anchor; `log`: two claims, withheld acknowledgements, frozen logs, all clock orders; `stream`: three challenges, one stream with `MaxSafe` = 2; `rate`: three claims, one counter, limits 1, 2, 2; `race`: one claim, two concurrent releases; `shared`: two claims in one log, one caller of the release, a clock that only runs forward; handoffs of another store in both | `CommitInWindow`, `OneEntryPerTerminalClaim`, `LogInOrder`, `LogTimesForward`, `AbandonedNeverAppended`, `StreamContiguous`, `RateWithinLimit`, `CommittedImmutable`, `ReleaseSound`, `ActedInTime`, `RejectedOnlyOnConflict` |
| `Evaluation` | `outcomes`: one evaluator, every combination of findings; `race`: two evaluators, one worker, a shared rate counter with room for one; `replay`: three presentations of one challenge, one worker | `AllowSound`, `HandoffsMatchStore`, `ReceiptsTellOutcome`, `OneEvaluation` |
| `Progress` | `recovery`, `release`, `feed`, `device`, each under its fairness | `ClaimsEnd`, `EventuallySettled`, `RevocationArrives`, `EventuallyAcknowledged` |
| `Status` | `equivocation`, `pair`, `hedged`, `epochs`: one reducer under hostile histories of dated objects, of two certificates, of bodies signed twice, over two status keys; `race`: two stages and an operator on one journal; `keys`: key assignments that share components; `feed`: a publisher that crashes | `NotRevokedSound`, `HistoryAbsorbed`, `StatusServiceSound`, `ImplementsLedger` |
| `Keys` | `fork`: two verifiers, three statements; `recovery`: a second epoch; `witness`: two readers, entries signed twice; `race`: three issuances with a random source of two values; `bind`: requests and presentations that do and do not agree | `HistorySound`, `ForkedByEquivocation`, `WitnessedHistory`, `IssuanceSound`, `FrozenStaysFrozen` |
| `Device` | `rollback`, `rebind`, `change`, `undo`, `fork`: the device with copies, binds, power loss and concurrent changes; `approve`, `trust`: the approval ledger | `RecordsSound`, `ReadyHasAll`, `ExecutedOnceByTwoRoots` |
| `Constraints` | `calendar`: every day of 1895 to 2105; `civil`: windows over zone transitions; `extensions`: evaluators on threads with timeouts; `kinds`: every kind of constraint; `audience`: memberships as they age | `GrantExact`, `VerdictsSound`, `AudienceExact` |
| `V1` | `race`, `chain`, `stream`: `verify_bundle`; `drafts`: constraints of one certificate; `abi`, `abi2`: every exported C function; `callbacks`: one operation over C callbacks | `SpentOnce`, `AuthorityNarrows`, `StreamInOrder`, `ConstraintsSound`, `AbiSound`, `OnlySignedBurns` |
| `StatusRefork` | `equivocation` | `StateStaysValid`, violated |
| `DeviceUndo` | `undo` | `RefusedChangeUndone`, violated |
| `DeviceBind` | `rebind` | `AnchorCoversRecords`, violated |
| `AbiStaleHandle` | `abi2` | `ReleasedNull`, violated |

Why the bounds are enough. Claims interact only through the log (neighbours),
a stream (turns) and a rate counter (window); two or three claims produce every
neighbour relation, an exhausted stream and a counter with one allow too many.
The lease, horizon and expiry lie strictly inside the clock range, so each is
met before, at and after its boundary. Two release calls are the smallest race
over one record, and all reads of other state by a call are of facts that no
step undoes (proved: `LogImmutable`, `ClaimsImmutable`). A fork, an
equivocation or a hedge needs two objects for one place and a third that builds
on one of them; histories of three or four objects contain each. The journal's
races need a reader, a writer and a second writer whose base is stale: two
stages and an operator. A rollback of the device needs one copy and one entry
it does not know; a bind that misses a change needs one primary, one entry and
the three sections of `bind`. The device is bound and provisioned before
anything else happens; from then on copies and binds start at any time, at most
one of them per primary at once. A chain of two certificates has a leaf, a root and the link
between them. Claim IDs, callers, evaluators and status stages are permuted where a
scenario does not tell them apart; the run with liveness uses no symmetry.

What the properties say, where their names do not:

- `CommitInWindow`: the evaluator's and the recovery worker's windows meet at
  the lease expiry without overlap; an allow is committed strictly before lease,
  horizon and challenge expiry.
- `LogTimesForward`: although the clock does not, time runs forward along the
  log, commits before acknowledgements.
- `RateWithinLimit`: counted from the receipt log, not from the counter.
- `ReleaseSound`: whatever ran between its steps, a released answer agrees with
  the one record, the one log entry, its acknowledgement and the deadlines.
- `RejectedOnlyOnConflict`: an honest caller is rejected only if another call
  recorded a different result; a lost answer leads to no rejection.
- `HandoffsMatchStore`: no race, crash or lost answer hands off a result other
  than the committed one. `Release` relies on it.
- `ReceiptsTellOutcome`: the outcomes of the stages lie inside the table of
  `receipt.rs`, so no decision is lost because its body cannot be built; and a
  lookup that started is never reported as not evaluated, even when its
  evaluator died in it.
- `NotRevokedSound`: "not revoked" rests on a fresh list of this epoch and the
  contiguous pushes after it; together they hold everything ever revoked, and
  the list contradicts nothing heard: no other set at its sequence, no push at
  or below it that it lacks. A late list below the floor is measured against the
  accepted set and not against its own sequence (`SPEC-v2.md` 346), so it
  may hold what a push announced only later; one certificate cannot tell the two
  apart, which is why `pair` has two.
- `HistoryAbsorbed`: "revoked" is answered exactly for what some authentic object
  of the whole history revoked, over compaction, forks and key epochs; and no
  history is a dead end: a fresh list above everything heard that holds every
  revocation makes the status current again.
- `StatusServiceSound`: an answer is never older than the denials of the journal,
  in a stage that raced another, and with a publisher that crashed; an honest
  history never looks like equivocation, and what the writers compute is never
  refused and loads back as it was written.
- `ImplementsLedger`: the journal implements `RevocationLedger`, with the
  revocations of its anchored state as the ledger's.
- `ForkedByEquivocation`, `WitnessedHistory`: two parties that trust different
  histories, or a frozen one, show that somebody signed twice for one place.
- `RecordsSound`: the component's records are one chain, whatever is copied,
  bound or lost in between, and hold what a caller was told is acknowledged.
  Unless a store changed while it was being bound, they also lie in the
  anchored log.
- `ReadyHasAll`: a device that calls itself ready has exactly the claims, log,
  journal and challenges that callers were told are anchored; and, with the same
  condition, everything that was acknowledged. The condition cannot be dropped:
  see `DeviceBind` below.
- `StreamInOrder`: every accepted turn of a v1 stream is the one after the last
  position of the snapshot the call was given, so the accepted turns, of
  concurrent calls too, have no gap and no repetition. `verify.rs` only checks
  against the snapshot and never advances it; the caller's duty is to advance
  with a comparison to that snapshot (`MayAdvance`, external). What a turn adds
  to the position is the presented sequence, which only the verifier examined.
- `SpentOnce`, `OnlySignedBurns`: a v1 challenge is spent at most once, and
  never by a presentation whose signature does not verify.
- `AbiSound`: a spoiled argument, panic, poisoned handle or a callback's
  malformed answer yields no affirmative answer, half-written output or handle.

### Findings

- `StatusRefork`: a list retained as future-dated or as a gap is evaluated again
  later; if it then contradicts evidence heard meanwhile, `mark_fork` runs but
  no fork observation is recorded for the duplicate, and the state fails its own
  validation from then on: the issuer's certificates become unavailable, where
  `SPEC-v2.md` 346 says that a fork goes on denying.
- `DeviceUndo`: the undo of a refused issuance restores a copy taken before the
  anchor lock and drops what another thread made durable in between.
- `DeviceBind`: `bind` reads the digests of the store, attaches the component
  with them and installs the hook that anchors changes under three separate
  locks. An entry appended in between is not anchored and is not in
  `last_store`; `acknowledge` composes `last_store`, finds it equal to the
  anchored digest and has the entry recorded, where its comment says that this
  digest "already covers the append". The primary that is still bound at the old
  state can then anchor another entry at that position, and `startup`, which
  compares only the length and the digest, answers ready for a log without the
  acknowledged entry.
- `AbiStaleHandle`: a release asked of a poisoned committed handle fails before
  its body and leaves the caller's released handle as an earlier call set it,
  where its comment says NULL after every call that does not release.

Smaller disagreements met while modelling, modelled as the code behaves:
`ratify_session_token_issue` answers a NULL session identifier with an encoding
error while the header comment of `sdks/c/src/advanced.rs` names the null
pointer; some v1 exports report a NULL output without an error message;
`ratify_scopes_validate` returns NULL both for "valid" and on a panic;
`ref_store_new` uses the verifier key's handle without looking at its poison
flag; several v2 exports look at a NULL late output only after the state has
changed (accepting a rotation, claiming a bundle, publishing, ledger record and
execution, abandonment); `ref_device_restore` leaves the device unbound when
binding it again fails.

Two details are left out because nothing here depends on them: `CExportsV2`
has no refusal of an output string with a NUL byte (`write_string` in
`sdks/c/src/v2/mod.rs`; the strings written after a change of state hold none);
`KeyRotation` has one time per statement for `not_before` and `issued_at` and no
domain check of `now` and the skew.

### Fairness

Only `Progress` states liveness. Its parts run in separate behaviours, so
fairness of a disjunction with one action of each part is fairness of each.

- `release`: the publisher keeps calling `publish_v2_receipt`, submission to the
  checkpoint is resumed again and again, a started call goes on (weak fairness);
  a caller keeps retrying each claim (strong fairness, because a single caller
  alternates between claims). These are the duties the specification gives to
  the operator of a store (publication and release are retried until they are
  settled), not to the code, which makes no progress of its own. The part
  excludes faults that are permanent by design: a frozen log, a forked
  checkpoint, a clock that never recovers.
- `recovery`: time passes, workers run and resumption is called (weak fairness;
  strong for the load of one claim because a worker serves several). Evaluators
  have no fairness at all: they may stop anywhere, and the answer to any commit,
  of an evaluator or a worker, may be lost.
- `feed`: the publisher goes on storing and sending what it signed (weak
  fairness); the newest objects are received infinitely often unless receiving
  them changes nothing. The channel may reorder and repeat without bound.
- `device`: startup scans and commits go on (weak fairness) and submissions are
  retried (strong: power losses, of which there are finitely many, disable them).
  Nobody binds the device again (`Bindable` is empty): after a bind that missed a
  change `last_store` differs from the anchored state until the next anchored
  change, and every submission answers `state_mismatch`.

Deadlock is checked in `Store`, `Evaluation` and `Status`. The others
may stop: in `Progress` when everything is settled, in `Keys`, `Device` and `V1`
at a bound (statements, faults, claims), in `Constraints` at the last day,
second or verdict.

## 4. Proofs

The theorems hold for every value of the constants that satisfies the named
assumptions of the modules, for any number of claims, callers, verifiers,
readers, stages and devices, and for every behaviour of the specification.
`PROJECT.json` lists them with what they establish.

| Module | Theorems (property of a run in italics) |
|---|---|
| `ClaimStoreProofs` | `TypeCorrect`, `StoreInvariant`, `LogMatchesClaims` (*OneEntryPerTerminalClaim*), `LogOrdered` (*LogInOrder*), `AbandonmentFinal` (*AbandonedNeverAppended*), `ClaimsImmutable` (*CommittedImmutable*), `CommitWindow` (*CommitInWindow*), `LogTimes` (*LogTimesForward*), `StreamsContiguous` (*StreamContiguous*), `RateLimited` (*RateWithinLimit*), `LogImmutable` |
| `ReleaseProofs` | `ReleaseInvariant`, `ReleasesSound` (*ReleaseSound*), `ActionsInTime` (*ActedInTime*), `RejectionsJustified` (*RejectedOnlyOnConflict*) |
| `EvaluationProofs` | `EvaluationInvariant`, `CallersOfTheStore`, `AllowsSound` (*AllowSound*), `HandoffsOfTheStore` (*HandoffsMatchStore*), `EvaluatedOnce` (*OneEvaluation*), `ReceiptsComplete` (*ReceiptsTellOutcome*) |
| `StatusProofs` | `HistoryHolds` (*HistoryAbsorbed*), `NotRevokedHolds` (*NotRevokedSound*), `AnchoredValid`, `JournalImplementsLedger` (*ImplementsLedger*), `PublisherKeyHolds`, `AnswersHold` |
| `KeysProofs` | `RotationTypeCorrect`, `HistoryHolds` (*HistorySound*), `ForksHold` (*ForkedByEquivocation*), `FrozenHolds`, `WitnessedHistoryHolds` (*WitnessedHistory*), `FrozenLogHolds`, `IssuanceHolds` (*IssuanceSound*) |
| `DeviceProofs` | `DeviceInvariant`, `RecordsHold` (*RecordsSound*), `ReadyHolds` (*ReadyHasAll*), `ApprovalHolds` (*ExecutedOnceByTwoRoots*) |
| `VerifyV1Proofs` | `SpentHolds` (*SpentOnce*), `StreamHolds` (*StreamInOrder*), `AuthorityHolds` (*AuthorityNarrows*), `BurnsHold` (*OnlySignedBurns*) |
| `ConstraintsProofs` | `AudienceHolds` (*AudienceExact*), `VerdictsHold` (*VerdictsSound*) |

`FrozenHolds` and `FrozenLogHolds` are the two halves of *FrozenStaysFrozen*.

### Assumptions

`StoreAssumption` types the constants and states two facts of the code: a bundle
hash covers the challenge it answers, and a rate batch has one limit per counter
(`rate_reservation.rs` merges duplicates). `ForeignAssumption` only types the
handoffs that did not come from this store. `EvaluationAssumption` types the
findings and says that what evaluators ask of the store is among what arbitrary
callers ask of it. The assumptions of the other modules type their constants, and some
of them state a fact of the code besides:

- `HistoryAssumption` (`StatusHistory`): a signed object is well formed, with a
  positive sequence (`validate_revocation_list_v2`, `validate_revocation_push_v2`
  in `wire.rs`), and the first epoch has a key.
- `ChecksAssumption` (`SecurityJournal`): the certificate references of a proof
  name its issuers, since they are taken from its certificates.
- `PolicyAssumption` (`ChallengeIssuance`): the context policy is one its
  constructor accepts, and a policy that binds is configured.
- `AudienceAssumption` (`Audience`): the stage runs only with an audience
  constraint; `BoundsAssumption` (`ConstraintEvaluation`): a claim was made inside
  the timestamp domain, and the bound on elapsed time exceeds every timeout;
  `EvaluatorAssumption` (`VerifyV1`): an extension evaluator answers in the type
  the crate gives it.

`RegistryAssumption`, `TimeAssumption`, `LimitsAssumption`, `TimesAssumption`,
`PresentationAssumption` and `InputAssumption` say that sequences are sequences
and that times, ages and counts are numbers. TLC evaluates each of them in the run of its component.

### The store

`TypeOK` is inductive by itself: what is persisted is a reading (`GoodReading`),
a sequence that `check_v2_stream_sequence` accepted, or a payload that was
validated. The log invariants are not inductive alone. That an entry appended
by the publisher belongs to its claim needs the correspondence of claims and
positions; that abandonment marks only terminal claims needs that every entry
belongs to a terminal claim; that nothing abandoned is appended needs the frozen
log. `StoreInv` is their conjunction with `ReleasedTerminal` (only a terminal
claim has a release record), which `CommittedImmutable` needs so that a new
claim replaces no record. Each method has one lemma for types, one for the
invariant and, where it writes claims, one for immutability.

The theorems on the store's history start from there. Because committed facts never change
(`NextKeepsClaims`), each further invariant has to be examined only at the step
that can break it.

- *CommitInWindow*: only a commit can leave the window. `finalize_v2_claim` and
  `recover_interrupted_v2_claim` check complementary sides of the lease
  (`FinalizeInWindow`, `RecoverInWindow`); recovery is not before the claim
  because a lease follows its claim (`LeaseFollowsClaim`).
- *LogTimesForward*: `Stamped` relates each stamp to the clock's high-water
  mark, which never moves back (`MarkForward`), so that a new stamp is at least
  every earlier one; acknowledgements in order come from `LogInOrder`.
- *StreamContiguous*: the members of a stream are finite, carry the sequences up
  to the stored last one, and one claim is accepted with each move of the stream.
- *RateWithinLimit* is about the log, while the code counts commits of a
  counter. The invariant says that for each counter there is an injection of the
  allows that drew on it into its commits, to a commit at the time of the allow
  (`Stampings`). So the allows inside a window are no more than the commits the
  counter shows active in it (`ActiveBound`), and the new one was admitted while
  those were below the limit. An earlier allow is counted with earlier log
  positions only, so that later commits do not touch its count.
- `LogAppendOnly`, an action property no run repeats: entries keep claim, body,
  publication and acknowledgement. What callers read of a receipt stays true.

### The callers of the store

`ReleaseProofs` proves first that every step of a caller is a step of the store
(or leaves it alone), so every theorem above holds under concurrent releases.
`CallOk` then says, for each program counter, what a call knows: that a claim is
terminal with this result, that a receipt is appended, that an acknowledgement
was read at this time, that this record is stored. It is phrased only in facts
that no step of anybody undoes (`ClaimKept`, `LogExtends`), so a step of another
call or of the environment keeps it without a case distinction, and a step of
the call itself establishes it for the next program counter. `ReleasesTrue`, the
same for records, gives *ReleaseSound*; *ActedInTime* needs the window of the
record's claim besides.

`EvaluationProofs` does the same for evaluators, workers and resumption
(`CallersOfTheStore` is the implication between the specifications). The
invariant relates each place of an evaluator to the progress its claim's record
holds, `Recorded`; that it is stable needs that nobody else evaluates the claim
(the owner token) and that recovery waits for the lease: once the clock's mark
has reached the lease, an evaluator can no longer record, so what the worker
loaded stays the progress of the claim (`LeaseOver`). *ReceiptsTellOutcome*
adds the pure lemmas about the stages: whatever the findings, the outcome is a
row of the receipt table (`ReceiptFits`), an allow is reached only through
passed stages (`AuthorizedPassed`), and its horizon is at most each bound
(`HorizonLeast`).

### The other components

- Status reducer: below, in a section of its own.
- Journal: every change of the anchored state passes `CommitBlocked`, which
  refuses an invalid transition, whatever stale state the change was computed
  from. So validity needs no assumption about the callers, and each commit maps
  to a step of `RevocationLedger` or to a stutter.
- Key rotation: the chain and the absence of repeated keys become inductive with
  `UsedIsTrusted`. For *ForkedByEquivocation* each accepted entry is `Backed` by
  a statement with both signatures; at the least position where two chains
  differ, both statements continue the same digest with the same key.
- Witness log: everything a reader holds was signed (`HeldSigned`), and a digest
  determines what comes before it.
- Challenge issuance: `CallsSound` follows a call through its attempts, from the
  value it drew to the record it reads back; `RecordsSound` says that a stored
  record was made of a valid request and that no two calls hold one value, which
  is what a colliding random source endangers; `AdmittedSound` says that
  whatever was admitted has such a record, and what the preflight checked of it.
- Device: what the component anchored is the one thing no copy can alter, so
  `ToldIsAnchored` holds whoever binds, and a primary that startup finds ready
  has the anchored state. That the records are one chain needs no care of the
  callers either: `commit_at` compares the hash of the previous entry. That they
  lie in the anchored log needs that what a binding remembers, or has read and
  will remember, is what the store holds (`StoreRemembered`), which a change
  during a bind breaks; `overlapped` records that and is the condition of the
  theorems, in place of an assumption that binds are not disturbed.
  `SetupInOrder` orders the steps of a bind; `SubmitsItsLog` bounds a submission
  by the log it submits.
- Approval ledger: what fills a slot was released, allows this action for the
  root of the slot and is recorded under its claim and its set (`SlotsSound`);
  so it fills no other slot (`SlotsApart`), and an executed set, which never
  changes again, had both slots filled in time (`ExecutionsSound`).
- Protocol v1: `CallsSound` says what the certificates below a call's cursor have
  passed (linked, delegated, not revoked when the call began, scope inside every
  scope so far); `TokensSound` says the same of the chain behind a session token,
  which outlives the call; `StoreSound` and `SpentOnce` say that an issued
  challenge is pending in one record or spent once, never both. For a stream,
  a call that the verifier accepts presents the turn after the position of its
  own snapshot (`NextPosition`), whatever ran meanwhile; the position is the
  number of turns accepted.
- Audience: an assessment depends on the time only through two comparisons per
  membership, so a link that passed passes until the least of their bounds and at
  none after it; that least bound exists because the order on numbers is well
  founded. The invariant says that the kept assessment is that of its own time.
- Constraint evaluation: every call of an extension evaluator has its own thread
  and its own place in the channel (`Calls`); what the loop takes for constraint
  `i` was sent for `i` before its deadline (`Taken`), although late answers of
  earlier calls are still in flight; and each verdict below the cursor is judged
  by that answer (`Judged`). Precedence and the strictest limits then hold of
  the verdicts by pure reasoning.

### The status reducer

`HistoryInv` relates the retained state of one issuer to the set `heard` of the
objects of its epoch. It is the conjunction of

- `Consistent`: every observation is `Known`, that is, of an object heard, with
  no revocation that object lacks; `max_observed` and `deny_union` cover all that
  was heard; a floor rests on a list among it;
- `Observed`: every list heard still has an observation with its set, which is
  what lets the reducer see a contradiction after compaction;
- `Covered`: every accepted revocation is in evidence that compaction must keep
  (`Firm`: the accepted base and the accepted pushes after it);
- `Settled`: unless reconciliation is wanted, everything heard is in the accepted
  set and the snapshot contradicts none of it;
- the denials are exactly what any epoch revoked, and the highest sequence was
  heard.

None of the run's properties is inductive without all of these. Compaction is
the hard step: it sorts, merges and thins the evidence. `CompactedKeeps` says that
each observation has one left that `StandsFor` it, of the same content and, if
the accepted set rests on it, with its revocations. The sort and the merge are
recursive functions over the observations. The lemmas `Recursion` and `Induct`
obtain, by well-founded choice of a least counterexample, that such a function
equals its defining equation and stays in its type, so no induction theorem with
an operator parameter is needed. Each way of deciding an object (ignored,
forked, gapped, stale, below the floor, accepted) then has its lemma, and
`ApplyGood` joins them: whatever is applied, at whatever time, the state is sound
for the history with it. An epoch transition keeps the denials and starts a new
history.

*HistoryAbsorbed* follows: "revoked" because `deny_union` is exactly what was
revoked, and recovery because nothing can fork with a list above everything heard
(`AcceptedAbove`). *NotRevokedSound* uses `Settled` for the absence of a
contradiction and the validation that precedes every answer
(`ValidAcceptedState`) for the contiguity of the pushes. That the states pass
this validation is not part of the theorem and cannot be: the run `StatusRefork`
shows one that does not. The theorems hold all the same, since a state that
fails its validation answers `unavailable`.

`AnswersHold` is about the stages that race on the journal. The gate of
`commit_security_record` lets denials only grow (`TransitionDenies`), so what was
denied when a stage began stays denied in the anchored record, in the record the
stage works on, reloads included, and in the record a successful commit returns;
a certificate in `deny_union` is never answered `not_revoked`. It assumes that
loads return the anchored record (*LoadsBack*), which TLC checks on every record
the run reaches.

### What is only model-checked, and why

- Liveness: fairness and ENABLED are out of the prover's reach.
- *StatusServiceSound*: that the records the writers compute are never refused and
  load back as written rests on the canonical order of a journal's entries and on
  a fold over a batch in that order; its parts `PublisherKeyAccepted` and
  `ImplementsLedger` are proved, and `AnswersNotStale` from *LoadsBack*.
- *GrantExact*, *ConstraintsSound*: pure algorithms (the calendar, time-zone
  transitions, drafts of constraints) compared with a reference definition that
  counts; each is an induction over data.
- *AbiSound*: a statement about finitely many exported functions, which the run
  enumerates; there is nothing to generalise.

## 5. Not modelled

- Signatures, wire formats and hashes are perfect: an object is bound to the key
  that signed it, a digest determines what it covers, `receipt_invalid` and a
  malformed body never occur.
- Paths of the evaluator that interrupt itself (an inconsistent claim time or
  sealed state) need a store other than the reference store and are left out.
- The status stage, the audience provider and the provisional rate store are one
  finding each in `Evaluation`; the modules of section 2 say how the status and
  audience findings come about.
- Transactions and archival verification: stateless verification of stored
  artefacts.
- Test support: `clone_store`, `plant_release_test_only`, loading a device from
  test vectors.
- A store that restarts on its own: the reference store keeps its state in
  memory; its persistence is the device's, modelled in `OfflineDevice`.
- Migration of an older journal snapshot and the form of a snapshot shared with
  the Go SDK; the encoding of checkpoint acknowledgements; the parser of
  time-zone data (a zone is its transitions and its rule); the geometry of
  circles and polygons in v1.
- The field-by-field JSON of `sdks/c/src/v2/marshal.rs`, the UniFFI wrappers, the
  SDKs in other languages, the command line, demos and vectors.

## 6. Plan

1. `RevocationsAbsorbed` and `NeverRefused` of the journal: `ApplyGood` says what
   one object does to a state; what is missing is the same along a batch, and
   that every state a journal holds is sound for what its writers applied.
2. `FrozenStaysFrozen` as one theorem instead of its two halves.
3. Refinement: an abstract decision (absent, evaluating, committed, released)
   with `ClaimStore` and `Release` shown to implement it.
