-------------------------- MODULE ChallengeIssuance --------------------------
(***************************************************************************)
(* Issuing challenges (sdks/rust/src/v2/challenge_issuance.rs) into the    *)
(* reference issuance store (reference/challenges.rs), and a verifier that *)
(* loads the record of a presented challenge and runs the preflight on it. *)
(*                                                                         *)
(* An issuer is one call of issue_challenge_v2: it validates the request,  *)
(* reads the clock, draws 32 bytes, persists the record and only then      *)
(* returns it.  The random source may repeat its bytes or fail; the store  *)
(* may fail before or after its write; a call may end, crashed, anywhere.  *)
(* Presenters use the bytes that some issuer returned, with any bindings.  *)
(***************************************************************************)
EXTENDS Preflight, FiniteSets

CONSTANTS Issuers,        \* calls of issue_challenge_v2
          Values,         \* what the random source can produce
          Requests,       \* issue requests
          Proofs,         \* presentations, without the challenge they name
          Policy,         \* the verifier's context policy
          MaxClock,       \* bound of the clock
          MaxEpoch        \* bound of the replay epoch

(* V2ContextPolicy::new made it; without a policy nothing is bound.        *)
ASSUME PolicyAssumption == /\ PolicyAccepted(Policy.bound, {"field"}, Policy.session)
                           /\ Policy.bound => Policy.configured

MaxAttempts == 3          \* MAX_V2_ISSUANCE_ATTEMPTS

VARIABLES records,        \* the durable issuance records
          fault,          \* what the next write of the store meets
          issuer,         \* the progress of each call
          exposed,        \* the records returned by issue_challenge_v2, by call
          clock,          \* the authoritative clock
          cfg,            \* the verifier's configuration
          admitted        \* the latest presentation that passed the preflight

issuanceVars == <<records, fault, issuer, exposed, clock, cfg, admitted>>

NoRecord == [value |-> None]
Idle == [pc |-> "idle", req |-> NoRecord, issuedAt |-> 0, attempts |-> 0, record |-> NoRecord]
Failed == [Idle EXCEPT !.pc = "failed"]

(* issuance_key: the key of a record, and of a claim.                      *)
Key(r) == [ns |-> r.ns, epoch |-> r.epoch, value |-> r.value]
Stored(k) == {r \in records : Key(r) = k}

(* validate_v2_challenge_issue_request.                                    *)
ValidRequest(q) ==
  /\ q.ns # None /\ q.epoch \in 0..MaxSafe /\ q.verifier # None
  /\ q.lifetime \in 1..MaxLifetime
  /\ (q.agent = None) = (q.key = None)
  /\ q.key # None => q.key = q.agent
  /\ q.session # "short"

RecordOf(q, issuedAt, v) ==
  [value |-> v, issuedAt |-> issuedAt, expiresAt |-> issuedAt + q.lifetime,
   ns |-> q.ns, epoch |-> q.epoch, verifier |-> q.verifier, agent |-> q.agent,
   key |-> q.key, receiver |-> q.receiver, session |-> q.session]

IssuanceInit ==
  /\ records = {}
  /\ fault = "ok"
  /\ issuer = [i \in Issuers |-> Idle]
  /\ exposed = [i \in Issuers |-> {}]
  /\ clock = 0
  /\ cfg \in [ns : {"n"}, epoch : {0}, verifier : {"v"}, maxAge : {MaxLifetime}, skew : {0},
             scope : {"act"}]
  /\ admitted = {}

-----------------------------------------------------------------------------
(* issue_challenge_v2.                                                     *)

(* The request is refused, the clock is unavailable, or the expiry leaves  *)
(* the timestamp domain: no challenge.                                     *)
Begin(i, q, clockOk) ==
  /\ issuer[i].pc = "idle"
  /\ issuer' = [issuer EXCEPT ![i] =
       IF ValidRequest(q) /\ clockOk /\ ValidTimestamp(clock + q.lifetime)
       THEN [issuer[i] EXCEPT !.pc = "draw", !.req = q, !.issuedAt = clock]
       ELSE Failed]
  /\ UNCHANGED <<records, fault, exposed, clock, cfg, admitted>>

(* fill_random.                                                            *)
Draw(i, v, ok) ==
  /\ issuer[i].pc = "draw"
  /\ issuer' = [issuer EXCEPT ![i] =
       IF ok THEN [issuer[i] EXCEPT !.pc = "persist",
                                    !.record = RecordOf(issuer[i].req, issuer[i].issuedAt, v)]
       ELSE Failed]
  /\ UNCHANGED <<records, fault, exposed, clock, cfg, admitted>>

(* persist_v2_challenge.                                                   *)
PersistResult(r) ==
  IF fault = "before" THEN "unavailable"
  ELSE IF Stored(Key(r)) # {} THEN "conflict"
  ELSE IF fault = "after" THEN "unavailable" ELSE "ok"

Written(r) ==
  IF fault = "before" \/ Stored(Key(r)) # {} THEN records ELSE records \cup {r}

(* Faulty variant: a failed write still returns the challenge.             *)
AfterPersistUnchecked(i) ==
  LET res == PersistResult(issuer[i].record)
  IN  [issuer[i] EXCEPT !.pc = IF res = "conflict" THEN "draw" ELSE "issued"]

AfterPersist(i) ==
  LET res == PersistResult(issuer[i].record)
      last == issuer[i].attempts + 1 = MaxAttempts
  IN  IF res = "ok" THEN [Idle EXCEPT !.pc = "issued"]
      ELSE IF res = "conflict" /\ ~last THEN [issuer[i] EXCEPT !.attempts = @ + 1, !.pc = "draw"]
      ELSE Failed

Persist(i) ==
  /\ issuer[i].pc = "persist"
  /\ records' = Written(issuer[i].record)
  /\ issuer' = [issuer EXCEPT ![i] = AfterPersist(i)]
  /\ exposed' = [exposed EXCEPT ![i] =
       IF AfterPersist(i).pc = "issued" THEN @ \cup {issuer[i].record} ELSE @]
  /\ fault' = "ok"
  /\ UNCHANGED <<clock, cfg, admitted>>

(* The caller's process ends.                                              *)
Crash(i) ==
  /\ issuer[i].pc \in {"draw", "persist"}
  /\ issuer' = [issuer EXCEPT ![i] = Failed]
  /\ UNCHANGED <<records, fault, exposed, clock, cfg, admitted>>

(* fail_next_persist.                                                      *)
Fail(f) ==
  /\ fault = "ok" /\ fault' = f
  /\ UNCHANGED <<records, issuer, exposed, clock, cfg, admitted>>

-----------------------------------------------------------------------------
(* The verifier.                                                           *)

Exposed == UNION {exposed[i] : i \in DOMAIN exposed}

(* load_expected_challenge_v2: the record of exactly these bytes, under    *)
(* the configured namespace and epoch.                                     *)
LoadExpected(v) ==
  {r \in Stored([ns |-> cfg.ns, epoch |-> cfg.epoch, value |-> v]) :
     r.value = v /\ r.ns = cfg.ns /\ r.epoch = cfg.epoch}

(* Load and preflight; a receiver-binding hook that rejects ends it too.   *)
Present(p, r) ==
  LET proof == [p EXCEPT !.value = r.value, !.at = r.issuedAt]
  IN  \E expected \in LoadExpected(r.value) :
        /\ PreflightResult(proof, expected, Policy, cfg, clock) = "ok"
        /\ admitted' = {[proof |-> proof, epoch |-> cfg.epoch, at |-> clock]}
        /\ UNCHANGED <<records, fault, issuer, exposed, clock, cfg>>

(* An operator moves to a new replay epoch.                                *)
AdvanceEpoch ==
  /\ cfg.epoch < MaxEpoch
  /\ cfg' = [cfg EXCEPT !.epoch = @ + 1]
  /\ UNCHANGED <<records, fault, issuer, exposed, clock, admitted>>

ClockTick ==
  /\ clock < MaxClock /\ clock' = clock + 1
  /\ UNCHANGED <<records, fault, issuer, exposed, cfg, admitted>>

-----------------------------------------------------------------------------
IssueStep(i) ==
  \/ \E q \in Requests, ok \in BOOLEAN : Begin(i, q, ok)
  \/ \E v \in Values, ok \in BOOLEAN : Draw(i, v, ok)
  \/ Persist(i)

IssuanceNext ==
  \/ \E i \in Issuers : IssueStep(i) \/ Crash(i)
  \/ \E f \in {"before", "after"} : Fail(f)
  \/ \E p \in Proofs, r \in Exposed : Present(p, r)
  \/ AdvanceEpoch
  \/ ClockTick

IssuanceSpec == IssuanceInit /\ [][IssuanceNext]_issuanceVars

-----------------------------------------------------------------------------
RecordType == [value : Values, issuedAt : Nat, expiresAt : Nat, ns : STRING, epoch : Nat,
               verifier : STRING, agent : STRING, key : STRING, receiver : STRING, session : STRING]

IssuanceTypeOK ==
  /\ records \subseteq RecordType
  /\ fault \in {"ok", "before", "after"}
  /\ \A i \in Issuers : /\ issuer[i].pc \in {"idle", "draw", "persist", "issued", "failed"}
                        /\ issuer[i].attempts \in 0..(MaxAttempts - 1)
                        /\ issuer[i].record \in RecordType \cup {NoRecord}
                        /\ exposed[i] \subseteq RecordType
  /\ clock \in 0..MaxClock /\ cfg.epoch \in 0..MaxEpoch

(* A challenge the caller holds has its complete record, as returned, in   *)
(* the store, whatever the random source repeated and whichever write      *)
(* failed: issue_challenge_v2 returns only after a durable insert.         *)
ExposedIsDurable == \A r \in Exposed : Stored(Key(r)) = {r}

(* No two calls hand out one challenge, even when the random source gives  *)
(* both the same bytes: the second one meets the conflict of the store and *)
(* never the record of the first.                                          *)
ExposedOnce ==
  \A i, j \in DOMAIN exposed : i # j =>
    \A r \in exposed[i], s \in exposed[j] : Key(r) # Key(s)

(* A presentation is admitted only for a challenge that an issuer stored   *)
(* for this verifier and epoch, with the agent, the session and the exact  *)
(* receiver the request named, and within the requested lifetime of the    *)
(* moment of issuance: what was asked at issuance holds at admission,      *)
(* whatever other calls, failures and epochs came between.                 *)
AdmittedAsRequested ==
  \A a \in admitted : \E r \in records :
    /\ r.value = a.proof.value /\ r.issuedAt = a.proof.at /\ r.epoch = a.epoch
    /\ r.ns = cfg.ns /\ r.verifier = a.proof.verifier
    /\ a.at >= r.issuedAt /\ a.at - r.issuedAt < MaxLifetime /\ a.at < r.expiresAt
    /\ \E q \in Requests : ValidRequest(q) /\ r = RecordOf(q, r.issuedAt, r.value)
    /\ r.agent # None => a.proof.agent = r.agent
    /\ r.session # None => a.proof.session = r.session
    /\ r.receiver = None => a.proof.audience = {}
    /\ \A c \in a.proof.audience : c.domains # {} \/ r.receiver \in c.exact

(* When the issuer bound the challenge to a session context, a presentation *)
(* that reaches the claim is assessed "bound" under the verifier's policy: *)
(* preflight refuses every disagreement between issuance, policy and proof *)
(* before a challenge is spent on it.                                      *)
ContextSettledBeforeClaim ==
  Policy.bound =>
    \A a \in admitted : \A r \in records :
      (r.value = a.proof.value /\ r.epoch = a.epoch /\ r.ns = cfg.ns /\ r.session # None)
        => ContextAssessment(a.proof, Policy) = "bound"

(* A challenge a caller holds is in the store as it was returned and no    *)
(* other call holds it; what was asked at issuance holds at admission, and *)
(* the context of a presentation is settled before its challenge is        *)
(* claimed.                                                                *)
IssuanceSound ==
  ExposedIsDurable /\ ExposedOnce /\ AdmittedAsRequested /\ ContextSettledBeforeClaim
=============================================================================
