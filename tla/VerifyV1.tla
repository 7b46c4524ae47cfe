------------------------------ MODULE VerifyV1 ------------------------------
(***************************************************************************)
(* Protocol v1 verification (sdks/rust/src/verify.rs) against the          *)
(* in-memory challenge store (challenge_store.rs), with session tokens     *)
(* (crypto.rs) and streamed turns.                                         *)
(*                                                                         *)
(* A caller makes one call of verify_bundle or of                          *)
(* verify_streamed_turn_with_options at a time.  The store is read, and    *)
(* later changed, by separate steps of a call; revocation is looked up     *)
(* certificate by certificate; the clock is read once, when the call       *)
(* begins; the stream position is a snapshot the caller takes then.  After *)
(* a valid streamed answer the caller advances the position to that of the *)
(* turn, if it still is the snapshot the turn was verified against.        *)
(*                                                                         *)
(* A presentation is [chain, challenge, at, session, stream, seq, signed,  *)
(* agent]; a chain is a sequence of certificates, the agent's first:       *)
(* [id, issuer, subject, scope, from, until, signed, version,              *)
(* constraints].  An issuer or subject stands for the identifier and the   *)
(* key.  Options are [session, store, stream, required, revocation, force, *)
(* cached, policy, ctx]; "short" is a context or a stream identifier that  *)
(* is not 32 bytes long.                                                   *)
(***************************************************************************)
EXTENDS ConstraintsV1, FiniteSetsExt

CONSTANTS Callers,         \* concurrent verification calls
          Presentations,   \* proof bundles and streamed turns
          Options,         \* verifier options
          Sessions,        \* session contexts challenges are issued for
          MaxChallenges,   \* bound of the challenges issued
          Capacity,        \* max_size of the store
          Ttl,             \* lifetime of a challenge
          Window,          \* CHALLENGE_WINDOW_SECONDS
          TokenLife,       \* lifetime of a session token
          Revocable,       \* certificates that may be revoked
          MaxTokens,       \* bound of the session tokens issued
          MaxDepth,        \* MAX_DELEGATION_CHAIN_DEPTH
          MaxTime          \* bound of the clock

(* Lifetimes are numbers of seconds, a chain is a finite list and a stream *)
(* position an integer.                                                    *)
ASSUME TimesAssumption == {Ttl, TokenLife} \subseteq Nat
ASSUME PresentationAssumption ==
  \A p \in Presentations : /\ Len(p.chain) \in Nat /\ DOMAIN p.chain = 1..Len(p.chain)
                           /\ p.seq \in Int

(* An extension evaluator answers as an evaluator of this crate does.      *)
ConstraintAnswers == {"ok", "constraint_denied", "constraint_unverifiable", "constraint_unknown"}
ASSUME EvaluatorAssumption ==
  \A o \in Options : \A k \in DOMAIN o.ctx.evaluators : o.ctx.evaluators[k] \in ConstraintAnswers

VARIABLES records,         \* pending challenges: [value, session, expires]
          issued,          \* challenges handed out so far
          revoked,         \* revoked certificates
          call,            \* the call of each caller
          tokens,          \* session tokens issued
          lastSeen,        \* the stream position the callers share
          advanced,        \* positions the callers advanced to, in order
          spent,           \* challenges consumed, in order
          now

storeVars == <<records, issued>>
vars == <<records, issued, revoked, call, tokens, lastSeen, advanced, spent, now>>

NoCall == [pc |-> "idle"]

-----------------------------------------------------------------------------
(* MemoryChallengeStore.                                                   *)

(* expire, which every operation runs first, with its caller's time.       *)
Unexpired(rs, t) == {r \in rs : r.expires >= t}

Found(challenge, session, t) ==
  {r \in Unexpired(records, t) : r.value = challenge /\ r.session = session}

Full == Cardinality(Unexpired(records, now)) >= Capacity

(* issue.                                                                  *)
IssueChallenge(session) ==
  /\ issued < MaxChallenges
  /\ ~Full
  /\ issued' = issued + 1
  /\ records' = Unexpired(records, now) \cup
                  {[value |-> issued + 1, session |-> session, expires |-> now + Ttl]}
  /\ UNCHANGED <<revoked, call, tokens, lastSeen, advanced, spent, now>>

-----------------------------------------------------------------------------
(* The checks of a call.                                                   *)

SessionFailure(p, o) ==
  IF p.session = "short" \/ o.session = "short" THEN "invalid_session_context"
  ELSE IF o.session # None /\ p.session = None THEN "missing_session_context"
  ELSE IF o.session # None /\ p.session # o.session THEN "session_context_mismatch"
  ELSE IF o.session = None /\ p.session # None THEN "session_context_unverifiable" ELSE "ok"

(* Faulty variant: a position may be skipped.                              *)
StreamFailureSkips(p, o, last) ==
  IF p.stream = None THEN "missing_stream_context"
  ELSE IF p.stream # o.stream THEN "stream_id_mismatch"
  ELSE IF p.seq <= last THEN "stream_seq_replay" ELSE "ok"

StreamFailure(p, o, last) ==
  IF p.stream = "short" THEN "invalid_stream_id"
  ELSE IF p.stream = None /\ p.seq # 0 THEN "invalid_stream_seq"
  ELSE IF p.stream # None /\ p.seq < 1 THEN "invalid_stream_seq"
  ELSE IF o.stream = None THEN IF p.stream # None THEN "stream_context_unverifiable" ELSE "ok"
  ELSE IF o.stream = "short" THEN "invalid_stream_id"
  ELSE IF p.stream = None THEN "missing_stream_context"
  ELSE IF p.stream # o.stream THEN "stream_id_mismatch"
  ELSE IF p.seq <= last THEN "stream_seq_replay"
  ELSE IF p.seq # last + 1 THEN "stream_seq_skip" ELSE "ok"

(* Structure, session, the store's validate, stream and agent key, in the  *)
(* order of verify_bundle_inner.                                           *)
BundleFailure(p, o, t) ==
  IF Len(p.chain) = 0 THEN "no_delegations"
  ELSE IF Len(p.chain) > MaxDepth THEN "chain_too_deep"
  ELSE IF p.challenge = 0 THEN "no_challenge"
  ELSE IF p.oversized THEN "invalid"
  ELSE IF SessionFailure(p, o) # "ok" THEN SessionFailure(p, o)
  ELSE IF o.store /\ Found(p.challenge, o.session, t) = {} THEN "unknown_challenge"
  ELSE IF StreamFailure(p, o, lastSeen) # "ok" THEN StreamFailure(p, o, lastSeen)
  ELSE IF p.agent # p.chain[1].subject THEN "key_mismatch"
  ELSE IF o.force /\ o.revocation = None THEN "force_revocation_no_callback" ELSE "ok"

(* verify_session_token_e, and the checks of a streamed turn in its order: *)
(* the token is authenticated before the store is asked.                   *)
TurnFailure(p, token, o, t) ==
  IF ~(token.from <= t /\ t <= token.until) THEN "session_token_invalid"
  ELSE IF p.challenge = 0 THEN "no_challenge"
  ELSE IF SessionFailure(p, o) # "ok" THEN SessionFailure(p, o)
  ELSE IF o.store /\ Found(p.challenge, o.session, t) = {} THEN "unknown_challenge"
  ELSE StreamFailure(p, o, lastSeen)

(* The deprecated verify_streamed_turn: no verifier-side expectations and  *)
(* no store.                                                               *)
LegacyFailure(p, token, t) ==
  IF ~(token.from <= t /\ t <= token.until) THEN "session_token_invalid"
  ELSE IF p.challenge = 0 THEN "no_challenge"
  ELSE IF p.session = "short" THEN "invalid_session_context"
  ELSE IF p.stream = "short" THEN "invalid_stream_id"
  ELSE IF p.stream # None /\ p.seq < 1 THEN "invalid_stream_seq"
  ELSE IF t - p.at \notin 0..Window THEN "stale_challenge"
  ELSE IF ~p.signed THEN "bad_challenge_sig" ELSE "ok"

(* One certificate of the chain, in the order of the loop.                 *)
CertFailure(chain, i, o, t) ==
  LET c == chain[i]
  IN  IF c.version # 1 THEN "version_mismatch"
      ELSE IF ~ValidScopes(c.scope) THEN "invalid_scope"
      ELSE IF t > c.until THEN "expired"
      ELSE IF t < c.from THEN "not_yet_valid"
      ELSE IF o.revocation = "failing" THEN "revocation_error"
      ELSE IF o.revocation = "provider" /\ c.id \in revoked THEN "revoked"
      ELSE IF ~c.signed THEN "bad_signature"
      ELSE IF ~o.store /\ EvaluateConstraints(c.constraints, o.ctx) # "ok"
           THEN EvaluateConstraints(c.constraints, o.ctx)
      ELSE IF i = Len(chain) THEN "ok"
      ELSE IF c.issuer # chain[i + 1].subject THEN "broken_chain"
      ELSE IF "identity:delegate" \notin chain[i + 1].scope THEN "delegation_not_authorized"
      ELSE "ok"

(* Constraints deferred past the consumption of the challenge.             *)
DeferredFailure(chain, o) ==
  LET failed == {i \in DOMAIN chain : EvaluateConstraints(chain[i].constraints, o.ctx) # "ok"}
  IN  IF ~o.store \/ failed = {} THEN "ok"
      ELSE EvaluateConstraints(chain[Min(failed)].constraints, o.ctx)

EffectiveScope(chain) == IntersectScopes([i \in DOMAIN chain |-> chain[i].scope])

(* A cached verdict counts only with a required scope and while it         *)
(* verifies; a stale one falls through to the live provider.               *)
PolicyAnswer(o) ==
  IF o.required # None /\ o.cached \in {"allowed", "denied"} THEN o.cached ELSE o.policy

(* The verdict after the challenge is spent.                               *)
BundleVerdict(p, o) ==
  IF DeferredFailure(p.chain, o) # "ok" THEN DeferredFailure(p.chain, o)
  ELSE IF o.required # None /\ o.required \notin EffectiveScope(p.chain) THEN "scope_denied"
  ELSE IF PolicyAnswer(o) = "denied" THEN "scope_denied"
  ELSE IF PolicyAnswer(o) = "error" THEN "policy_error" ELSE "valid"

TurnVerdict(token, o) ==
  IF o.required # None /\ o.required \notin token.scope THEN "scope_denied" ELSE "valid"

-----------------------------------------------------------------------------
(* The steps of a call.                                                    *)

(* An answer: only a valid one carries more than its status.               *)
Rejected(failure) == [pc |-> "done", result |-> failure]

Finish(c, result) ==
  IF result = "valid" THEN [call[c] EXCEPT !.pc = "done", !.result = result] ELSE Rejected(result)

Begin(c, p, o, token, failure, next) ==
  /\ call[c].pc = "idle"
  /\ call' = [call EXCEPT ![c] =
       IF failure # "ok" THEN Rejected(failure)
       ELSE [pc |-> next, pres |-> p, opts |-> o, token |-> token, at |-> now, cert |-> 1,
             last |-> lastSeen, revokedBefore |-> revoked, result |-> None]]
  /\ records' = IF o.store THEN Unexpired(records, now) ELSE records
  /\ UNCHANGED <<issued, revoked, tokens, lastSeen, advanced, spent, now>>

NoToken == [scope |-> {}]

BeginBundle(c, p, o) == Begin(c, p, o, NoToken, BundleFailure(p, o, now), "certs")

BeginTurn(c, p, o, token) == Begin(c, p, o, token, TurnFailure(p, token, o, now), "live")

NoOptions == [session |-> None, store |-> FALSE, stream |-> None, required |-> None]

(* It answers in one step: nothing outside the call is read.               *)
LegacyTurn(c, p, token) ==
  /\ call[c].pc = "idle"
  /\ call' = [call EXCEPT ![c] =
       IF LegacyFailure(p, token, now) # "ok" THEN Rejected(LegacyFailure(p, token, now))
       ELSE [pc |-> "done", pres |-> p, opts |-> NoOptions, token |-> token, at |-> now, cert |-> 1,
             last |-> lastSeen, revokedBefore |-> revoked, result |-> "valid"]]
  /\ UNCHANGED <<storeVars, revoked, tokens, lastSeen, advanced, spent, now>>

CheckCert(c) ==
  LET v == call[c]
      failure == CertFailure(v.pres.chain, v.cert, v.opts, v.at)
  IN  /\ v.pc = "certs"
      /\ call' = [call EXCEPT ![c] =
           IF failure # "ok" THEN Finish(c, failure)
           ELSE [v EXCEPT !.cert = @ + 1,
                          !.pc = IF v.cert = Len(v.pres.chain) THEN "live" ELSE "certs"]]
      /\ UNCHANGED <<storeVars, revoked, tokens, lastSeen, advanced, spent, now>>

(* Faulty variant: the challenge is spent before the signature is checked. *)
LiveFailureLate(c) ==
  LET v == call[c]
  IN  IF v.opts.store /\ Found(v.pres.challenge, v.opts.session, v.at) = {} THEN "unknown_challenge"
      ELSE "ok"

(* Freshness and the agent's signature, then consume.                      *)
LiveFailure(c) ==
  LET v == call[c]
  IN  IF v.at - v.pres.at \notin 0..Window THEN "stale_challenge"
      ELSE IF ~v.pres.signed THEN "bad_challenge_sig"
      ELSE IF v.opts.store /\ Found(v.pres.challenge, v.opts.session, v.at) = {}
           THEN "unknown_challenge" ELSE "ok"

(* Faulty variant: consume only looks the record up.                       *)
ConsumedKeeps(c) == records

(* The records after a successful consume.                                 *)
Consumed(c) ==
  LET v == call[c]
  IN  IF v.opts.store THEN Unexpired(records, v.at) \ Found(v.pres.challenge, v.opts.session, v.at)
      ELSE records

Live(c) ==
  LET v == call[c]
  IN  /\ v.pc = "live"
      /\ call' = [call EXCEPT ![c] = IF LiveFailure(c) # "ok" THEN Finish(c, LiveFailure(c))
                                     ELSE [v EXCEPT !.pc = "authorize"]]
      /\ records' = IF LiveFailure(c) = "ok" THEN Consumed(c)
                    ELSE IF LiveFailure(c) = "unknown_challenge" THEN Unexpired(records, v.at)
                    ELSE records
      /\ spent' = IF LiveFailure(c) = "ok" /\ v.opts.store
                  THEN Append(spent, v.pres.challenge) ELSE spent
      /\ UNCHANGED <<issued, revoked, tokens, lastSeen, advanced, now>>

(* Authorization changes no challenge.                                     *)
AfterVerdict(c) == records

Authorize(c) ==
  LET v == call[c]
      verdict == IF v.token = NoToken THEN BundleVerdict(v.pres, v.opts)
                 ELSE TurnVerdict(v.token, v.opts)
  IN  /\ v.pc = "authorize"
      /\ call' = [call EXCEPT ![c] = Finish(c, verdict)]
      /\ records' = AfterVerdict(c)
      /\ UNCHANGED <<issued, revoked, tokens, lastSeen, advanced, spent, now>>

(* issue_session_token, after a valid bundle.                              *)
IssueToken(c) ==
  LET v == call[c]
  IN  /\ Cardinality(tokens) < MaxTokens
      /\ v.pc = "done" /\ v.result = "valid" /\ v.token = NoToken
      /\ tokens' = tokens \cup {[agent |-> v.pres.agent, scope |-> EffectiveScope(v.pres.chain),
                                 from |-> now, until |-> now + TokenLife, chain |-> v.pres.chain]}
      /\ UNCHANGED <<storeVars, revoked, call, lastSeen, advanced, spent, now>>

(* The caller's compare-and-advance, as StreamedVerifyOptions asks of it:  *)
(* it compares its position with the snapshot it gave the verifier, and    *)
(* takes the verifier's word for the turn's place in the stream.           *)
MayAdvance(c) == lastSeen = call[c].last

(* The caller is done with the answer.                                     *)
Return(c) ==
  LET v == call[c]
      advances == v.result = "valid" /\ v.opts.stream # None /\ MayAdvance(c)
  IN  /\ v.pc = "done"
      /\ call' = [call EXCEPT ![c] = NoCall]
      /\ lastSeen' = IF advances THEN v.pres.seq ELSE lastSeen
      /\ advanced' = IF advances THEN Append(advanced, v.pres.seq) ELSE advanced
      /\ UNCHANGED <<storeVars, revoked, tokens, spent, now>>

Revoke(id) ==
  /\ id \notin revoked /\ revoked' = revoked \cup {id}
  /\ UNCHANGED <<storeVars, call, tokens, lastSeen, advanced, spent, now>>

Tick ==
  /\ now < MaxTime /\ now' = now + 1
  /\ UNCHANGED <<storeVars, revoked, call, tokens, lastSeen, advanced, spent>>

-----------------------------------------------------------------------------
Init ==
  /\ records = {} /\ issued = 0
  /\ revoked = {}
  /\ call = [c \in Callers |-> NoCall]
  /\ tokens = {}
  /\ lastSeen = 0 /\ advanced = <<>> /\ spent = <<>>
  /\ now = 0

CallStep(c) ==
  \/ \E p \in Presentations, o \in Options : BeginBundle(c, p, o)
  \/ \E p \in Presentations, o \in Options, token \in tokens :
       token.agent = p.agent /\ BeginTurn(c, p, o, token)
  \/ \E p \in Presentations, token \in tokens : token.agent = p.agent /\ LegacyTurn(c, p, token)
  \/ CheckCert(c) \/ Live(c) \/ Authorize(c) \/ IssueToken(c) \/ Return(c)

Next ==
  \/ \E s \in Sessions : IssueChallenge(s)
  \/ \E c \in Callers : CallStep(c)
  \/ \E id \in Revocable : Revoke(id)
  \/ Tick

Spec == Init /\ [][Next]_vars

-----------------------------------------------------------------------------
(* Every pending challenge was issued, and no more are pending than the    *)
(* store may hold.                                                         *)
TypeOK ==
  /\ issued \in 0..MaxChallenges /\ now \in 0..MaxTime /\ lastSeen \in Nat
  /\ \A r \in records : r.value \in 1..issued /\ r.session \in Sessions /\ r.expires \in Nat
  /\ \A c \in Callers : call[c].pc \in {"idle", "certs", "live", "authorize", "done"}
  /\ revoked \subseteq Revocable
  /\ Cardinality(records) <= Capacity

Answered(c) == call[c].pc = "done" /\ call[c].result = "valid"

(* A challenge is spent at most once, whichever calls present it at the    *)
(* same time and in bundles or in streamed turns: between validate and     *)
(* consume another call may have taken it.                                 *)
NotSpentTwice == \A i, j \in DOMAIN spent : spent[i] = spent[j] => i = j

(* A presentation that reached authorization has spent its challenge for   *)
(* good, also when a scope, a constraint or a policy then denies it.       *)
SpentStaysSpent == \A i \in DOMAIN spent : \A r \in records : r.value # spent[i]

(* A challenge is spent at most once, whichever calls present it, and what *)
(* reached authorization has spent its challenge for good.                 *)
SpentOnce == NotSpentTwice /\ SpentStaysSpent

(* A pending challenge leaves the store only by its expiry or for a signed *)
(* presentation under the session it was issued for: a forged or wrongly   *)
(* bound one never burns it.                                               *)
OnlySignedBurnsStep ==
  \A r \in records \ records' :
    \/ r.expires < now
    \/ \E c \in DOMAIN call : /\ call[c].pc = "live" /\ call'[c].pc = "authorize"
                              /\ call[c].pres.challenge = r.value /\ call[c].pres.signed
                              /\ call[c].opts.session = r.session
OnlySignedBurns == [][OnlySignedBurnsStep]_vars

(* The scope of an answer and the chain it rests on, those of its session  *)
(* token when a streamed turn gave it.                                     *)
ScopeOf(c) == IF call[c].token = NoToken THEN EffectiveScope(call[c].pres.chain)
              ELSE call[c].token.scope
ChainOf(c) == IF call[c].token = NoToken THEN call[c].pres.chain ELSE call[c].token.chain

(* With a revocation provider, a certificate that was revoked before the   *)
(* call began never verifies.  In every valid answer the chain is linked,  *)
(* and the answer's scope is inside the scope of every certificate up to   *)
(* the root, each of which was granted the right to delegate; the same     *)
(* holds of the scope that a session token made of it carries.             *)
NarrowedAtEveryLink ==
  \A c \in DOMAIN call : Answered(c) =>
    LET chain == ChainOf(c)
    IN  /\ call[c].token = NoToken /\ call[c].opts.revocation = "provider" =>
             \A i \in DOMAIN chain : chain[i].id \notin call[c].revokedBefore
        /\ \A i \in DOMAIN chain : ScopeOf(c) \subseteq Expand(chain[i].scope)
        /\ \A i \in DOMAIN chain : i < Len(chain) => chain[i].issuer = chain[i + 1].subject
        /\ \A i \in 2..Len(chain) : "identity:delegate" \in chain[i].scope
        /\ call[c].opts.required \in ScopeOf(c) \cup {None}

(* No wildcard ever carries a sensitive scope down a chain: it is in the   *)
(* answer only if every certificate names it itself.                       *)
SensitiveIsExplicit ==
  \A c \in DOMAIN call : Answered(c) =>
    \A s \in ScopeOf(c) \cap Sensitive : \A i \in DOMAIN ChainOf(c) : s \in ChainOf(c)[i].scope

(* The scope of an answer is inside the scope of every certificate, and no *)
(* wildcard carries a sensitive scope down a chain.                        *)
AuthorityNarrows == NarrowedAtEveryLink /\ SensitiveIsExplicit

(* A stream moves through every position once and in order.  Two turns may *)
(* verify against one snapshot, and bundles and turns mix; callers only    *)
(* see to it that their position is still the snapshot, so that no turn is *)
(* repeated or skipped rests on the checks of the verifier.                *)
StreamInOrder == \A i \in DOMAIN advanced : advanced[i] = i
=============================================================================
