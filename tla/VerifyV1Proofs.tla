---------------------------- MODULE VerifyV1Proofs ----------------------------
(***************************************************************************)
(* Protocol v1 verification, for any callers, presentations, options,      *)
(* revocations and bounds.                                                 *)
(*                                                                         *)
(* The invariant follows a call through its steps: the certificates below  *)
(* its cursor are linked, delegated and were not revoked when it began; a  *)
(* session token stands for a chain of which all of that held; a challenge *)
(* that was issued is pending in one record or spent once.                 *)
(***************************************************************************)
EXTENDS VerifyV1, SequenceTheorems, TLAPS

-----------------------------------------------------------------------------
(* Operators.                                                              *)

(* What every kind of constraint answers.                                  *)
LEMMA ConstraintAnswer ==
  ASSUME NEW c, NEW o \in Options PROVE EvaluateConstraint(c, o.ctx) \in ConstraintAnswers
<1> DEFINE ctx == o.ctx
<1>1. /\ ResourcePath(c, ctx) \in ConstraintAnswers
      /\ GeoBox(c, ctx) \in ConstraintAnswers
      /\ GeoArea(c, ctx) \in ConstraintAnswers
  BY DEF ResourcePath, GeoBox, GeoArea, ConstraintAnswers
<1>2. /\ TimeWindow(c, ctx.minute) \in ConstraintAnswers
      /\ MaxSpeed(c, ctx) \in ConstraintAnswers
      /\ MaxAmount(c, ctx) \in ConstraintAnswers
      /\ MaxRate(c, ctx) \in ConstraintAnswers
  BY DEF TimeWindow, MaxSpeed, MaxAmount, MaxRate, ConstraintAnswers
<1>3. ASSUME c.kind \notin BuiltInKinds
      PROVE  (IF c.kind \in DOMAIN ctx.evaluators THEN ctx.evaluators[c.kind] ELSE "constraint_unknown")
               \in ConstraintAnswers
  BY EvaluatorAssumption DEF ConstraintAnswers
<1> QED
  BY <1>1, <1>2, <1>3 DEF EvaluateConstraint, BuiltInKinds

LEMMA ConstraintsAnswer ==
  ASSUME NEW cs, NEW o \in Options PROVE EvaluateConstraints(cs, o.ctx) \in ConstraintAnswers
<1>1. "ok" \in ConstraintAnswers
  BY DEF ConstraintAnswers
<1> QED
  BY <1>1, ConstraintAnswer DEF EvaluateConstraints

(* Whatever a wildcard expands to is ordinary.                             *)
LEMMA ExpandSensitive ==
  ASSUME NEW scopes, NEW s \in Expand(scopes), s \in Sensitive PROVE s \in scopes
<1>1. PICK w \in scopes : s \in (IF w \in Wildcards THEN WildcardExpansion(w) ELSE {w})
  BY DEF Expand
<1>2. CASE w \in Wildcards
  <2>1. WildcardExpansion(w) \subseteq Ordinary
    BY <1>2 DEF WildcardExpansion, Wildcards, Ordinary
  <2> QED
    BY <1>1, <1>2, <2>1 DEF Ordinary, Sensitive
<1>3. CASE w \notin Wildcards
  BY <1>1, <1>3
<1> QED
  BY <1>2, <1>3

(* The effective scope of a chain is inside every certificate's.           *)
LEMMA EffectiveInside ==
  ASSUME NEW chain, NEW i \in DOMAIN chain
  PROVE  EffectiveScope(chain) \subseteq Expand(chain[i].scope)
BY DEF EffectiveScope, IntersectScopes

(* No check of a presentation answers "valid".                             *)
LEMMA FailuresReject ==
  ASSUME NEW p, NEW o \in Options, NEW token, NEW t
  PROVE  /\ BundleFailure(p, o, t) # "valid" /\ TurnFailure(p, token, o, t) # "valid"
         /\ LegacyFailure(p, token, t) # "valid"
<1>1. SessionFailure(p, o) # "valid" /\ StreamFailure(p, o, lastSeen) # "valid"
  BY DEF SessionFailure, StreamFailure
<1>2. BundleFailure(p, o, t) # "valid"
  BY <1>1 DEF BundleFailure
<1>3. TurnFailure(p, token, o, t) # "valid"
  BY <1>1 DEF TurnFailure
<1>4. LegacyFailure(p, token, t) # "valid"
  BY DEF LegacyFailure
<1> QED
  BY <1>2, <1>3, <1>4

LEMMA CertNotValid ==
  ASSUME NEW chain, NEW i, NEW o \in Options, NEW t
  PROVE  CertFailure(chain, i, o, t) # "valid"
<1>1. EvaluateConstraints(chain[i].constraints, o.ctx) # "valid"
  BY ConstraintsAnswer DEF ConstraintAnswers
<1> QED
  BY <1>1 DEF CertFailure

(* A valid verdict has its required scope in the effective scope.          *)
LEMMA VerdictScope ==
  ASSUME NEW p, NEW o \in Options
  PROVE  BundleVerdict(p, o) = "valid" => o.required \in EffectiveScope(p.chain) \cup {None}
<1>1. DeferredFailure(p.chain, o) # "valid"
  BY ConstraintsAnswer DEF DeferredFailure, ConstraintAnswers
<1> QED
  BY <1>1 DEF BundleVerdict

-----------------------------------------------------------------------------
(* Certificate i of a chain is signed by the next one's subject, which was *)
(* granted the right to delegate.                                          *)
Linked(chain, i) ==
  i < Len(chain) => /\ chain[i].issuer = chain[i + 1].subject
                    /\ "identity:delegate" \in chain[i + 1].scope

(* What the loop over the chain has established of certificate i.          *)
CertSound(v, i) ==
  /\ v.opts.revocation = "provider" => v.pres.chain[i].id \notin v.revokedBefore
  /\ Linked(v.pres.chain, i)

(* A call that was not refused, when these tokens were issued, at most     *)
(* this late and with these certificates revoked.                          *)
WorkStates(toks, t, rev) ==
  [pc : {"certs", "live", "authorize", "done"}, pres : Presentations, opts : Options \cup {NoOptions},
   token : toks \cup {NoToken}, at : 0..t, cert : Nat, last : Int, revokedBefore : SUBSET rev,
   result : {None, "valid"}]

ScopeIn(v) == IF v.token = NoToken THEN EffectiveScope(v.pres.chain) ELSE v.token.scope

(* While it checks certificates those below cert are sound; afterwards all *)
(* are, or a session token stands for them.                                *)
WorkSound(v, toks, t, rev) ==
  /\ v \in WorkStates(toks, t, rev)
  /\ v.pc # "done" => v.opts \in Options
  /\ v.opts.stream # None => v.pres.seq = v.last + 1
  /\ v.pc = "done" => v.result = "valid" /\ v.opts.required \in ScopeIn(v) \cup {None}
  /\ v.pc = "certs" => /\ v.token = NoToken /\ v.cert \in 1..Len(v.pres.chain)
                       /\ \A i \in 1..(v.cert - 1) : CertSound(v, i)
  /\ v.pc # "certs" /\ v.token = NoToken => \A i \in DOMAIN v.pres.chain : CertSound(v, i)

CallSound(v, toks, t, rev) ==
  \/ v = NoCall
  \/ v.pc = "done" /\ v.result # "valid"
  \/ WorkSound(v, toks, t, rev)

CallsSound == /\ DOMAIN call = Callers
              /\ \A c \in Callers : CallSound(call[c], tokens, now, revoked)

(* A session token carries the scope of a chain that verified.             *)
TokenSound(token) ==
  /\ token # NoToken /\ token.scope = EffectiveScope(token.chain)
  /\ Len(token.chain) \in Nat /\ DOMAIN token.chain = 1..Len(token.chain)
  /\ \A i \in DOMAIN token.chain : Linked(token.chain, i)

TokensSound == \A token \in tokens : TokenSound(token)

(* A challenge is issued once: it is pending in one record or spent once.  *)
StoreSound ==
  /\ issued \in Nat /\ now \in Nat
  /\ \A r \in records : r.value \in 1..issued /\ r.expires \in Nat
  /\ \A r, s \in records : r.value = s.value => r = s
  /\ spent \in Seq(Nat)
  /\ \A i \in DOMAIN spent : spent[i] \in 1..issued

(* The position of the stream is the number of turns accepted.             *)
StreamSound ==
  /\ advanced \in Seq(Int) /\ lastSeen = Len(advanced)
  /\ StreamInOrder

VerifyInv == CallsSound /\ TokensSound /\ StoreSound /\ SpentOnce /\ StreamSound

LEMMA InitInv == Init => VerifyInv
<1> SUFFICES ASSUME Init PROVE VerifyInv
  OBVIOUS
<1>1. CallsSound
  BY DEF Init, CallsSound, CallSound
<1>2. TokensSound /\ StoreSound /\ SpentOnce
  BY DEF Init, TokensSound, StoreSound, SpentOnce, NotSpentTwice, SpentStaysSpent
<1>3. StreamSound
  BY DEF Init, StreamSound, StreamInOrder
<1> QED
  BY <1>1, <1>2, <1>3 DEF VerifyInv

(* What a call established stays established while time passes, tokens are *)
(* issued and certificates revoked.                                        *)
LEMMA CallStays ==
  ASSUME NEW v, NEW toks, NEW t \in Nat, NEW rev, CallSound(v, toks, t, rev),
         NEW toks2, NEW t2 \in Nat, NEW rev2, toks \subseteq toks2, t <= t2, rev \subseteq rev2
  PROVE  CallSound(v, toks2, t2, rev2)
<1>1. WorkSound(v, toks, t, rev) => WorkSound(v, toks2, t2, rev2)
  <2>1. WorkStates(toks, t, rev) \subseteq WorkStates(toks2, t2, rev2)
    <3>1. 0..t \subseteq 0..t2 /\ SUBSET rev \subseteq SUBSET rev2
      OBVIOUS
    <3> QED
      BY <3>1 DEF WorkStates
  <2> QED
    BY <2>1 DEF WorkSound
<1> QED
  BY <1>1 DEF CallSound

(* A step of caller c that changes neither tokens, clock nor revocations.  *)
LEMMA CallChanges ==
  ASSUME VerifyInv, NEW c \in Callers, NEW v, call' = [call EXCEPT ![c] = v],
         CallSound(v, tokens, now, revoked), UNCHANGED <<tokens, now, revoked>>
  PROVE  CallsSound' /\ TokensSound'
<1>1. CallsSound'
  BY DEF VerifyInv, CallsSound
<1>2. TokensSound'
  BY DEF VerifyInv, TokensSound
<1> QED
  BY <1>1, <1>2

(* The store forgets expired records and nothing else.                     *)
LEMMA StoreForgets ==
  ASSUME VerifyInv, records' \subseteq records, UNCHANGED <<issued, spent, now>>
  PROVE  StoreSound' /\ SpentOnce'
<1>1. StoreSound'
  BY DEF VerifyInv, StoreSound
<1>2. SpentOnce'
  BY DEF VerifyInv, SpentOnce, NotSpentTwice, SpentStaysSpent
<1> QED
  BY <1>1, <1>2

LEMMA StreamSame ==
  ASSUME VerifyInv, UNCHANGED <<advanced, lastSeen>> PROVE StreamSound'
BY DEF VerifyInv, StreamSound, StreamInOrder

-----------------------------------------------------------------------------
(* The steps.                                                              *)

LEMMA IssueChallengeInv ==
  ASSUME VerifyInv, NEW s \in Sessions, IssueChallenge(s)
  PROVE  VerifyInv'
<1> DEFINE new == [value |-> issued + 1, session |-> s, expires |-> now + Ttl]
<1>1. /\ issued' = issued + 1
      /\ records' = Unexpired(records, now) \cup {new}
      /\ UNCHANGED <<revoked, call, tokens, lastSeen, advanced, spent, now>>
  BY DEF IssueChallenge
<1>2. new.value = issued + 1 /\ new.expires \in Nat /\ issued \in Nat
  BY TimesAssumption DEF VerifyInv, StoreSound
<1> HIDE DEF new
<1>3. Unexpired(records, now) \subseteq records
  BY DEF Unexpired
<1>4. \A r \in Unexpired(records, now) : r.value \in 1..issued /\ r.expires \in Nat
  BY <1>3 DEF VerifyInv, StoreSound
<1>5. StoreSound'
  <2>1. \A r, t \in records' : r.value = t.value => r = t
    BY <1>1, <1>2, <1>3, <1>4 DEF VerifyInv, StoreSound
  <2>2. \A r \in records' : r.value \in 1..issued' /\ r.expires \in Nat
    BY <1>1, <1>2, <1>4
  <2>3. \A i \in DOMAIN spent : spent[i] \in 1..issued'
    BY <1>1, <1>2 DEF VerifyInv, StoreSound
  <2> QED
    BY <1>1, <1>2, <2>1, <2>2, <2>3 DEF VerifyInv, StoreSound
<1>6. SpentOnce'
  <2>1. \A i \in DOMAIN spent : spent[i] # issued + 1
    BY <1>2 DEF VerifyInv, StoreSound
  <2> QED
    BY <1>1, <1>2, <1>3, <2>1 DEF VerifyInv, SpentOnce, NotSpentTwice, SpentStaysSpent
<1>7. CallsSound' /\ TokensSound'
  BY <1>1 DEF VerifyInv, CallsSound, TokensSound
<1>8. StreamSound'
  BY <1>1, StreamSame
<1> QED
  BY <1>5, <1>6, <1>7, <1>8 DEF VerifyInv

(* A turn of a stream that passes the checks is the next after the         *)
(* snapshot.                                                               *)
LEMMA NextPosition ==
  ASSUME NEW p \in Presentations, NEW o \in Options, NEW last \in Int
  PROVE  StreamFailure(p, o, last) = "ok" /\ o.stream # None => p.seq = last + 1
BY PresentationAssumption DEF StreamFailure

(* The position of the stream is a number.                                 *)
LEMMA PositionType == ASSUME VerifyInv PROVE lastSeen \in Int
BY DEF VerifyInv, StreamSound

(* A call begins with its place in the stream established, or is refused.  *)
LEMMA BeginInv ==
  ASSUME VerifyInv, NEW c \in Callers, NEW p \in Presentations, NEW o \in Options, NEW token,
         NEW failure, failure # "valid", NEW next, Begin(c, p, o, token, failure, next),
         failure = "ok" => StreamFailure(p, o, lastSeen) = "ok",
         \/ next = "certs" /\ token = NoToken /\ (failure = "ok" => Len(p.chain) # 0)
         \/ next = "live" /\ token \in tokens
  PROVE  VerifyInv'
<1> DEFINE v == [pc |-> next, pres |-> p, opts |-> o, token |-> token, at |-> now, cert |-> 1,
                 last |-> lastSeen, revokedBefore |-> revoked, result |-> None]
<1>1. /\ call' = [call EXCEPT ![c] = IF failure # "ok" THEN Rejected(failure) ELSE v]
      /\ records' \subseteq records
      /\ UNCHANGED <<issued, revoked, tokens, lastSeen, advanced, spent, now>>
  BY DEF Begin, Unexpired
<1>2. now \in Nat
  BY DEF VerifyInv, StoreSound
<1>3. v \in WorkStates(tokens, now, revoked)
  <2>1. now \in 0..now
    BY <1>2
  <2> QED
    BY <2>1, PositionType DEF WorkStates
<1>4. /\ v.pc = next /\ v.pres = p /\ v.opts = o /\ v.token = token /\ v.cert = 1
      /\ v.last = lastSeen
  OBVIOUS
<1> HIDE DEF v
<1>5. failure = "ok" => WorkSound(v, tokens, now, revoked)
  <2>1. Len(p.chain) \in Nat
    BY PresentationAssumption
  <2>2. ASSUME failure = "ok", next = "certs"
        PROVE  v.cert \in 1..Len(v.pres.chain) /\ 1..(v.cert - 1) = {}
    BY <1>4, <2>1, <2>2
  <2>3. next = "live" => v.token # NoToken
    BY <1>4 DEF VerifyInv, TokensSound, TokenSound
  <2>4. failure = "ok" /\ v.opts.stream # None => v.pres.seq = v.last + 1
    BY <1>4, NextPosition, PositionType
  <2> QED
    BY <1>3, <1>4, <2>2, <2>3, <2>4 DEF WorkSound
<1>6. CallSound(IF failure # "ok" THEN Rejected(failure) ELSE v, tokens, now, revoked)
  BY <1>5 DEF CallSound, Rejected
<1>7. CallsSound' /\ TokensSound'
  BY <1>1, <1>6, CallChanges
<1>8. StoreSound' /\ SpentOnce'
  BY <1>1, StoreForgets
<1>9. StreamSound'
  BY <1>1, StreamSame
<1> QED
  BY <1>7, <1>8, <1>9 DEF VerifyInv

LEMMA LegacyTurnInv ==
  ASSUME VerifyInv, NEW c \in Callers, NEW p \in Presentations, NEW token \in tokens,
         LegacyTurn(c, p, token)
  PROVE  VerifyInv'
<1> DEFINE v == [pc |-> "done", pres |-> p, opts |-> NoOptions, token |-> token, at |-> now,
                 cert |-> 1, last |-> lastSeen, revokedBefore |-> revoked, result |-> "valid"]
           failure == LegacyFailure(p, token, now)
<1>1. /\ call' = [call EXCEPT ![c] = IF failure # "ok" THEN Rejected(failure) ELSE v]
      /\ UNCHANGED <<records, issued, revoked, tokens, lastSeen, advanced, spent, now>>
  BY DEF LegacyTurn, storeVars
<1>2. failure # "valid"
  BY DEF LegacyFailure
<1>3. v \in WorkStates(tokens, now, revoked)
  <2>1. now \in 0..now
    BY DEF VerifyInv, StoreSound
  <2> QED
    BY <2>1, PositionType DEF WorkStates
<1>4. /\ v.pc = "done" /\ v.result = "valid" /\ v.token = token
      /\ v.opts.required = None /\ v.opts.stream = None
  BY DEF NoOptions
<1>5. v.token # NoToken
  BY <1>4 DEF VerifyInv, TokensSound, TokenSound
<1> HIDE DEF v, failure
<1>6. WorkSound(v, tokens, now, revoked)
  BY <1>3, <1>4, <1>5 DEF WorkSound
<1>7. CallSound(IF failure # "ok" THEN Rejected(failure) ELSE v, tokens, now, revoked)
  BY <1>2, <1>6 DEF CallSound, Rejected
<1>8. CallsSound' /\ TokensSound'
  BY <1>1, <1>7, CallChanges
<1>9. StoreSound' /\ SpentOnce'
  BY <1>1, StoreForgets
<1>10. StreamSound'
  BY <1>1, StreamSame
<1> QED
  BY <1>8, <1>9, <1>10 DEF VerifyInv

(* A call at work is sound.                                                *)
LEMMA AtWork ==
  ASSUME VerifyInv, NEW c \in Callers, call[c].pc \in {"certs", "live", "authorize"}
  PROVE  /\ WorkSound(call[c], tokens, now, revoked)
         /\ call[c].pres \in Presentations /\ call[c].opts \in Options
         /\ call[c].at \in Nat /\ call[c].at <= now
<1>1. WorkSound(call[c], tokens, now, revoked)
  BY DEF VerifyInv, CallsSound, CallSound, NoCall
<1> QED
  BY <1>1 DEF WorkSound, WorkStates, VerifyInv, StoreSound

LEMMA CheckCertInv ==
  ASSUME VerifyInv, NEW c \in Callers, CheckCert(c)
  PROVE  VerifyInv'
<1> DEFINE v == call[c]
           chain == v.pres.chain
           failure == CertFailure(chain, v.cert, v.opts, v.at)
           next == IF v.cert = Len(chain) THEN "live" ELSE "certs"
           checked == [v EXCEPT !.cert = @ + 1, !.pc = next]
<1>1. /\ v.pc = "certs"
      /\ call' = [call EXCEPT ![c] = IF failure # "ok" THEN Finish(c, failure) ELSE checked]
      /\ UNCHANGED <<records, issued, revoked, tokens, lastSeen, advanced, spent, now>>
  BY DEF CheckCert, storeVars
<1>2. WorkSound(v, tokens, now, revoked) /\ v.opts \in Options /\ v.pres \in Presentations
  BY <1>1, AtWork
<1>3. failure # "valid"
  BY <1>2, CertNotValid
<1>4. CallSound(Finish(c, failure), tokens, now, revoked)
  BY <1>3 DEF Finish, Rejected, CallSound
<1>5. v.cert \in 1..Len(chain) /\ Len(chain) \in Nat /\ DOMAIN chain = 1..Len(chain)
  BY <1>1, <1>2, PresentationAssumption DEF WorkSound
<1>6. ASSUME failure = "ok" PROVE WorkSound(checked, tokens, now, revoked)
  <2>1. v \in WorkStates(tokens, now, revoked) /\ v.cert + 1 \in Nat
    BY <1>2, <1>5 DEF WorkSound
  <2>2. /\ checked \in WorkStates(tokens, now, revoked)
        /\ checked.pc = next /\ checked.cert = v.cert + 1 /\ checked.pres = v.pres
        /\ checked.opts = v.opts /\ checked.token = v.token /\ checked.last = v.last
        /\ checked.revokedBefore = v.revokedBefore
    BY <2>1 DEF WorkStates
  <2>3. CertSound(v, v.cert)
    <3>1. v.revokedBefore \subseteq revoked
      BY <2>1 DEF WorkStates
    <3> QED
      BY <1>5, <1>6, <3>1 DEF CertFailure, CertSound, Linked
  <2>4. \A i \in 1..v.cert : CertSound(v, i)
    BY <1>1, <1>2, <1>5, <2>3 DEF WorkSound
  <2> HIDE DEF checked, v
  <2>5. \A i \in 1..v.cert : CertSound(checked, i)
    BY <2>2, <2>4 DEF CertSound
  <2>6. /\ v.token = NoToken /\ v.opts \in Options
        /\ v.opts.stream # None => v.pres.seq = v.last + 1
    BY <1>1, <1>2 DEF WorkSound
  <2>7. CASE v.cert = Len(chain)
    BY <1>5, <2>2, <2>5, <2>6, <2>7 DEF WorkSound
  <2>8. CASE v.cert # Len(chain)
    <3>1. v.cert + 1 \in 1..Len(chain) /\ (v.cert + 1) - 1 = v.cert
      BY <1>5, <2>8
    <3> QED
      BY <2>2, <2>5, <2>6, <2>8, <3>1 DEF WorkSound
  <2> QED
    BY <2>7, <2>8
<1> HIDE DEF failure, checked
<1>7. CallsSound' /\ TokensSound'
  BY <1>1, <1>4, <1>6, CallChanges DEF CallSound
<1>8. StoreSound' /\ SpentOnce'
  BY <1>1, StoreForgets
<1>9. StreamSound'
  BY <1>1, StreamSame
<1> QED
  BY <1>7, <1>8, <1>9 DEF VerifyInv

(* The call that consumes a challenge removes its only record.             *)
LEMMA ConsumeInv ==
  ASSUME VerifyInv, NEW c \in Callers, call[c].pc = "live", LiveFailure(c) = "ok",
         call[c].opts.store, records' = Consumed(c),
         spent' = Append(spent, call[c].pres.challenge), UNCHANGED <<issued, now>>
  PROVE  StoreSound' /\ SpentOnce'
<1> DEFINE k == call[c].pres.challenge
           found == Found(k, call[c].opts.session, call[c].at)
<1>1. /\ found # {}
      /\ records' = Unexpired(records, call[c].at) \ found
  BY DEF LiveFailure, Consumed
<1>2. found = {r \in Unexpired(records, call[c].at) : r.value = k /\ r.session = call[c].opts.session}
  BY DEF Found
<1>3. PICK r \in records : r.value = k /\ r \in found
  BY <1>1, <1>2 DEF Unexpired
<1> HIDE DEF found, k
<1>4. k \in 1..issued /\ k \in Nat
  BY <1>3 DEF VerifyInv, StoreSound
<1>5. records' \subseteq records /\ \A s \in records' : s.value # k
  BY <1>1, <1>3 DEF Unexpired, VerifyInv, StoreSound
<1>6. \A i \in DOMAIN spent : spent[i] # k
  BY <1>3 DEF VerifyInv, SpentOnce, SpentStaysSpent
<1>7. spent \in Seq(Nat)
  BY DEF VerifyInv, StoreSound
<1>8. /\ spent' \in Seq(Nat)
      /\ DOMAIN spent' = DOMAIN spent \cup {Len(spent) + 1}
      /\ spent'[Len(spent) + 1] = k
      /\ \A i \in DOMAIN spent : spent'[i] = spent[i]
  BY <1>4, <1>7, AppendProperties DEF k
<1>9. StoreSound'
  BY <1>4, <1>5, <1>8 DEF VerifyInv, StoreSound
<1>10. SpentOnce'
  BY <1>5, <1>6, <1>8 DEF VerifyInv, SpentOnce, NotSpentTwice, SpentStaysSpent
<1> QED
  BY <1>9, <1>10

LEMMA LiveInv ==
  ASSUME VerifyInv, NEW c \in Callers, Live(c)
  PROVE  VerifyInv'
<1> DEFINE v == call[c]
           moved == [v EXCEPT !.pc = "authorize"]
<1>1. /\ v.pc = "live"
      /\ call' = [call EXCEPT ![c] = IF LiveFailure(c) # "ok" THEN Finish(c, LiveFailure(c)) ELSE moved]
      /\ UNCHANGED <<issued, revoked, tokens, lastSeen, advanced, now>>
  BY DEF Live
<1>2. WorkSound(v, tokens, now, revoked) /\ v.opts \in Options
  BY <1>1, AtWork
<1>3. CallSound(Finish(c, LiveFailure(c)), tokens, now, revoked) \/ LiveFailure(c) = "ok"
  BY DEF LiveFailure, Finish, Rejected, CallSound
<1>4. WorkSound(moved, tokens, now, revoked)
  <2>1. /\ moved \in WorkStates(tokens, now, revoked)
        /\ moved.pc = "authorize" /\ moved.pres = v.pres /\ moved.opts = v.opts
        /\ moved.token = v.token /\ moved.revokedBefore = v.revokedBefore
        /\ moved.last = v.last
    BY <1>2 DEF WorkSound, WorkStates
  <2>2. v.token = NoToken => \A i \in DOMAIN v.pres.chain : CertSound(v, i)
    BY <1>1, <1>2 DEF WorkSound
  <2> HIDE DEF moved, v
  <2>3. moved.token = NoToken => \A i \in DOMAIN moved.pres.chain : CertSound(moved, i)
    BY <2>1, <2>2 DEF CertSound
  <2> QED
    BY <1>2, <2>1, <2>3 DEF WorkSound
<1>5. CallsSound' /\ TokensSound'
  <2>1. CallSound(IF LiveFailure(c) # "ok" THEN Finish(c, LiveFailure(c)) ELSE moved, tokens, now, revoked)
    BY <1>3, <1>4 DEF CallSound
  <2> HIDE DEF moved
  <2> QED
    BY <1>1, <2>1, CallChanges
<1>6. StoreSound' /\ SpentOnce'
  <2>1. CASE LiveFailure(c) = "ok" /\ v.opts.store
    <3>1. records' = Consumed(c) /\ spent' = Append(spent, v.pres.challenge)
      BY <2>1 DEF Live
    <3> QED
      BY <1>1, <2>1, <3>1, ConsumeInv
  <2>2. CASE ~(LiveFailure(c) = "ok" /\ v.opts.store)
    <3>1. records' \subseteq records /\ spent' = spent
      BY <2>2 DEF Live, Consumed, Unexpired
    <3> QED
      BY <1>1, <3>1, StoreForgets
  <2> QED
    BY <2>1, <2>2
<1>7. StreamSound'
  BY <1>1, StreamSame
<1> QED
  BY <1>5, <1>6, <1>7 DEF VerifyInv

LEMMA AuthorizeInv ==
  ASSUME VerifyInv, NEW c \in Callers, Authorize(c)
  PROVE  VerifyInv'
<1> DEFINE v == call[c]
           verdict == IF v.token = NoToken THEN BundleVerdict(v.pres, v.opts) ELSE TurnVerdict(v.token, v.opts)
           ended == [v EXCEPT !.pc = "done", !.result = verdict]
<1>1. /\ v.pc = "authorize"
      /\ call' = [call EXCEPT ![c] = Finish(c, verdict)]
      /\ UNCHANGED <<records, issued, revoked, tokens, lastSeen, advanced, spent, now>>
  BY DEF Authorize, AfterVerdict
<1>2. WorkSound(v, tokens, now, revoked) /\ v.opts \in Options
  BY <1>1, AtWork
<1>3. verdict = "valid" => v.opts.required \in ScopeIn(v) \cup {None}
  BY <1>2, VerdictScope DEF ScopeIn, TurnVerdict
<1>4. ASSUME verdict = "valid" PROVE WorkSound(ended, tokens, now, revoked)
  <2>1. /\ ended \in WorkStates(tokens, now, revoked)
        /\ ended.pc = "done" /\ ended.result = "valid" /\ ended.pres = v.pres /\ ended.opts = v.opts
        /\ ended.token = v.token /\ ended.revokedBefore = v.revokedBefore
        /\ ended.last = v.last
    <3> HIDE DEF verdict
    <3> QED
      BY <1>2, <1>4 DEF WorkSound, WorkStates
  <2>2. v.token = NoToken => \A i \in DOMAIN v.pres.chain : CertSound(v, i)
    BY <1>1, <1>2 DEF WorkSound
  <2> HIDE DEF ended, v
  <2>3. ended.token = NoToken => \A i \in DOMAIN ended.pres.chain : CertSound(ended, i)
    BY <2>1, <2>2 DEF CertSound
  <2>4. ScopeIn(ended) = ScopeIn(v)
    BY <2>1 DEF ScopeIn
  <2> QED
    BY <1>2, <1>3, <1>4, <2>1, <2>3, <2>4 DEF WorkSound
<1>5. CallSound(Finish(c, verdict), tokens, now, revoked)
  <2> HIDE DEF verdict
  <2>1. CASE verdict = "valid"
    BY <1>4, <2>1 DEF Finish, CallSound
  <2>2. CASE verdict # "valid"
    BY <2>2 DEF Finish, Rejected, CallSound
  <2> QED
    BY <2>1, <2>2
<1> HIDE DEF verdict
<1>6. CallsSound' /\ TokensSound'
  BY <1>1, <1>5, CallChanges
<1>7. StoreSound' /\ SpentOnce'
  BY <1>1, StoreForgets
<1>8. StreamSound'
  BY <1>1, StreamSame
<1> QED
  BY <1>6, <1>7, <1>8 DEF VerifyInv

(* A valid answer of a bundle has every certificate of its chain checked.  *)
LEMMA AnsweredSound ==
  ASSUME VerifyInv, NEW c \in Callers, call[c].pc = "done", call[c].result = "valid"
  PROVE  /\ WorkSound(call[c], tokens, now, revoked)
         /\ call[c].pres \in Presentations
         /\ call[c].token = NoToken => \A i \in DOMAIN call[c].pres.chain : CertSound(call[c], i)
<1>1. WorkSound(call[c], tokens, now, revoked)
  BY DEF VerifyInv, CallsSound, CallSound, NoCall
<1> QED
  BY <1>1 DEF WorkSound, WorkStates

LEMMA IssueTokenInv ==
  ASSUME VerifyInv, NEW c \in Callers, IssueToken(c)
  PROVE  VerifyInv'
<1> DEFINE v == call[c]
           chain == v.pres.chain
           token == [agent |-> v.pres.agent, scope |-> EffectiveScope(chain), from |-> now,
                     until |-> now + TokenLife, chain |-> chain]
<1>1. /\ v.pc = "done" /\ v.result = "valid" /\ v.token = NoToken
      /\ tokens' = tokens \cup {token}
      /\ UNCHANGED <<records, issued, revoked, call, lastSeen, advanced, spent, now>>
  BY DEF IssueToken, storeVars
<1>2. token # NoToken
  <2>1. "agent" \in DOMAIN token /\ "agent" \notin DOMAIN NoToken
    BY DEF NoToken
  <2> QED
    BY <2>1
<1>3. token.scope = EffectiveScope(token.chain) /\ token.chain = chain
  OBVIOUS
<1>4. /\ Len(chain) \in Nat /\ DOMAIN chain = 1..Len(chain)
      /\ \A i \in DOMAIN chain : Linked(chain, i)
  BY <1>1, AnsweredSound, PresentationAssumption DEF CertSound
<1> HIDE DEF token
<1>5. TokensSound'
  <2>1. TokenSound(token)
    BY <1>2, <1>3, <1>4 DEF TokenSound
  <2> QED
    BY <1>1, <2>1 DEF VerifyInv, TokensSound
<1>6. CallsSound'
  <2>1. now \in Nat
    BY DEF VerifyInv, StoreSound
  <2>2. \A d \in Callers : CallSound(call[d], tokens', now, revoked)
    BY <1>1, <2>1, CallStays DEF VerifyInv, CallsSound
  <2> QED
    BY <1>1, <2>2 DEF VerifyInv, CallsSound
<1>7. StoreSound' /\ SpentOnce'
  BY <1>1, StoreForgets
<1>8. StreamSound'
  BY <1>1, StreamSame
<1> QED
  BY <1>5, <1>6, <1>7, <1>8 DEF VerifyInv

LEMMA ReturnInv ==
  ASSUME VerifyInv, NEW c \in Callers, Return(c)
  PROVE  VerifyInv'
<1> DEFINE v == call[c]
           advances == v.result = "valid" /\ v.opts.stream # None /\ MayAdvance(c)
<1>1. /\ v.pc = "done"
      /\ call' = [call EXCEPT ![c] = NoCall]
      /\ lastSeen' = IF advances THEN v.pres.seq ELSE lastSeen
      /\ advanced' = IF advances THEN Append(advanced, v.pres.seq) ELSE advanced
      /\ UNCHANGED <<records, issued, revoked, tokens, spent, now>>
  BY DEF Return, storeVars
<1>2. CallsSound' /\ TokensSound'
  BY <1>1, CallChanges DEF CallSound
<1>3. StoreSound' /\ SpentOnce'
  BY <1>1, StoreForgets
<1>4. StreamSound'
  <2>1. CASE ~advances
    BY <1>1, <2>1, StreamSame
  <2>2. CASE advances
    <3>1. v.pres.seq = lastSeen + 1
      <4>1. WorkSound(v, tokens, now, revoked)
        BY <1>1, <2>2, AnsweredSound
      <4> QED
        BY <2>2, <4>1 DEF MayAdvance, WorkSound
    <3>2. advanced \in Seq(Int) /\ lastSeen = Len(advanced) /\ Len(advanced) \in Nat
      BY DEF VerifyInv, StreamSound
    <3>3. lastSeen' = Len(advanced) + 1 /\ advanced' = Append(advanced, Len(advanced) + 1)
      BY <1>1, <2>2, <3>1, <3>2
    <3>4. /\ advanced' \in Seq(Int) /\ Len(advanced') = Len(advanced) + 1
          /\ DOMAIN advanced' = 1..(Len(advanced) + 1)
          /\ advanced'[Len(advanced) + 1] = Len(advanced) + 1
          /\ \A i \in 1..Len(advanced) : advanced'[i] = advanced[i]
      BY <3>2, <3>3, AppendProperties
    <3>5. \A i \in 1..Len(advanced) : advanced[i] = i
      BY <3>2 DEF VerifyInv, StreamSound, StreamInOrder
    <3>6. \A i \in 1..(Len(advanced) + 1) : advanced'[i] = i
      <4>1. \A i \in 1..(Len(advanced) + 1) : i \in 1..Len(advanced) \/ i = Len(advanced) + 1
        BY <3>2
      <4> QED
        BY <3>4, <3>5, <4>1
    <3>7. StreamInOrder'
      BY <3>4, <3>6 DEF StreamInOrder
    <3> QED
      BY <3>3, <3>4, <3>7 DEF StreamSound
  <2> QED
    BY <2>1, <2>2
<1> QED
  BY <1>2, <1>3, <1>4 DEF VerifyInv

(* The world: an operator revokes, the clock advances.                     *)
LEMMA WorldInv ==
  ASSUME VerifyInv, revoked \subseteq revoked', now' \in Nat, now <= now',
         UNCHANGED <<records, issued, call, tokens, lastSeen, advanced, spent>>
  PROVE  VerifyInv'
<1>1. CallsSound'
  <2>1. now \in Nat
    BY DEF VerifyInv, StoreSound
  <2>2. \A d \in Callers : CallSound(call[d], tokens, now', revoked')
    BY <2>1, CallStays DEF VerifyInv, CallsSound
  <2> QED
    BY <2>2 DEF VerifyInv, CallsSound
<1>2. TokensSound' /\ StoreSound' /\ SpentOnce'
  BY DEF VerifyInv, TokensSound, StoreSound, SpentOnce, NotSpentTwice, SpentStaysSpent
<1>3. StreamSound'
  BY StreamSame
<1> QED
  BY <1>1, <1>2, <1>3 DEF VerifyInv

LEMMA NextInv == VerifyInv /\ [Next]_vars => VerifyInv'
<1> SUFFICES ASSUME VerifyInv, [Next]_vars
             PROVE  VerifyInv'
  OBVIOUS
<1>1. CASE \E s \in Sessions : IssueChallenge(s)
  BY <1>1, IssueChallengeInv
<1>2. ASSUME NEW c \in Callers, CallStep(c) PROVE VerifyInv'
  <2>1. ASSUME NEW p \in Presentations, NEW o \in Options, BeginBundle(c, p, o) PROVE VerifyInv'
    <3>1. BundleFailure(p, o, now) # "valid"
      BY FailuresReject
    <3>2. BundleFailure(p, o, now) = "ok" => Len(p.chain) # 0
      BY DEF BundleFailure
    <3>3. Begin(c, p, o, NoToken, BundleFailure(p, o, now), "certs")
      BY <2>1 DEF BeginBundle
    <3>4. BundleFailure(p, o, now) = "ok" => StreamFailure(p, o, lastSeen) = "ok"
      BY DEF BundleFailure
    <3> QED
      BY <3>1, <3>2, <3>3, <3>4, BeginInv
  <2>2. ASSUME NEW p \in Presentations, NEW o \in Options, NEW token \in tokens, BeginTurn(c, p, o, token)
        PROVE  VerifyInv'
    <3>1. TurnFailure(p, token, o, now) # "valid"
      BY FailuresReject
    <3>2. Begin(c, p, o, token, TurnFailure(p, token, o, now), "live")
      BY <2>2 DEF BeginTurn
    <3>3. TurnFailure(p, token, o, now) = "ok" => StreamFailure(p, o, lastSeen) = "ok"
      BY DEF TurnFailure
    <3> QED
      BY <3>1, <3>2, <3>3, BeginInv
  <2>3. CASE \E p \in Presentations, token \in tokens : token.agent = p.agent /\ LegacyTurn(c, p, token)
    BY <2>3, LegacyTurnInv
  <2>4. CASE CheckCert(c) \/ Live(c) \/ Authorize(c)
    BY <2>4, CheckCertInv, LiveInv, AuthorizeInv
  <2>5. CASE IssueToken(c) \/ Return(c)
    BY <2>5, IssueTokenInv, ReturnInv
  <2> QED
    BY <1>2, <2>1, <2>2, <2>3, <2>4, <2>5 DEF CallStep
<1>3. CASE \E id \in Revocable : Revoke(id)
  BY <1>3, WorldInv DEF Revoke, storeVars, VerifyInv, StoreSound
<1>4. CASE Tick
  BY <1>4, WorldInv DEF Tick, storeVars, VerifyInv, StoreSound
<1>5. CASE UNCHANGED vars
  BY <1>5, WorldInv DEF vars, VerifyInv, StoreSound
<1> QED
  BY <1>1, <1>2, <1>3, <1>4, <1>5 DEF Next

LEMMA VerifyInvariant == Spec => []VerifyInv
BY InitInv, NextInv, PTL DEF Spec

-----------------------------------------------------------------------------
(* A challenge is spent once and for good: the consume of                  *)
(* MemoryChallengeStore, whichever calls validated the same challenge      *)
(* before it and whatever authorization answers after it.                  *)
THEOREM SpentHolds == Spec => []SpentOnce
<1>1. VerifyInv => SpentOnce
  BY DEF VerifyInv
<1> QED
  BY <1>1, VerifyInvariant, PTL

(* A stream moves through every position once and in order: the verifier   *)
(* admits only the turn after the snapshot of StreamedVerifyOptions, and   *)
(* its callers advance only from that snapshot.                            *)
THEOREM StreamHolds == Spec => []StreamInOrder
<1>1. VerifyInv => StreamInOrder
  BY DEF VerifyInv, StreamSound
<1> QED
  BY <1>1, VerifyInvariant, PTL

(* The links of the chain behind a valid answer.                           *)
LEMMA AnsweredChain ==
  ASSUME VerifyInv, NEW c \in Callers, Answered(c)
  PROVE  /\ Len(ChainOf(c)) \in Nat /\ DOMAIN ChainOf(c) = 1..Len(ChainOf(c))
         /\ \A i \in DOMAIN ChainOf(c) : Linked(ChainOf(c), i)
         /\ ScopeOf(c) = EffectiveScope(ChainOf(c))
         /\ call[c].opts.required \in ScopeOf(c) \cup {None}
<1>1. WorkSound(call[c], tokens, now, revoked) /\ call[c].pres \in Presentations
  BY AnsweredSound DEF Answered
<1>2. call[c].opts.required \in ScopeOf(c) \cup {None}
  BY <1>1 DEF WorkSound, ScopeIn, ScopeOf, Answered
<1>3. CASE call[c].token = NoToken
  BY <1>1, <1>2, <1>3, AnsweredSound, PresentationAssumption DEF ChainOf, ScopeOf, CertSound, Answered
<1>4. CASE call[c].token # NoToken
  <2>1. call[c].token \in tokens
    BY <1>1, <1>4 DEF WorkSound, WorkStates
  <2> QED
    BY <1>2, <1>4, <2>1 DEF ChainOf, ScopeOf, VerifyInv, TokensSound, TokenSound
<1> QED
  BY <1>3, <1>4

LEMMA NarrowsFromInv == VerifyInv => AuthorityNarrows
<1> SUFFICES ASSUME VerifyInv, NEW c \in DOMAIN call, Answered(c),
                    NEW chain, chain = ChainOf(c)
             PROVE  /\ call[c].token = NoToken /\ call[c].opts.revocation = "provider" =>
                         \A i \in DOMAIN chain : chain[i].id \notin call[c].revokedBefore
                    /\ \A i \in DOMAIN chain : ScopeOf(c) \subseteq Expand(chain[i].scope)
                    /\ \A i \in DOMAIN chain : i < Len(chain) => chain[i].issuer = chain[i + 1].subject
                    /\ \A i \in 2..Len(chain) : "identity:delegate" \in chain[i].scope
                    /\ call[c].opts.required \in ScopeOf(c) \cup {None}
                    /\ \A s \in ScopeOf(c) \cap Sensitive : \A i \in DOMAIN chain : s \in chain[i].scope
  BY DEF AuthorityNarrows, NarrowedAtEveryLink, SensitiveIsExplicit
<1>1. c \in Callers
  BY DEF VerifyInv, CallsSound
<1>2. /\ Len(chain) \in Nat /\ DOMAIN chain = 1..Len(chain)
      /\ \A i \in DOMAIN chain : Linked(chain, i)
      /\ ScopeOf(c) = EffectiveScope(chain)
      /\ call[c].opts.required \in ScopeOf(c) \cup {None}
  BY <1>1, AnsweredChain
<1>3. call[c].token = NoToken /\ call[c].opts.revocation = "provider" =>
        \A i \in DOMAIN chain : chain[i].id \notin call[c].revokedBefore
  BY <1>1, AnsweredSound DEF ChainOf, CertSound, Answered
<1>4. \A i \in DOMAIN chain : ScopeOf(c) \subseteq Expand(chain[i].scope)
  BY <1>2, EffectiveInside
<1>5. \A i \in DOMAIN chain : i < Len(chain) => chain[i].issuer = chain[i + 1].subject
  BY <1>2 DEF Linked
<1>6. ASSUME NEW i \in 2..Len(chain) PROVE "identity:delegate" \in chain[i].scope
  <2>1. i - 1 \in DOMAIN chain /\ i - 1 < Len(chain) /\ (i - 1) + 1 = i
    BY <1>2
  <2> QED
    BY <1>2, <2>1 DEF Linked
<1>7. \A s \in ScopeOf(c) \cap Sensitive : \A i \in DOMAIN chain : s \in chain[i].scope
  BY <1>4, ExpandSensitive
<1> QED
  BY <1>2, <1>3, <1>4, <1>5, <1>6, <1>7

(* A valid answer carries no more authority than any certificate behind it *)
(* grants, from a chain that is linked, delegated and unrevoked when the   *)
(* call began; the same holds through a session token: the certificate     *)
(* loop of verify_bundle_inner and intersect_scopes, for chains of any     *)
(* length, any revocations between its steps and any options.              *)
THEOREM AuthorityHolds == Spec => []AuthorityNarrows
BY VerifyInvariant, NarrowsFromInv, PTL

(* A pending challenge goes away only by expiry or for a signed            *)
(* presentation under its own session: validate reads, and consume comes   *)
(* after the signature.                                                    *)
THEOREM BurnsHold == Spec => OnlySignedBurns
<1>1. VerifyInv /\ [Next]_vars => [OnlySignedBurnsStep]_vars
  <2> SUFFICES ASSUME VerifyInv, Next, NEW r \in records, r \notin records'
               PROVE  \/ r.expires < now
                      \/ \E c \in DOMAIN call :
                           /\ call[c].pc = "live" /\ call'[c].pc = "authorize"
                           /\ call[c].pres.challenge = r.value /\ call[c].pres.signed
                           /\ call[c].opts.session = r.session
    BY DEF OnlySignedBurnsStep
  <2>1. r.expires \in Nat /\ now \in Nat
    BY DEF VerifyInv, StoreSound
  <2>2. r \notin Unexpired(records, now) => r.expires < now
    BY <2>1 DEF Unexpired
  <2>3. CASE \E s \in Sessions : IssueChallenge(s)
    BY <2>2, <2>3 DEF IssueChallenge
  <2>4. ASSUME NEW c \in Callers, CallStep(c)
        PROVE  \/ r.expires < now
               \/ \E d \in DOMAIN call :
                    /\ call[d].pc = "live" /\ call'[d].pc = "authorize"
                    /\ call[d].pres.challenge = r.value /\ call[d].pres.signed
                    /\ call[d].opts.session = r.session
    <3>1. CASE \E p \in Presentations, o \in Options : BeginBundle(c, p, o)
      BY <2>2, <3>1 DEF BeginBundle, Begin
    <3>2. CASE \E p \in Presentations, o \in Options, token \in tokens :
                 token.agent = p.agent /\ BeginTurn(c, p, o, token)
      BY <2>2, <3>2 DEF BeginTurn, Begin
    <3>3. CASE Live(c)
      <4>1. call[c].at \in Nat /\ call[c].at <= now /\ WorkSound(call[c], tokens, now, revoked)
        BY <3>3, AtWork DEF Live
      <4>2. r \notin Unexpired(records, call[c].at) => r.expires < now
        BY <2>1, <4>1 DEF Unexpired
      <4>3. CASE r \in Unexpired(records, call[c].at)
        <5>1. LiveFailure(c) = "ok" /\ r \in Found(call[c].pres.challenge, call[c].opts.session, call[c].at)
          BY <3>3, <4>3 DEF Live, Consumed
        <5>2. call[c].pres.signed
          BY <5>1 DEF LiveFailure
        <5>3. call'[c].pc = "authorize"
          <6>1. call' = [call EXCEPT ![c] = [call[c] EXCEPT !.pc = "authorize"]]
            BY <3>3, <5>1 DEF Live
          <6> QED
            BY <4>1, <6>1 DEF VerifyInv, CallsSound, WorkSound, WorkStates
        <5>4. r.value = call[c].pres.challenge /\ r.session = call[c].opts.session
          BY <5>1 DEF Found
        <5>5. c \in DOMAIN call /\ call[c].pc = "live"
          BY <3>3 DEF Live, VerifyInv, CallsSound
        <5> QED
          BY <5>2, <5>3, <5>4, <5>5
      <4> QED
        BY <4>2, <4>3
    <3>4. CASE (\E p \in Presentations, token \in tokens : token.agent = p.agent /\ LegacyTurn(c, p, token))
               \/ CheckCert(c) \/ Authorize(c) \/ IssueToken(c) \/ Return(c)
      BY <3>4 DEF LegacyTurn, CheckCert, Authorize, AfterVerdict, IssueToken, Return, storeVars
    <3> QED
      BY <2>4, <3>1, <3>2, <3>3, <3>4 DEF CallStep
  <2>5. CASE (\E id \in Revocable : Revoke(id)) \/ Tick
    BY <2>5 DEF Revoke, Tick, storeVars
  <2> QED
    BY <2>3, <2>4, <2>5 DEF Next
<1> QED
  BY <1>1, VerifyInvariant, PTL DEF Spec, OnlySignedBurns
=============================================================================
