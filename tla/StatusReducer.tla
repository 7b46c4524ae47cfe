---------------------------- MODULE StatusReducer ----------------------------
(***************************************************************************)
(* The issuer status reducer (sdks/rust/src/v2/status.rs): how one         *)
(* issuer's retained status state absorbs signed revocation lists and      *)
(* pushes, is compacted, is carried over a status-key epoch, is validated, *)
(* and answers for one certificate.                                        *)
(*                                                                         *)
(* A signed object is a record: its type, the key that signed it, its      *)
(* sequence, its time, a list's next_update, its set of revoked            *)
(* certificates, and `sig`, which tells two signatures over one body       *)
(* apart.  A digest is what it digests: the whole object is its evidence   *)
(* digest, the object without `sig` its body digest, the set its revoked   *)
(* set digest.  SetDigest and ObjDigest give only the order the code       *)
(* compares digests by.  has_floor is floor > 0 and                        *)
(* has_preceding_checkpoint is preceding_floor > 0: validate_binding       *)
(* rejects every state in which they differ.                               *)
(***************************************************************************)
EXTENDS Integers, Sequences, FiniteSets, SequencesExt

CONSTANTS MaxListLifetime,   \* max_list_lifetime_seconds
          MaxStatusAge,      \* max_status_age_seconds
          ClockSkew,         \* clock_skew_seconds
          SetDigest(_),      \* the place of a set's digest among digests
          ObjDigest(_)       \* the place of an object's digest among digests

NoList == [type |-> "none"]

Body(o) == [o EXCEPT !.sig = 0]

(* A state with no evidence under the key of one epoch.                    *)
EmptyStatus(epoch, key) ==
  [status_key_epoch |-> epoch, status_key |-> key, retired |-> {},
   floor |-> 0, snapshot |-> NoList, accepted |-> {},
   preceding_floor |-> 0, preceding_accepted |-> {},
   deny_union |-> {}, observations |-> <<>>, max_observed |-> 0,
   fork_sequence |-> 0, reconciliation |-> FALSE, future_observed |-> FALSE]

-----------------------------------------------------------------------------
(* Freshness.                                                              *)

BeyondSkew(t, now) == t - now > ClockSkew

ListFresh(l, now) ==
  /\ MaxListLifetime # 0 /\ MaxStatusAge # 0
  /\ l.until - l.at <= MaxListLifetime
  /\ ~BeyondSkew(l.at, now)
  /\ now < l.until
  /\ now < l.at \/ now - l.at < MaxStatusAge

-----------------------------------------------------------------------------
(* Observations of the current epoch.                                      *)

Observation(s, o, now) ==
  [type |-> o.type, epoch |-> s.status_key_epoch, key |-> s.status_key, seq |-> o.seq,
   evidence |-> o, body |-> Body(o), set |-> o.revoked, revoked |-> o.revoked,
   future |-> BeyondSkew(o.at, now), fork |-> FALSE, gap |-> FALSE, accepted |-> FALSE]

(* The observations of the state's epoch for one type and sequence.        *)
At(s, type, seq) ==
  {o \in ToSet(s.observations) :
     o.epoch = s.status_key_epoch /\ o.type = type /\ o.seq = seq}

FindObservation(s, x) ==
  SelectLastInSeq(s.observations, LAMBDA o :
    o.epoch = s.status_key_epoch /\ o.type = x.type /\ o.seq = x.seq /\ o.evidence = x)

FindSetObservation(s, l) ==
  SelectLastInSeq(s.observations, LAMBDA o :
    o.epoch = s.status_key_epoch /\ o.type = "list" /\ o.seq = l.seq /\ o.set = l.revoked)

HasForkedSequence(s, seq) ==
  \E o \in At(s, "list", seq) \cup At(s, "push", seq) : o.fork

SequenceConflict(s, x) ==
  \E o \in At(s, x.type, x.seq) :
    IF x.type = "list" THEN o.set # x.revoked ELSE o.body # Body(x)

RequiredForSnapshot(s, seq) ==
  UNION {o.revoked : o \in {ob \in ToSet(s.observations) :
                              ob.epoch = s.status_key_epoch /\ ob.seq <= seq}}

SnapshotConflictsWithPush(s, l) ==
  \E p \in At(s, "push", l.seq) :
    IF s.floor > 0 /\ s.floor = l.seq - 1
      THEN l.revoked # s.accepted \cup p.revoked
      ELSE ~(p.revoked \subseteq l.revoked)

(* Faulty variant: the accepted snapshot is not compared with the push.    *)
OmittingObserved(s, p) ==
  {o.seq : o \in {ob \in ToSet(s.observations) :
     /\ s.reconciliation
     /\ ob.epoch = s.status_key_epoch /\ ob.type = "list"
     /\ ob.seq > s.floor /\ ob.seq >= p.seq
     /\ ob.fork \/ ob.gap \/ ob.future
     /\ ~(p.revoked \subseteq ob.revoked)}}

(* The sequences of the full sets that should hold the push's revocations  *)
(* and do not.                                                             *)
OmittingSnapshots(s, p) ==
  LET own == {x \in {s.snapshot} \ {NoList} :
                x.seq >= p.seq /\ ~(p.revoked \subseteq x.revoked)}
      seen == {o \in ToSet(s.observations) :
                 /\ s.reconciliation
                 /\ o.epoch = s.status_key_epoch /\ o.type = "list"
                 /\ o.seq > s.floor /\ o.seq >= p.seq
                 /\ o.fork \/ o.gap \/ o.future
                 /\ ~(p.revoked \subseteq o.revoked)}
  IN  {x.seq : x \in own} \cup {o.seq : o \in seen}

MarkFork(s, seq) ==
  [s EXCEPT !.reconciliation = TRUE,
            !.fork_sequence = Max({s.fork_sequence, s.floor, seq})]

HeartbeatPreferred(l, accepted) ==
  IF l.at # accepted.at THEN l.at > accepted.at
  ELSE ObjDigest(l) < ObjDigest(accepted)

-----------------------------------------------------------------------------
(* Compaction.  Observations are sorted (stably), an observation that need *)
(* not be retained keeps only the revocations no earlier one witnesses,    *)
(* and observations with one semantic key are merged.                      *)

TypeCode(o) == IF o.type = "list" THEN 3 ELSE 5

LexBefore(a, b) ==
  \E i \in DOMAIN a : a[i] < b[i] /\ \A j \in 1..(i - 1) : a[j] = b[j]

OrderKey(o) ==
  <<o.epoch, o.seq, TypeCode(o), SetDigest(o.set), ObjDigest(o.body)>>

CompactionBefore(a, b) == LexBefore(OrderKey(a), OrderKey(b))

Insert(sorted, o) ==
  LET before == {i \in DOMAIN sorted : ~CompactionBefore(o, sorted[i])}
  IN  InsertAt(sorted, Cardinality(before) + 1, o)

Sorted(obs) ==
  LET sorted[n \in 0..Len(obs)] ==
        IF n = 0 THEN <<>> ELSE Insert(sorted[n - 1], obs[n])
  IN  sorted[Len(obs)]

SemanticKey(o) ==
  <<o.epoch, o.type, o.seq, IF o.type = "list" THEN o.set ELSE o.body, o.future, o.fork>>

MustRetain(s, o) ==
  /\ o.epoch = s.status_key_epoch
  /\ \/ /\ s.snapshot # NoList /\ o.type = "push" /\ o.accepted
        /\ o.seq > s.snapshot.seq /\ o.seq <= s.floor
     \/ /\ s.reconciliation
        /\ o.seq > s.floor \/ o.fork \/ o.gap \/ o.future

IsAcceptedBase(s, o) ==
  /\ s.snapshot # NoList
  /\ o.epoch = s.status_key_epoch /\ o.type = "list"
  /\ o.seq = s.snapshot.seq /\ o.evidence = s.snapshot

Merge(s, prior, o) ==
  LET accepted == prior.accepted \/ o.accepted
      base     == IsAcceptedBase(s, o)
  IN  [prior EXCEPT
         !.accepted = accepted \/ base,
         !.fork     = @ \/ o.fork,
         !.gap      = (@ \/ o.gap) /\ ~(base /\ ~s.reconciliation),
         !.future   = (@ \/ o.future) /\ ~accepted /\ ~base,
         !.revoked  = @ \cup o.revoked,
         !.evidence = IF base THEN o.evidence ELSE @]

CompactStep(s, acc, o) ==
  LET ob == IF IsAcceptedBase(s, o) \/ MustRetain(s, o)
              THEN o ELSE [o EXCEPT !.revoked = @ \ acc.witnessed]
      i  == SelectInSeq(acc.keys, LAMBDA k : k = SemanticKey(ob))
      w  == acc.witnessed \cup o.revoked
  IN  IF i # 0
        THEN [acc EXCEPT !.retained[i] = Merge(s, @, ob), !.witnessed = w]
        ELSE [retained |-> Append(acc.retained, ob),
              keys |-> Append(acc.keys, SemanticKey(ob)), witnessed |-> w]

ClearBaseGap(s, obs) ==
  LET i == SelectInSeq(obs, LAMBDA o : IsAcceptedBase(s, o) /\ o.accepted /\ ~o.future)
  IN  IF s.reconciliation \/ i = 0 THEN obs ELSE [obs EXCEPT ![i].gap = FALSE]

NothingRetained == [retained |-> <<>>, keys |-> <<>>, witnessed |-> {}]

Retained(s, obs) ==
  LET folded[n \in 0..Len(obs)] ==
        IF n = 0 THEN NothingRetained ELSE CompactStep(s, folded[n - 1], obs[n])
  IN  folded[Len(obs)].retained

Compact(s) ==
  [s EXCEPT !.observations = ClearBaseGap(s, Retained(s, Sorted(@)))]

-----------------------------------------------------------------------------
(* Lists.  ListIgnored: the early returns that leave the state as it is.   *)

ListIgnored(s, l, now) ==
  LET dup    == FindObservation(s, l)
      same   == FindSetObservation(s, l)
      usable == ListFresh(l, now) /\ ~BeyondSkew(l.at, now)
      late   == l.seq < s.floor \/ HasForkedSequence(s, l.seq)
      NewBase(p) == /\ ~p.accepted /\ s.floor > 0 /\ l.seq = s.floor
                    /\ s.snapshot.seq < s.floor /\ usable
      Refreshes(p) == /\ p.accepted /\ s.floor > 0 /\ l.seq = s.floor
                      /\ HeartbeatPreferred(l, s.snapshot)
  IN  IF dup # 0
        THEN LET p == s.observations[dup]
             IN  p.accepted \/ ~(p.future \/ p.gap) \/ ~usable \/ late
        ELSE /\ same # 0
             /\ LET p == s.observations[same]
                IN  \/ p.fork
                    \/ IF (p.future \/ p.gap) /\ usable
                         THEN late
                         ELSE ~(NewBase(p) \/ Refreshes(p))

(* A new object adds its revocations and its sequence whatever else is     *)
(* decided about it.                                                       *)
Noted(s, o, now) ==
  LET s1 == IF FindObservation(s, o) # 0 THEN s
            ELSE [s EXCEPT !.deny_union = @ \cup o.revoked,
                           !.max_observed = Max({@, o.seq})]
  IN  IF BeyondSkew(o.at, now)
        THEN [s1 EXCEPT !.future_observed = TRUE, !.reconciliation = TRUE] ELSE s1

ListForks(s, l) ==
  \/ SequenceConflict(s, l)
  \/ s.floor > 0 /\ l.seq = s.floor /\ l.revoked # s.accepted
  \/ s.floor > 0 /\ l.seq < s.floor /\ ~(l.revoked \subseteq s.accepted)
  \/ ~(RequiredForSnapshot(s, l.seq) \subseteq l.revoked)
  \/ SnapshotConflictsWithPush(s, l)

(* The list becomes the accepted snapshot, or, at the floor, refreshes it. *)
AcceptSnapshot(s, l) ==
  IF s.floor > 0 /\ l.seq = s.floor
    THEN IF s.snapshot.seq < l.seq \/ HeartbeatPreferred(l, s.snapshot)
           THEN [s EXCEPT !.snapshot = l] ELSE s
    ELSE LET next == s.floor > 0 /\ l.seq = s.floor + 1
         IN  [s EXCEPT !.preceding_floor = IF next THEN s.floor ELSE 0,
                       !.preceding_accepted = IF next THEN s.accepted ELSE {},
                       !.snapshot = l, !.accepted = l.revoked, !.floor = l.seq]

Reconcile(s, l) ==
  IF /\ s.reconciliation
     /\ s.fork_sequence = 0 \/ l.seq > s.fork_sequence
     /\ l.seq >= s.max_observed
     /\ s.deny_union \subseteq l.revoked
    THEN [s EXCEPT !.reconciliation = FALSE, !.future_observed = FALSE,
                   !.fork_sequence = 0]
    ELSE s

Record(s, o) == [s EXCEPT !.observations = Append(@, o)]

(* The list was noted and, when it forks, marked (s1); obs is what is      *)
(* recorded of it, unless it is there already.                             *)
DecideList(s, s1, l, obs, dup, fresh) ==
  LET Once(st, o) == IF dup THEN st ELSE Record(st, o)
      Gap == Once([s1 EXCEPT !.reconciliation = TRUE], [obs EXCEPT !.gap = TRUE])
  IN  IF ~fresh
        THEN IF s.floor > 0 /\ l.seq <= s.floor THEN Once(s1, obs) ELSE Gap
      ELSE IF obs.fork THEN Once(s1, obs)
      ELSE IF s.floor = 0 /\ (~(s1.deny_union \subseteq l.revoked) \/ l.seq < s1.max_observed)
        THEN Gap
      ELSE IF l.seq < s.floor THEN Once(s1, obs)
      ELSE Record(Reconcile(AcceptSnapshot(s1, l), l), [obs EXCEPT !.accepted = TRUE])

ReduceForked(s, l, now, forked, noted) ==
  DecideList(s, IF forked THEN MarkFork(noted, l.seq) ELSE noted, l,
             [Observation(s, l, now) EXCEPT !.fork = forked],
             FindObservation(s, l) # 0, ListFresh(l, now))

ReduceList(s, l, now) == ReduceForked(s, l, now, ListForks(s, l), Noted(s, l, now))

ApplyList(s, l, now) ==
  Compact(IF ListIgnored(s, l, now) THEN s ELSE ReduceList(s, l, now))

-----------------------------------------------------------------------------
(* Pushes.                                                                 *)

PushIgnored(s, p) == \E o \in At(s, "push", p.seq) : o.evidence = p \/ o.body = Body(p)

(* At or below the floor a push must already be in the accepted set.       *)
PushContradictsFloor(s, p) ==
  \/ ~(p.revoked \subseteq s.accepted)
  \/ /\ p.seq = s.floor /\ s.preceding_floor > 0 /\ s.preceding_floor = p.seq - 1
     /\ s.accepted # s.preceding_accepted \cup p.revoked

(* The push was noted and its conflicts marked (s2); obs is what is        *)
(* recorded of it.                                                         *)
DecidePush(s, s2, p, obs) ==
  IF s.floor > 0 /\ p.seq <= s.floor
    THEN IF PushContradictsFloor(s, p)
           THEN Record(MarkFork(s2, p.seq), [obs EXCEPT !.fork = TRUE])
         ELSE IF p.seq < s.floor \/ ~obs.fork THEN Record(s2, obs)
         ELSE Record([s2 EXCEPT !.reconciliation = TRUE], [obs EXCEPT !.gap = TRUE])
  ELSE IF s.floor = 0 \/ p.seq # s.floor + 1 \/ s2.reconciliation
    THEN Record([s2 EXCEPT !.reconciliation = TRUE], [obs EXCEPT !.gap = ~obs.fork])
  ELSE Record([s2 EXCEPT !.accepted = @ \cup p.revoked, !.floor = p.seq,
                         !.preceding_floor = 0, !.preceding_accepted = {}],
              [obs EXCEPT !.accepted = TRUE])

MarkOmissions(s, s1, p, now, conflict, omit) ==
  DecidePush(s, IF omit = {} THEN s1 ELSE MarkFork(s1, Max(omit)), p,
             [Observation(s, p, now) EXCEPT !.fork = conflict \/ omit # {}])

MarkConflict(s, s1, p, now, conflict) ==
  MarkOmissions(s, s1, p, now, conflict, OmittingSnapshots(s1, p))

ReducePush(s, p, now) ==
  LET conflict == SequenceConflict(s, p)
      noted    == Noted(s, p, now)
  IN  MarkConflict(s, IF conflict THEN MarkFork(noted, p.seq) ELSE noted, p, now, conflict)

ApplyPush(s, p, now) ==
  Compact(IF PushIgnored(s, p) THEN s ELSE ReducePush(s, p, now))

Apply(s, o, now) == IF o.type = "list" THEN ApplyList(s, o, now) ELSE ApplyPush(s, o, now)

(* Faulty variant: the denials are dropped with the old key.               *)
TransitionEpochForgets(s, epoch, key) ==
  [EmptyStatus(epoch, key) EXCEPT !.retired = s.retired \cup {s.status_key}]

(* A status-key epoch transition keeps the denials and the evidence and    *)
(* makes the accepted state of the old epoch unusable.                     *)
TransitionEpoch(s, epoch, key) ==
  [EmptyStatus(epoch, key) EXCEPT !.retired = s.retired \cup {s.status_key},
                                  !.deny_union = s.deny_union,
                                  !.observations = s.observations]

-----------------------------------------------------------------------------
(* Validation.  validate_accepted_state: the accepted set follows from the *)
(* retained evidence, and the deny union from all of it.                   *)

ValidBinding(s) ==
  /\ s.preceding_floor = 0 => s.preceding_accepted = {}
  /\ s.floor > 0 => s.snapshot # NoList /\ s.snapshot.seq \in 1..s.floor
  /\ s.floor = 0 => s.snapshot = NoList /\ s.accepted = {}
  /\ s.status_key \notin s.retired

AcceptedPushes(s) ==
  {o \in ToSet(s.observations) :
     /\ s.snapshot # NoList
     /\ o.epoch = s.status_key_epoch /\ o.type = "push" /\ o.accepted
     /\ o.seq > s.snapshot.seq /\ o.seq <= s.floor}

(* The accepted pushes in sequence follow the snapshot without a gap or a  *)
(* repetition, up to the floor.                                            *)
PushesReachFloor(s) ==
  /\ {p.seq : p \in AcceptedPushes(s)} = (s.snapshot.seq + 1)..s.floor
  /\ \A i, j \in DOMAIN s.observations :
       /\ s.observations[i] \in AcceptedPushes(s) /\ s.observations[j] \in AcceptedPushes(s)
       /\ s.observations[i].seq = s.observations[j].seq
       => i = j

ValidAcceptedState(s) ==
  LET obs == ToSet(s.observations)
  IN  /\ \A o \in obs : /\ o.epoch = s.status_key_epoch => o.seq <= s.max_observed
                        /\ o.revoked \subseteq s.deny_union
      /\ s.deny_union \subseteq UNION {o.revoked : o \in obs}
      /\ s.fork_sequence > 0 =>
           s.reconciliation /\ \E o \in obs : o.epoch = s.status_key_epoch /\ o.fork
      /\ s.floor <= s.max_observed
      /\ s.floor > 0 =>
           /\ \E o \in obs : IsAcceptedBase(s, o) /\ o.accepted /\ ~o.fork /\ ~o.future
           /\ PushesReachFloor(s)
           /\ s.accepted = s.snapshot.revoked \cup UNION {p.revoked : p \in AcceptedPushes(s)}

-----------------------------------------------------------------------------
(* The answer for one certificate.  An evidence entry names the key, the   *)
(* sequence, the type and the digest of an object.                         *)

Entry(key, o) == [key |-> key, seq |-> o.seq, type |-> o.type, digest |-> o.evidence]

AcceptedEvidence(s) ==
  {Entry(o.key, o) : o \in AcceptedPushes(s)} \cup
  IF s.snapshot = NoList THEN {}
  ELSE {[key |-> s.status_key, seq |-> s.snapshot.seq, type |-> "list",
         digest |-> s.snapshot]}

UnavailableEvidence(s) ==
  AcceptedEvidence(s) \cup
  {Entry(o.key, o) : o \in {ob \in ToSet(s.observations) :
     /\ ob.epoch = s.status_key_epoch
     /\ ob.seq > s.floor \/ ob.fork \/ ob.gap \/ ob.future
          \/ (s.reconciliation /\ ~ob.accepted)}}

Usable(s) ==
  /\ s.floor > 0
  /\ MaxListLifetime # 0 /\ MaxStatusAge # 0
  /\ ~s.future_observed /\ ~s.reconciliation
  /\ s.floor >= s.max_observed
  /\ s.deny_union \subseteq s.accepted

Answered(status, reason, evidence, until) ==
  [status |-> status, reason |-> reason, evidence |-> evidence, fresh_until |-> until]

NoAnswer == Answered("indeterminate", "unavailable", {}, 0)

StatusForCert(s, cert, now) ==
  IF ~(ValidBinding(s) /\ ValidAcceptedState(s)) THEN NoAnswer
  ELSE IF cert \in s.deny_union
    THEN Answered("revoked", "none",
           AcceptedEvidence(s) \cup
             {Entry(o.key, o) : o \in {ob \in ToSet(s.observations) : cert \in ob.revoked}}, 0)
  ELSE IF ~Usable(s)
    THEN Answered("indeterminate", "unavailable", UnavailableEvidence(s), 0)
  ELSE IF ~ListFresh(s.snapshot, now)
    THEN Answered("indeterminate", "stale", AcceptedEvidence(s), 0)
  ELSE Answered("not_revoked", "none", AcceptedEvidence(s),
                Min({s.snapshot.until, s.snapshot.at + MaxStatusAge}))
=============================================================================
