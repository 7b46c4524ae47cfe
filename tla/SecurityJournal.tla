--------------------------- MODULE SecurityJournal ---------------------------
(***************************************************************************)
(* The anchored security journal (sdks/rust/src/v2/journal.rs,             *)
(* reference/journal.rs) and the status stage of the live verifier that    *)
(* writes it (sdks/rust/src/v2/status_provenance.rs).                      *)
(*                                                                         *)
(* Every writer loads the anchored record, computes the next one and       *)
(* commits it by compare-and-swap against the record it loaded, so any     *)
(* number of other commits may lie between the two steps.  An operator     *)
(* call (record_security_key_role_v2, configure_status_key_epoch_v2) that  *)
(* meets a conflict fails; a status stage reloads and reapplies its batch  *)
(* once more.  A record is compared by its generation and digest, here by  *)
(* its content.  The chained predecessor digest is left out: within one    *)
(* anchored store the generation determines it.                            *)
(*                                                                         *)
(* A hybrid key is the pair of its components.                             *)
(***************************************************************************)
EXTENDS StatusReducer

CONSTANTS Issuers,        \* issuer ids, numbers (the stage visits them in order)
          Keys,           \* hybrid keys
          IssuerKeys,     \* issuer -> its own key
          ChainKeys,      \* the keys of the proof under evaluation
          Roles,          \* key roles other than "status"
          Checks,         \* the CertificateRefs of the proof: [issuer, cert]
          Operators,      \* concurrent operator calls
          Stages,         \* concurrent status stages
          Objects,        \* status objects that exist from the start
          MaxBatch,       \* bound: objects a provider returns
          MaxGeneration,  \* bound: MAX_SAFE, the last generation
          MaxEpoch,       \* bound: status-key epochs of an issuer
          MaxTime         \* bound: the clock

\* a certificate reference of the proof names the issuer of the certificate
ASSUME ChecksAssumption == \A c \in Checks : c.issuer \in Issuers

VARIABLES anchored,       \* the anchored record
          now,            \* the clock of the callers
          published,      \* status objects a provider can return
          operator,       \* each operator call
          stage,          \* each status stage
          absorbed,       \* issuer -> revocations in the batches committed
          refused         \* the validation refused a computed record

journalVars == <<anchored, now, published, operator, stage, absorbed, refused>>

Genesis == [generation |-> 0, status |-> <<>>, roles |-> {}, keys |-> {}]

-----------------------------------------------------------------------------
(* Key histories.                                                          *)

Overlap(k1, k2) == k1[1] = k2[1] \/ k1[2] = k2[2]

Rejected == [Genesis EXCEPT !.generation = -1]

(* register_any_key_role: repeating an assignment is idempotent, any other *)
(* use of a component is refused.                                          *)
RegisterRole(j, role, key) ==
  LET binding == [key |-> key, role |-> role]
  IN  IF binding \in j.roles THEN j
      ELSE IF \E b \in j.roles : Overlap(b.key, key) THEN Rejected
      ELSE [j EXCEPT !.roles = @ \cup {binding}]

HighestEpoch(j, i) == Max({0} \cup {b.epoch : b \in {k \in j.keys : k.issuer = i}})

RegisterStatusKey(j, i, epoch, key) ==
  LET binding == [issuer |-> i, epoch |-> epoch, key |-> key]
  IN  IF binding \in j.keys THEN j
      ELSE IF \/ \E b \in j.keys : b.issuer = i /\ b.epoch = epoch
              \/ \E b \in j.keys : Overlap(b.key, key)
              \/ epoch # HighestEpoch(j, i) + 1
        THEN Rejected
      ELSE LET r == RegisterRole(j, "status", key)
           IN  IF r = Rejected THEN Rejected ELSE [r EXCEPT !.keys = @ \cup {binding}]

(* configure_status_key_epoch_v2.                                          *)
ConfigureEpoch(j, i, epoch, key) ==
  LET r == RegisterStatusKey(j, i, epoch, key)
  IN  IF r = Rejected THEN Rejected
      ELSE IF i \in DOMAIN r.status
        THEN LET s == r.status[i]
             IN  IF epoch = s.status_key_epoch
                   THEN IF s.status_key = key THEN r ELSE Rejected
                 ELSE IF \/ epoch # s.status_key_epoch + 1
                         \/ ~ValidBinding(s) \/ ~ValidAcceptedState(s)
                         \/ key \in s.retired \cup {s.status_key}
                   THEN Rejected
                 ELSE [r EXCEPT !.status[i] = TransitionEpoch(s, epoch, key)]
      ELSE IF epoch # 1 THEN Rejected
      ELSE [r EXCEPT !.status = @ @@ (i :> EmptyStatus(epoch, key))]

(* require_journal_status_key_v2.                                          *)
HasStatusKey(j, i, cfg) ==
  /\ [issuer |-> i, epoch |-> cfg.epoch, key |-> cfg.key] \in j.keys
  /\ i \in DOMAIN j.status
  /\ j.status[i].status_key_epoch = cfg.epoch /\ j.status[i].status_key = cfg.key

RoleSeparated(j, i, cfg) ==
  /\ HasStatusKey(j, i, cfg)
  /\ [key |-> cfg.key, role |-> "status"] \in j.roles
  /\ \A b \in j.roles \ {[key |-> cfg.key, role |-> "status"]} : ~Overlap(b.key, cfg.key)
  /\ \A k \in ChainKeys, b \in j.roles : b.role = "status" => ~Overlap(b.key, k)

-----------------------------------------------------------------------------
(* Validation of a record and of a transition.                             *)

InCompactionOrder(obs) ==
  \A n \in 1..(Len(obs) - 1) : ~CompactionBefore(obs[n + 1], obs[n])

ValidIssuer(j, i) ==
  LET s   == j.status[i]
      obs == ToSet(s.observations)
      own == {b \in j.keys : b.issuer = i}
  IN  /\ ValidBinding(s) /\ ValidAcceptedState(s)
      /\ [issuer |-> i, epoch |-> s.status_key_epoch, key |-> s.status_key] \in j.keys
      /\ \A o \in obs : [issuer |-> i, epoch |-> o.epoch, key |-> o.key] \in j.keys
      /\ s.max_observed =
           Max({0} \cup {o.seq : o \in {ob \in obs : ob.epoch = s.status_key_epoch}})
      /\ s.retired = {b.key : b \in {k \in own : k.epoch < s.status_key_epoch}}
      /\ s.status_key_epoch = HighestEpoch(j, i)
      /\ InCompactionOrder(s.observations)

ValidJournal(j) ==
  /\ j.generation = 0 => j = Genesis
  /\ \A i \in DOMAIN j.status : ValidIssuer(j, i)
  /\ \A b \in j.keys : b.issuer \in DOMAIN j.status
  /\ \A a, b \in j.roles : a # b => ~Overlap(a.key, b.key)
  /\ \A b \in j.keys :
       /\ [key |-> b.key, role |-> "status"] \in j.roles
       /\ \A a \in j.keys \ {b} :
            ~Overlap(a.key, b.key) /\ <<a.issuer, a.epoch>> # <<b.issuer, b.epoch>>
       /\ b.epoch > 1 => \E a \in j.keys : a.issuer = b.issuer /\ a.epoch = b.epoch - 1

(* An old observation is kept as it was, may be dropped, or lives on in    *)
(* the observation with its semantic key.                                  *)
EvidenceKept(next, old) ==
  LET i == SelectLastInSeq(next.observations,
                           LAMBDA o : SemanticKey(o) = SemanticKey(old))
  IN  \/ old \in ToSet(next.observations)
      \/ ~MustRetain(next, old)
      \/ /\ i # 0
         /\ LET c == next.observations[i]
            IN  /\ old.revoked \subseteq c.revoked
                /\ old.fork => c.fork
                /\ old.gap /\ next.reconciliation => c.gap
                /\ old.future /\ next.future_observed => c.future

CaughtUp(s, next) ==
  /\ s.deny_union \subseteq next.accepted
  /\ \E o \in ToSet(next.observations) :
       /\ o.epoch = s.status_key_epoch /\ o.type = "list" /\ o.accepted
       /\ o.seq >= s.max_observed
       /\ s.fork_sequence = 0 \/ o.seq > s.fork_sequence
       /\ s.deny_union \subseteq o.revoked

FailClosedReset(s, next) ==
  /\ next.status_key \notin s.retired \cup {s.status_key}
  /\ [next EXCEPT !.observations = <<>>] =
       [EmptyStatus(next.status_key_epoch, next.status_key)
          EXCEPT !.retired = s.retired \cup {s.status_key}, !.deny_union = next.deny_union]
  /\ \A o \in ToSet(next.observations) : o.epoch < next.status_key_epoch

ValidEvolution(s, next) ==
  /\ s.deny_union \subseteq next.deny_union
  /\ \A o \in ToSet(s.observations) : EvidenceKept(next, o)
  /\ next.status_key_epoch >= s.status_key_epoch
  /\ next.status_key_epoch > s.status_key_epoch => FailClosedReset(s, next)
  /\ next.status_key_epoch = s.status_key_epoch =>
       /\ next.floor >= s.floor
       /\ next.max_observed >= s.max_observed
       /\ s.reconciliation /\ ~next.reconciliation => CaughtUp(s, next)

ValidTransition(cur, next) ==
  /\ ValidJournal(cur) /\ ValidJournal(next)
  /\ next.generation = cur.generation + 1
  /\ cur.roles \subseteq next.roles /\ cur.keys \subseteq next.keys
  /\ \A i \in DOMAIN cur.status :
       i \in DOMAIN next.status /\ ValidEvolution(cur.status[i], next.status[i])

-----------------------------------------------------------------------------
(* The canonical snapshot (journal_snapshot.rs): what the store keeps and  *)
(* what every load imports again.  An absent member is null, issuers are   *)
(* sorted, observations keep their order, and the digest is of the whole.  *)

Null == <<>>

SnapshotIssuer(i, s) ==
  [s EXCEPT !.floor    = IF @ > 0 THEN <<@>> ELSE Null,
            !.snapshot = IF s.floor > 0 THEN <<@>> ELSE Null,
            !.preceding_floor = IF @ > 0 THEN <<@, s.preceding_accepted>> ELSE Null,
            !.preceding_accepted = Null] @@ [issuer_id |-> i]

Snapshot(j) ==
  LET ids == SetToSortSeq(DOMAIN j.status, <)
  IN  [generation |-> j.generation, key_role_history |-> j.roles, status_key_history |-> j.keys,
       issuers |-> [n \in DOMAIN ids |-> SnapshotIssuer(ids[n], j.status[ids[n]])]]

JournalHead(j) == [generation |-> j.generation, digest |-> Snapshot(j)]

ImportIssuer(p) ==
  [f \in DOMAIN p \ {"issuer_id"} |->
     CASE f = "floor"    -> IF p.floor = Null THEN 0 ELSE p.floor[1]
       [] f = "snapshot" -> IF p.snapshot = Null THEN NoList ELSE p.snapshot[1]
       [] f = "preceding_floor" ->
            IF p.preceding_floor = Null THEN 0 ELSE p.preceding_floor[1]
       [] f = "preceding_accepted" ->
            IF p.preceding_floor = Null THEN {} ELSE p.preceding_floor[2]
       [] OTHER -> p[f]]

Decoded(snapshot) ==
  LET Nth(i) == CHOOSE n \in DOMAIN snapshot.issuers : snapshot.issuers[n].issuer_id = i
      ids == {snapshot.issuers[n].issuer_id : n \in DOMAIN snapshot.issuers}
  IN  [generation |-> snapshot.generation, roles |-> snapshot.key_role_history,
       keys |-> snapshot.status_key_history,
       status |-> [i \in ids |-> ImportIssuer(snapshot.issuers[Nth(i)])]]

Admitted(j, snapshot, head) ==
  IF /\ \A i \in DOMAIN j.status : InCompactionOrder(j.status[i].observations)
     /\ Snapshot(j) = snapshot /\ head = JournalHead(j)
     /\ ValidJournal(j)
    THEN j ELSE Rejected

Import(snapshot, head) == Admitted(Decoded(snapshot), snapshot, head)

(* load_anchored_security_journal_v2 over the reference store's load.      *)
Load == Import(Snapshot(anchored), JournalHead(anchored))

(* new_v2_status_publisher: the issuer's key is recorded under a role      *)
(* other than status, and the status key is the issuer's current one and   *)
(* shares no component with another recorded key.                          *)
MayPublish(j, i, key) ==
  LET other == {b \in j.roles : b.role # "status"}
  IN  /\ \E b \in other : b.key = IssuerKeys[i]
      /\ \A b \in other : ~Overlap(b.key, key)
      /\ HighestEpoch(j, i) > 0
      /\ [issuer |-> i, epoch |-> HighestEpoch(j, i), key |-> key] \in j.keys

-----------------------------------------------------------------------------
(* commit_security_journal_transition_v2.  A record with the content of    *)
(* the loaded one commits nothing and asks the store nothing.              *)

Pruned(j) == [j EXCEPT !.status = [i \in DOMAIN @ |-> Compact(@[i])]]

CommitFails(result, current) == [result |-> result, record |-> current]

Proposed(current, j) == [Pruned(j) EXCEPT !.generation = current.generation + 1]

(* What the journal refuses before it asks the store, which is up or not.  *)
CommitBlocked(current, next, up) ==
  IF next = [current EXCEPT !.generation = @ + 1] THEN "ok"
  ELSE IF current.generation >= MaxGeneration THEN "failed"
  ELSE IF ~ValidTransition(current, next) THEN "invalid"
  ELSE IF ~up THEN "failed" ELSE "none"

(* Faulty variant: the store does not compare the record it replaces.      *)
SwapBlind(current, next, blocked) ==
  IF blocked # "none" THEN CommitFails(blocked, current) ELSE [result |-> "ok", record |-> next]

(* The store's compare-and-swap.                                           *)
Swap(current, next, blocked) ==
  IF blocked # "none" THEN CommitFails(blocked, current)
  ELSE IF anchored # current THEN CommitFails("conflict", current)
  ELSE [result |-> "ok", record |-> next]

CommitRecord(current, next, up) == Swap(current, next, CommitBlocked(current, next, up))

Commit(current, j, up) == CommitRecord(current, Proposed(current, j), up)

(* The anchored record after a commit against `current` ended with `out`.  *)
Anchored(current, out) == IF out.record = current THEN anchored ELSE out.record

-----------------------------------------------------------------------------
(* Operator calls: load, then commit against the loaded record.            *)

OpArgs == [op : {"role"}, role : Roles, key : Keys] \cup
          [op : {"epoch"}, issuer : Issuers, epoch : 1..MaxEpoch, key : Keys]

Updated(j, a) == IF a.op = "role" THEN RegisterRole(j, a.role, a.key)
                 ELSE ConfigureEpoch(j, a.issuer, a.epoch, a.key)

IdleOperator == [pc |-> "idle"]

LoadForOperator(c, a) ==
  /\ operator[c].pc = "idle"
  /\ \E j \in {Load} \ {Rejected} :
       /\ Updated(j, a) # Rejected
       /\ operator' = [operator EXCEPT ![c] = [pc |-> "loaded", args |-> a, current |-> j]]
  /\ UNCHANGED <<anchored, now, published, stage, absorbed, refused>>

CommitForOperator(c, up) ==
  LET o == operator[c]
  IN  /\ o.pc = "loaded"
      /\ \E out \in {Commit(o.current, Updated(o.current, o.args), up)} :
           /\ anchored' = Anchored(o.current, out)
           /\ refused' = (refused \/ out.result = "invalid")
      /\ operator' = [operator EXCEPT ![c] = IdleOperator]
      /\ UNCHANGED <<now, published, stage, absorbed>>

-----------------------------------------------------------------------------
(* The status stage (run_v2_status_stage).  It visits the issuers of the   *)
(* proof in order; what fails for one issuer leaves its references         *)
(* unavailable and goes on with the next.                                  *)

CheckIssuers == {c.issuer : c \in Checks}

NoStage == [pc |-> "idle"]

NewStage(configs) ==
  [pc |-> "load", at |-> now, todo |-> CheckIssuers, configs |-> configs,
   current |-> Genesis, batch |-> {}, attempt |-> 0,
   results |-> [c \in Checks |-> NoAnswer], known |-> {},
   before |-> [i \in Issuers |-> IF i \in DOMAIN anchored.status
                                  THEN anchored.status[i].deny_union ELSE {}],
   assessment |-> "none"]

Issuer(e) == Min(stage[e].todo)
Config(e) == stage[e].configs[Issuer(e)]

(* The stage is done with its issuer.                                      *)
NextIssuer(st) ==
  LET rest == st.todo \ {Min(st.todo)}
  IN  [st EXCEPT !.todo = rest, !.pc = IF rest = {} THEN "aggregate" ELSE "load",
                 !.current = Genesis, !.batch = {}, !.attempt = 0]

StageBegin(e) ==
  /\ stage[e].pc \in {"idle", "done"}
  /\ \E configs \in [CheckIssuers -> [epoch : 1..MaxEpoch, key : Keys]] :
       /\ \E i \in CheckIssuers : HasStatusKey(anchored, i, configs[i])
       /\ stage' = [stage EXCEPT ![e] = NewStage(configs)]
  /\ UNCHANGED <<anchored, now, published, operator, absorbed, refused>>

(* Steps 1 and 2, and, with attempt > 0, the reload after a conflict.      *)
StageLoad(e, up) ==
  LET st == stage[e]
  IN  /\ st.pc \in {"load", "reload"}
      /\ \E j \in {Load} :
           stage' = [stage EXCEPT ![e] =
             IF up /\ j # Rejected /\ RoleSeparated(j, Issuer(e), Config(e))
               THEN [st EXCEPT !.current = j,
                               !.pc = IF st.pc = "load" THEN "provider" ELSE "commit"]
               ELSE NextIssuer(st)]
      /\ UNCHANGED <<anchored, now, published, operator, absorbed, refused>>

(* Steps 3 and 4: one object that does not verify rejects the batch.       *)
StageProvider(e, batch, up) ==
  LET st == stage[e]
  IN  /\ st.pc = "provider"
      /\ stage' = [stage EXCEPT ![e] =
           IF up /\ \A o \in batch : o.key = Config(e).key /\ o.issuer = Issuer(e)
             THEN [st EXCEPT !.batch = batch, !.pc = "commit"] ELSE NextIssuer(st)]
      /\ UNCHANGED <<anchored, now, published, operator, absorbed, refused>>

(* Batches apply in order of sequence, type code and evidence digest.      *)
InOrder(batch) ==
  SetToSortSeq(batch, LAMBDA a, b :
    LexBefore(<<a.seq, TypeCode(a), ObjDigest(a)>>, <<b.seq, TypeCode(b), ObjDigest(b)>>))

ApplyBatch(s, batch, t) == FoldLeft(LAMBDA st, o : Apply(st, o, t), s, InOrder(batch))

WithBatch(j, i, batch, t) == [j EXCEPT !.status[i] = ApplyBatch(@, batch, t)]

Answers(st, i, j) ==
  [c \in Checks |-> IF c.issuer = i THEN StatusForCert(j.status[i], c.cert, st.at)
                    ELSE st.results[c]]

(* Steps 5 and 6.  `heard` is FALSE when the store commits and its answer  *)
(* is lost: the stage knows only that the commit failed.                   *)
StageCommit(e, up, heard) ==
  LET st == stage[e]
      i  == Issuer(e)
  IN  /\ st.pc = "commit"
      /\ \E out \in {Commit(st.current, WithBatch(st.current, i, st.batch, st.at), up)} :
           /\ anchored' = Anchored(st.current, out)
           /\ absorbed' = IF out.result = "ok"
                            THEN [absorbed EXCEPT ![i] = @ \cup UNION {o.revoked : o \in st.batch}]
                            ELSE absorbed
           /\ refused' = (refused \/ out.result = "invalid")
           /\ stage' = [stage EXCEPT ![e] =
                IF out.result = "ok" /\ heard
                  THEN NextIssuer([st EXCEPT !.results = Answers(st, i, out.record),
                                             !.known = @ \cup {b \in out.record.keys : b.issuer = i}])
                ELSE IF out.result = "conflict" /\ st.attempt = 0
                  THEN [st EXCEPT !.pc = "reload", !.attempt = 1]
                ELSE NextIssuer(st)]
      /\ UNCHANGED <<now, published, operator>>

-----------------------------------------------------------------------------
(* aggregate_certificate_status_v2 over the results of one stage.          *)

PushSeqs(evidence) == {x.seq : x \in {y \in evidence : y.type = "push"}}

(* One list, and pushes that follow it without a gap under its key.        *)
CurrentEvidence(evidence) ==
  \E base \in evidence :
    /\ base.type = "list"
    /\ \A x \in evidence \ {base} : x.type = "push" /\ x.key = base.key
    /\ PushSeqs(evidence) = (base.seq + 1)..(base.seq + Cardinality(evidence) - 1)

EntryValid(st, c, x) ==
  /\ x.key \notin ChainKeys
  /\ \E b \in st.known : b.issuer = c.issuer /\ b.key = x.key
  /\ st.results[c].status # "revoked" => x.key = st.configs[c.issuer].key

HasHistory(r) == r.status = "not_revoked" \/ r.reason = "stale"

ResultValid(st, c) ==
  LET r == st.results[c]
  IN  /\ \A x \in r.evidence : EntryValid(st, c, x)
      /\ r.status = "revoked" => r.evidence # {}
      /\ HasHistory(r) =>
           /\ CurrentEvidence(r.evidence)
           /\ \A d \in Checks : d.issuer = c.issuer /\ HasHistory(st.results[d])
                                => st.results[d].evidence = r.evidence
      /\ r.status = "not_revoked" => r.fresh_until > 0

Evidence(st) == UNION {st.results[c].evidence : c \in Checks}

(* Entries that give one digest two meanings.                              *)
Clashing(st) == {x \in Evidence(st) : \E y \in Evidence(st) : x.digest = y.digest /\ x # y}

HistoryPerIssuer(st) ==
  \A i \in CheckIssuers :
    LET own == UNION {st.results[c].evidence : c \in {d \in Checks : d.issuer = i}}
    IN  CurrentEvidence(own)

Assessment(st) ==
  LET Some(P(_)) == \E c \in Checks : P(st.results[c])
      bad == Clashing(st) # {} \/ \E c \in Checks : ~ResultValid(st, c)
  IN  IF \E c \in Checks : /\ st.results[c].status = "revoked" /\ ResultValid(st, c)
                           /\ st.results[c].evidence \cap Clashing(st) = {}
        THEN "revoked"
      ELSE IF bad \/ Some(LAMBDA r : r.reason = "unavailable") THEN "unavailable"
      ELSE IF Some(LAMBDA r : r.reason = "stale") THEN "stale"
      ELSE IF ~HistoryPerIssuer(st) THEN "unavailable"
      ELSE "current"

StageAggregate(e) ==
  /\ stage[e].pc = "aggregate"
  /\ stage' = [stage EXCEPT ![e].pc = "done", ![e].assessment = Assessment(stage[e])]
  /\ UNCHANGED <<anchored, now, published, operator, absorbed, refused>>

(* The caller's context ends: the stage reports nothing but that.          *)
StageCancel(e) ==
  /\ stage[e].pc \in {"load", "provider", "commit", "reload", "aggregate"}
  /\ stage' = [stage EXCEPT ![e] = NoStage]
  /\ UNCHANGED <<anchored, now, published, operator, absorbed, refused>>

Tick ==
  /\ now < MaxTime /\ now' = now + 1
  /\ UNCHANGED <<anchored, published, operator, stage, absorbed, refused>>

-----------------------------------------------------------------------------
Init ==
  /\ anchored = Genesis /\ now = 0 /\ published = Objects
  /\ operator = [c \in Operators |-> IdleOperator]
  /\ stage = [e \in Stages |-> NoStage]
  /\ absorbed = [i \in Issuers |-> {}]
  /\ refused = FALSE

OperatorStep ==
  \E c \in Operators :
    \/ \E a \in OpArgs : LoadForOperator(c, a)
    \/ \E up \in BOOLEAN : CommitForOperator(c, up)

StageStep(e) ==
  \/ StageBegin(e)
  \/ \E up \in BOOLEAN : StageLoad(e, up)
  \/ \E up \in BOOLEAN, batch \in UNION {kSubset(k, published) : k \in 0..MaxBatch} : StageProvider(e, batch, up)
  \/ \E up, heard \in BOOLEAN : StageCommit(e, up, heard)
  \/ StageAggregate(e)
  \/ StageCancel(e)

Next == OperatorStep \/ (\E e \in Stages : StageStep(e)) \/ Tick

Spec == Init /\ [][Next]_journalVars

-----------------------------------------------------------------------------
TypeOK ==
  /\ anchored.generation \in 0..MaxGeneration
  /\ DOMAIN anchored.status \subseteq Issuers
  /\ anchored.roles \subseteq [key : Keys, role : Roles \cup {"status"}]
  /\ anchored.keys \subseteq [issuer : Issuers, epoch : 1..MaxEpoch, key : Keys]
  /\ now \in 0..MaxTime
  /\ \A c \in Operators : operator[c].pc \in {"idle", "loaded"}
  /\ \A e \in Stages : stage[e].pc \in
       {"idle", "load", "provider", "commit", "reload", "aggregate", "done"}

(* No record the writers compute from one publisher's objects, in any      *)
(* batches and over any race, is one the journal's own validation refuses  *)
(* (validate_security_journal_transition_v2): the reducer, the compaction, *)
(* the epoch transition and the validation agree.                          *)
NeverRefused == ~refused

(* Every revocation in a batch the journal took in is denied from then on, *)
(* also when the reducer ignored, forked or gapped the object that carried *)
(* it (the early returns of apply_list_inner and apply_push_inner).        *)
RevocationsAbsorbed ==
  \A i \in Issuers : absorbed[i] # {} =>
    i \in DOMAIN anchored.status /\ absorbed[i] \subseteq anchored.status[i].deny_union

(* An answer is not older than the stage that gives it: a certificate that *)
(* was denied when the stage began is never answered not_revoked, whatever *)
(* was committed, retried or found unchanged in between                    *)
(* (run_v2_status_stage).                                                  *)
AnswersNotStale ==
  \A e \in Stages : stage[e].pc # "idle" =>
    \A c \in Checks : stage[e].results[c].status = "not_revoked" =>
      c.cert \notin stage[e].before[c.issuer]

(* The evidence the journal retains always supports the answer it gives:   *)
(* aggregation never downgrades a stage whose answers are all current, and *)
(* never overlooks a revocation (aggregate_certificate_status_v2).         *)
EvidenceSupportsAnswer ==
  \A e \in Stages : stage[e].pc = "done" =>
    LET r == stage[e].results
    IN  /\ (\A c \in Checks : r[c].status = "not_revoked") <=> stage[e].assessment = "current"
        /\ (\E c \in Checks : r[c].status = "revoked") <=> stage[e].assessment = "revoked"

(* Every anchored record reads back from its canonical snapshot as it was  *)
(* written: export, import with its canonical-form and order checks, and   *)
(* validation agree on everything the writers can produce.                 *)
LoadsBack == Load = anchored

(* A publisher that opens against the anchored journal signs under the     *)
(* status key that the status stage accepts for its issuer                 *)
(* (new_v2_status_publisher, require_journal_status_key_v2).               *)
PublisherKeyAccepted ==
  \A i \in Issuers, k \in Keys :
    MayPublish(anchored, i, k) =>
      /\ HasStatusKey(anchored, i, [epoch |-> HighestEpoch(anchored, i), key |-> k])
      /\ \A b \in anchored.roles : Overlap(b.key, k) => b.role = "status"

(* The journal implements the ledger.                                      *)
Ledger == INSTANCE RevocationLedger WITH
  denied   <- [i \in Issuers |-> IF i \in DOMAIN anchored.status
                                  THEN anchored.status[i].deny_union ELSE {}],
  roles    <- anchored.roles,
  bindings <- anchored.keys

(* Whatever operators and stages race, lose answers or retry, no anchored  *)
(* record forgets a revocation or a key assignment, gives a key component  *)
(* two uses or skips an epoch.                                             *)
ImplementsLedger == Ledger!Spec
=============================================================================
