----------------------------- MODULE KeyRotation -----------------------------
(***************************************************************************)
(* Key rotation statements and the AcceptRotation journal                  *)
(* (sdks/rust/src/v2/rotation.rs).                                         *)
(*                                                                         *)
(* The holders of an authority's keys sign statements; several verifiers,  *)
(* each with its own journal, are offered every statement any number of    *)
(* times in any order.  A holder that lost its state, or whose key was     *)
(* taken, may sign two statements with one key: nothing here keeps the     *)
(* signers honest.  A crash between the two signatures of a statement      *)
(* leaves it with one.                                                     *)
(*                                                                         *)
(* A digest is the chain of bodies it commits to, so the zero digest is    *)
(* the empty sequence.  authority_id and role are fixed: a statement for   *)
(* another authority is one with an epoch no journal is in.                *)
(***************************************************************************)
EXTENDS Integers, Sequences, FiniteSets, SequencesExt

CONSTANTS Verifiers,
          Keys,
          GenesisKeys,   \* recovery epoch -> the key the root anchors in it
          MaxSeq,        \* bound: MAX_SAFE, the last sequence
          MaxDrafts,     \* bound: statements that are ever signed
          MaxTime,       \* bound: the clock
          FutureSkew     \* future_skew

ASSUME MaxSeqAssumption == MaxSeq \in Nat /\ MaxTime \in Nat
ASSUME GenesisAssumption == GenesisKeys \in Seq(Keys) /\ GenesisKeys # <<>>

VARIABLES journal,       \* verifier -> KeyRotationV2Journal
          authorized,    \* statements with the old key's signature (0x0004)
          possessed,     \* statements with the new key's signature (0x0009)
          now,
          trusted        \* history: the keys each verifier trusted, in order

rotationVars == <<journal, authorized, possessed, now, trusted>>

Epochs == 1..Len(GenesisKeys)
Zero == <<>>

Bodies ==
  [recovery_epoch : Epochs, sequence : 1..MaxSeq, old_key : Keys, new_key : Keys,
   issued_at : Nat]

Statements ==
  [recovery_epoch : Epochs, sequence : 1..MaxSeq, previous : Seq(Bodies),
   old_key : Keys, new_key : Keys, issued_at : Nat]

(* key_rotation_statement_v2_digest.                                       *)
Digest(s) ==
  Append(s.previous, [recovery_epoch |-> s.recovery_epoch, sequence |-> s.sequence,
                      old_key |-> s.old_key, new_key |-> s.new_key,
                      issued_at |-> s.issued_at])

(* validate_statement.                                                     *)
WellFormed(s) ==
  /\ s.sequence = 1 <=> s.previous = Zero
  /\ s.old_key # s.new_key

NewJournal(epoch, key, used) ==
  [recovery_epoch |-> epoch, sequence |-> 0, head |-> Zero, current_key |-> key,
   used |-> used, accepted |-> <<>>, frozen |-> FALSE]

-----------------------------------------------------------------------------
(* verify_key_rotation_statement_v2, in the order of its checks.           *)

(* The checks of the caller's own state.                                   *)
StateInvalid(j) ==
  \/ j.sequence >= MaxSeq
  \/ ~(j.sequence = 0 <=> j.head = Zero)
  \/ ~IsInjective(j.used)
  \/ j.current_key \notin Range(j.used)

(* Faulty variant: the statement need not link to the head.                *)
ExtendsUnlinked(s, j) ==
  /\ s.old_key = j.current_key
  /\ s.recovery_epoch = j.recovery_epoch
  /\ s.sequence = j.sequence + 1

Extends(s, j) ==
  /\ s.old_key = j.current_key
  /\ s.recovery_epoch = j.recovery_epoch
  /\ s.sequence = j.sequence + 1
  /\ s.previous = j.head

(* Faulty variant: the new key's proof of possession is not checked.       *)
VerifyResultOldOnly(s, j) ==
  IF StateInvalid(j) THEN "configuration_invalid"
  ELSE IF s.new_key \in Range(j.used) THEN "rotation_key_reused"
  ELSE IF ~Extends(s, j) THEN "rotation_state_mismatch"
  ELSE IF s.issued_at > now + FutureSkew THEN "rotation_future_dated"
  ELSE IF s \notin authorized THEN "signature_invalid"
  ELSE "ok"

(* verify_key_rotation_statement_v2.  issued_at stands for not_before too, *)
(* which is future-dated on the same bound; now and the skew are always    *)
(* inside their domain.                                                    *)
VerifyResult(s, j) ==
  IF StateInvalid(j) THEN "configuration_invalid"
  ELSE IF s.new_key \in Range(j.used) THEN "rotation_key_reused"
  ELSE IF ~Extends(s, j) THEN "rotation_state_mismatch"
  ELSE IF s.issued_at > now + FutureSkew THEN "rotation_future_dated"
  ELSE IF s \notin authorized \cap possessed THEN "signature_invalid"
  ELSE "ok"

-----------------------------------------------------------------------------
(* accept_key_rotation_statement_v2: an accepted sequence, then the next.  *)

ReplayResult(s, j) ==
  LET entry == j.accepted[s.sequence]
  IN  IF entry.sequence # s.sequence \/ entry.old_key # s.old_key
        THEN "rotation_state_mismatch"
      ELSE IF s \notin authorized \cap possessed THEN "signature_invalid"
      ELSE IF Digest(s) = entry.digest THEN "replay"
      ELSE "rotation_fork"

(* Faulty variant: a frozen journal still takes the next statement.        *)
AcceptResultThaws(s, j) ==
  IF ~WellFormed(s) THEN "malformed"
  ELSE IF Len(j.accepted) # j.sequence THEN "configuration_invalid"
  ELSE IF s.recovery_epoch # j.recovery_epoch THEN "rotation_state_mismatch"
  ELSE IF s.sequence <= j.sequence THEN ReplayResult(s, j)
  ELSE VerifyResult(s, j)

AcceptResult(s, j) ==
  IF ~WellFormed(s) THEN "malformed"
  ELSE IF Len(j.accepted) # j.sequence THEN "configuration_invalid"
  ELSE IF j.frozen THEN "rotation_frozen"
  ELSE IF s.recovery_epoch # j.recovery_epoch THEN "rotation_state_mismatch"
  ELSE IF s.sequence <= j.sequence THEN ReplayResult(s, j)
  ELSE VerifyResult(s, j)

Accepted(s, j) ==
  [recovery_epoch |-> j.recovery_epoch, sequence |-> s.sequence, head |-> Digest(s),
   current_key |-> s.new_key, used |-> Append(j.used, s.new_key),
   accepted |-> Append(j.accepted, [sequence |-> s.sequence, digest |-> Digest(s),
                                    old_key |-> s.old_key]),
   frozen |-> j.frozen]

AfterAccept(s, j) ==
  IF AcceptResult(s, j) = "ok" THEN Accepted(s, j)
  ELSE IF AcceptResult(s, j) = "rotation_fork" THEN [j EXCEPT !.frozen = TRUE]
  ELSE j

-----------------------------------------------------------------------------
(* The holders of the keys.                                                *)

Drafts == authorized \cup possessed

Linkable == {Zero} \cup {Digest(s) : s \in Drafts}

(* sign_key_rotation_statement_v2_with_signers: the old signer, then the   *)
(* new signer; the second may fail.  A stranger that holds only the new    *)
(* key can sign only that part.                                            *)
Sign(s, byOld, byNew) ==
  /\ WellFormed(s)
  /\ s \in Drafts \/ Cardinality(Drafts) < MaxDrafts
  /\ byOld \/ byNew
  /\ authorized' = IF byOld THEN authorized \cup {s} ELSE authorized
  /\ possessed' = IF byNew THEN possessed \cup {s} ELSE possessed
  /\ UNCHANGED <<journal, now, trusted>>

-----------------------------------------------------------------------------
(* The verifiers.  The caller persists what accept returns in one step.    *)

Offer(v, s) ==
  /\ journal' = [journal EXCEPT ![v] = AfterAccept(s, @)]
  /\ trusted' = IF AcceptResult(s, journal[v]) = "ok"
                  THEN [trusted EXCEPT ![v] = Append(@, s.new_key)] ELSE trusted
  /\ UNCHANGED <<authorized, possessed, now>>

(* recover_key_rotation_v2.                                                *)
Recover(v, epoch) ==
  LET j == journal[v]
  IN  /\ epoch \in Epochs /\ epoch > j.recovery_epoch
      /\ GenesisKeys[epoch] \notin Range(j.used)
      /\ journal' = [journal EXCEPT ![v] =
           NewJournal(epoch, GenesisKeys[epoch], Append(j.used, GenesisKeys[epoch]))]
      /\ trusted' = [trusted EXCEPT ![v] = Append(@, GenesisKeys[epoch])]
      /\ UNCHANGED <<authorized, possessed, now>>

Tick ==
  /\ now < MaxTime /\ now' = now + 1
  /\ UNCHANGED <<journal, authorized, possessed, trusted>>

Init ==
  /\ journal = [v \in Verifiers |-> NewJournal(1, GenesisKeys[1], <<GenesisKeys[1]>>)]
  /\ trusted = [v \in Verifiers |-> <<GenesisKeys[1]>>]
  /\ authorized = {} /\ possessed = {} /\ now = 0

SignStep ==
  \E epoch \in Epochs, seq \in 1..MaxSeq, previous \in Linkable, old, new \in Keys,
     at \in 0..MaxTime, byOld, byNew \in BOOLEAN :
    Sign([recovery_epoch |-> epoch, sequence |-> seq, previous |-> previous,
          old_key |-> old, new_key |-> new, issued_at |-> at], byOld, byNew)

OfferStep == \E v \in Verifiers, s \in Drafts : Offer(v, s)

RecoverStep == \E v \in Verifiers, epoch \in Epochs : Recover(v, epoch)

Next == SignStep \/ OfferStep \/ RecoverStep \/ Tick

Spec == Init /\ [][Next]_rotationVars

-----------------------------------------------------------------------------
JournalType ==
  [recovery_epoch : Epochs, sequence : 0..MaxSeq, head : Seq(Bodies),
   current_key : Keys, used : Seq(Keys),
   accepted : Seq([sequence : 1..MaxSeq, digest : Seq(Bodies), old_key : Keys]),
   frozen : BOOLEAN]

TypeOK ==
  /\ journal \in [Verifiers -> JournalType]
  /\ authorized \subseteq Statements /\ possessed \subseteq Statements
  /\ now \in Nat
  /\ trusted \in [Verifiers -> Seq(Keys)]

(* The last body of a digest, and the key it hands over to.                *)
LastBody(d) == d[Len(d)]
HandsTo(d) == LastBody(d).new_key

(* What stands before entry i: its digest, and the key it hands over to.   *)
Before(j, i) == IF i = 1 THEN Zero ELSE j.accepted[i - 1].digest
Holder(j, i) ==
  IF i = 1 THEN GenesisKeys[j.recovery_epoch] ELSE HandsTo(j.accepted[i - 1].digest)

Linked(j, i) ==
  /\ j.accepted[i].sequence = i
  /\ j.accepted[i].digest = Append(Before(j, i), LastBody(j.accepted[i].digest))
  /\ j.accepted[i].old_key = Holder(j, i)

Chained(j) ==
  /\ Len(j.accepted) = j.sequence
  /\ \A i \in 1..j.sequence : Linked(j, i)
  /\ j.head = Before(j, j.sequence + 1)
  /\ j.current_key = Holder(j, j.sequence + 1)

(* What the journal has accepted is one chain from the key anchored in its *)
(* epoch to the current key: every digest extends the one before it, every *)
(* statement was signed by the key the one before it handed over to, and   *)
(* head and current key are the chain's end.                               *)
ChainLinked == \A v \in Verifiers : Chained(journal[v])

(* No key of an authority ever returns, over rotations and recoveries: the *)
(* keys a verifier ever trusted are pairwise different.                    *)
KeysNeverReturn == \A v \in Verifiers : IsInjective(trusted[v])

(* The statement behind an accepted entry.                                 *)
Behind(e) == {s \in Drafts : Digest(s) = e.digest}

(* Two statements of one epoch and sequence signed with one old key.       *)
Equivocations ==
  {p \in (authorized \cap possessed) \X (authorized \cap possessed) :
     /\ p[1] # p[2] /\ p[1].recovery_epoch = p[2].recovery_epoch
     /\ p[1].sequence = p[2].sequence /\ p[1].old_key = p[2].old_key}

(* Two verifiers of one epoch agree on their common sequences, unless a    *)
(* key signed two statements for one of them.                              *)
ForksNeedEquivocation ==
  \A v, w \in Verifiers :
    LET a == journal[v].accepted
        b == journal[w].accepted
    IN  journal[v].recovery_epoch = journal[w].recovery_epoch =>
          \/ IsPrefix(a, b) \/ IsPrefix(b, a)
          \/ \E p \in Equivocations : p[1].sequence <= Len(a) /\ p[1].sequence <= Len(b)

(* Nobody freezes an authority but a holder of one of its keys: a frozen   *)
(* journal has an accepted statement whose key signed another one for the  *)
(* same sequence, with both signatures.                                    *)
FrozenByEquivocation ==
  \A v \in Verifiers : journal[v].frozen =>
    \E p \in Equivocations, i \in DOMAIN journal[v].accepted :
      p[1] \in Behind(journal[v].accepted[i])

(* A fork between verifiers, and a frozen journal, is the work of a holder *)
(* of a key that signed twice for one place in the chain.                  *)
ForkedByEquivocation == ForksNeedEquivocation /\ FrozenByEquivocation

(* The history a verifier trusts is one chain, from the key anchored in    *)
(* its epoch to the current key, in which no key ever returns.             *)
HistorySound == ChainLinked /\ KeysNeverReturn

(* A frozen authority stays as it is until the root recovers it.           *)
FrozenUntilRecoveredStep ==
  \A v \in Verifiers : journal[v].frozen =>
    journal'[v] = journal[v] \/ journal'[v].recovery_epoch > journal[v].recovery_epoch
FrozenUntilRecovered == [][FrozenUntilRecoveredStep]_rotationVars

=============================================================================
