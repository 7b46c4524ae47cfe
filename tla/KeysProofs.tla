----------------------------- MODULE KeysProofs ------------------------------
(***************************************************************************)
(* Proofs about key rotation, witness logs and challenge issuance, for any *)
(* verifiers, readers, calls, keys, requests and bounds.                   *)
(*                                                                         *)
(* Key rotation: HistorySound becomes inductive with the types and with    *)
(* the fact that the keys a journal refuses are exactly the keys its       *)
(* verifier ever trusted, over recoveries too.  Two chains that part are   *)
(* traced to the first entry they do not share: both statements there are  *)
(* signed by one key, which equivocated.                                   *)
(*                                                                         *)
(* Witness logs: the invariant is inductive with one addition to           *)
(* WitnessedHistory: a reader holds nothing that was not signed.           *)
(* HeadCommits needs no induction of its own, because an appended entry    *)
(* carries it one position further.                                        *)
(*                                                                         *)
(* Issuance: every stored record was made of a valid request, under a key  *)
(* of its own, and what was admitted has such a record.                    *)
(***************************************************************************)
EXTENDS KeyRotation, WitnessLog, ChallengeIssuance, TLAPS, WellFoundedInduction,
        NaturalsInduction

(* The keys a journal calls used are the keys its verifier ever trusted.   *)
UsedIsTrusted == \A v \in Verifiers : journal[v].used = trusted[v]

KeyInv == TypeOK /\ HistorySound /\ UsedIsTrusted

AcceptedType == [sequence : 1..MaxSeq, digest : Seq(Bodies), old_key : Keys]

-----------------------------------------------------------------------------
(* The keys the root anchors are keys.                                     *)
LEMMA GenesisKey ==
  ASSUME NEW epoch \in Epochs PROVE GenesisKeys[epoch] \in Keys
  BY GenesisAssumption DEF Epochs

(* A digest is the one it extends and one body more.                       *)
LEMMA DigestIsChain ==
  ASSUME NEW s \in Statements
  PROVE  /\ Digest(s) \in Seq(Bodies)
         /\ LastBody(Digest(s)).new_key = s.new_key
         /\ Digest(s) = Append(s.previous, LastBody(Digest(s)))
  <1> DEFINE b == [recovery_epoch |-> s.recovery_epoch, sequence |-> s.sequence,
                   old_key |-> s.old_key, new_key |-> s.new_key, issued_at |-> s.issued_at]
  <1>1. b \in Bodies /\ b.new_key = s.new_key
    BY DEF Statements, Bodies
  <1>2. s.previous \in Seq(Bodies)
    BY DEF Statements
  <1>3. Digest(s) = Append(s.previous, b)
    BY DEF Digest
  <1> HIDE DEF b
  <1>4. Digest(s) \in Seq(Bodies) /\ Digest(s)[Len(Digest(s))] = b
    BY <1>1, <1>2, <1>3
  <1> QED
    BY <1>1, <1>3, <1>4 DEF LastBody

(* What the checks of an accepted statement establish.                     *)
LEMMA AcceptChecks ==
  ASSUME NEW s, NEW j, AcceptResult(s, j) = "ok"
  PROVE  /\ ~j.frozen /\ ~StateInvalid(j)
         /\ s.new_key \notin Range(j.used)
         /\ Extends(s, j)
  <1>1. ~j.frozen /\ VerifyResult(s, j) = "ok"
    BY DEF AcceptResult, ReplayResult
  <1> QED
    BY <1>1 DEF VerifyResult

-----------------------------------------------------------------------------
(* An accepted statement yields a journal of the right type ...            *)
LEMMA AcceptedJournal ==
  ASSUME NEW s \in Statements, NEW j \in JournalType, AcceptResult(s, j) = "ok"
  PROVE  Accepted(s, j) \in JournalType
  <1>1. s.sequence \in 1..MaxSeq /\ s.new_key \in Keys /\ s.old_key \in Keys
    BY DEF Statements
  <1>2. /\ j.recovery_epoch \in Epochs /\ j.used \in Seq(Keys)
        /\ j.accepted \in Seq(AcceptedType) /\ j.frozen \in BOOLEAN
    BY DEF JournalType, AcceptedType
  <1>3. Digest(s) \in Seq(Bodies)
    BY DigestIsChain
  <1>4. [sequence |-> s.sequence, digest |-> Digest(s), old_key |-> s.old_key] \in AcceptedType
    BY <1>1, <1>3 DEF AcceptedType
  <1>5. /\ Append(j.used, s.new_key) \in Seq(Keys)
        /\ Append(j.accepted, [sequence |-> s.sequence, digest |-> Digest(s),
                               old_key |-> s.old_key]) \in Seq(AcceptedType)
    BY <1>1, <1>2, <1>4
  <1>6. s.sequence \in 0..MaxSeq
    BY <1>1, MaxSeqAssumption
  <1> QED
    BY <1>1, <1>2, <1>3, <1>5, <1>6 DEF Accepted, JournalType, AcceptedType

(* ... whose chain is one statement longer.                                *)
LEMMA AcceptedChained ==
  ASSUME NEW s \in Statements, NEW j \in JournalType, AcceptResult(s, j) = "ok", Chained(j)
  PROVE  Chained(Accepted(s, j))
  <1> DEFINE k == Accepted(s, j)
             n == j.sequence + 1
             e == [sequence |-> s.sequence, digest |-> Digest(s), old_key |-> s.old_key]
  <1>1. /\ s.sequence = n /\ s.previous = j.head /\ s.old_key = j.current_key
        /\ s.recovery_epoch = j.recovery_epoch
    BY AcceptChecks DEF Extends
  <1>2. /\ j.sequence \in Nat /\ j.accepted \in Seq(AcceptedType)
        /\ Len(j.accepted) = j.sequence
    BY MaxSeqAssumption DEF JournalType, AcceptedType, Chained
  <1>3. e \in AcceptedType
    BY DigestIsChain DEF Statements, AcceptedType
  <1>4. /\ k.sequence = n /\ k.head = Digest(s) /\ k.current_key = s.new_key
        /\ k.recovery_epoch = j.recovery_epoch /\ k.accepted = Append(j.accepted, e)
    BY <1>1 DEF Accepted
  <1> HIDE DEF e, k
  <1>5. /\ Len(k.accepted) = n /\ k.accepted[n] = e
        /\ \A i \in 1..j.sequence : k.accepted[i] = j.accepted[i]
    BY <1>2, <1>3, <1>4
  <1>6. \A i \in 1..n : Before(k, i) = Before(j, i) /\ Holder(k, i) = Holder(j, i)
    <2>1. \A i \in 1..n : i # 1 => i - 1 \in 1..j.sequence
      BY <1>2
    <2> QED
      BY <2>1, <1>4, <1>5 DEF Before, Holder
  <1>7. \A i \in 1..j.sequence : Linked(k, i)
    <2>1. \A i \in 1..j.sequence : i \in 1..n
      BY <1>2
    <2> QED
      BY <2>1, <1>5, <1>6 DEF Chained, Linked
  <1>8. Linked(k, n)
    <2>1. n \in 1..n
      BY <1>2
    <2>2. Before(k, n) = s.previous /\ Holder(k, n) = s.old_key
      BY <2>1, <1>1, <1>6 DEF Chained
    <2>3. e.sequence = n /\ e.digest = Digest(s) /\ e.old_key = s.old_key
      BY <1>1 DEF e
    <2> QED
      BY <2>2, <2>3, <1>5, DigestIsChain DEF Linked
  <1>9. k.head = Before(k, k.sequence + 1) /\ k.current_key = Holder(k, k.sequence + 1)
    <2>1. k.sequence + 1 # 1 /\ (k.sequence + 1) - 1 = n
      BY <1>2, <1>4
    <2>2. k.accepted[n].digest = Digest(s)
      BY <1>5 DEF e
    <2> QED
      BY <2>1, <2>2, <1>4, DigestIsChain DEF Before, Holder, HandsTo
  <1>10. \A i \in 1..n : i \in 1..j.sequence \/ i = n
    BY <1>2
  <1> QED
    BY <1>4, <1>5, <1>7, <1>8, <1>9, <1>10 DEF Chained, k

(* Whatever a statement does to a journal, it stays a chain.               *)
LEMMA OfferedJournal ==
  ASSUME NEW s \in Statements, NEW j \in JournalType, Chained(j)
  PROVE  AfterAccept(s, j) \in JournalType /\ Chained(AfterAccept(s, j))
  <1>1. CASE AcceptResult(s, j) = "ok"
    BY <1>1, AcceptedJournal, AcceptedChained DEF AfterAccept
  <1>2. CASE AcceptResult(s, j) # "ok"
    <2> DEFINE k == [j EXCEPT !.frozen = TRUE]
    <2>1. k \in JournalType
      BY DEF JournalType
    <2>2. Chained(k)
      BY DEF Chained, Linked, Before, Holder, JournalType
    <2> QED
      BY <1>2, <2>1, <2>2 DEF AfterAccept
  <1> QED
    BY <1>1, <1>2

(* A recovered journal starts a chain at the key of its epoch.             *)
LEMMA FreshJournal ==
  ASSUME NEW epoch \in Epochs, NEW used \in Seq(Keys)
  PROVE  LET j == NewJournal(epoch, GenesisKeys[epoch], used)
         IN  j \in JournalType /\ Chained(j)
  <1>1. GenesisKeys[epoch] \in Keys /\ <<>> \in Seq(Bodies) /\ <<>> \in Seq(AcceptedType)
    BY GenesisKey
  <1>2. NewJournal(epoch, GenesisKeys[epoch], used) \in JournalType
    BY <1>1, MaxSeqAssumption DEF NewJournal, JournalType, AcceptedType, Zero
  <1>3. Chained(NewJournal(epoch, GenesisKeys[epoch], used))
    BY DEF NewJournal, Chained, Before, Holder
  <1> QED
    BY <1>2, <1>3

(* A key that is not among those trusted does not repeat one.              *)
LEMMA NewKeyIsNew ==
  ASSUME NEW t \in Seq(Keys), IsInjective(t), NEW x \in Keys, x \notin Range(t),
         NEW u, u = Append(t, x)
  PROVE  IsInjective(u)
  <1>1. u \in Seq(Keys) /\ Len(u) = Len(t) + 1 /\ u[Len(u)] = x
    OBVIOUS
  <1>2. \A i \in 1..Len(t) : u[i] = t[i] /\ t[i] # x
    BY DEF Range
  <1>3. \A i \in DOMAIN u : i \in 1..Len(t) \/ i = Len(u)
    BY <1>1
  <1>4. ASSUME NEW a \in DOMAIN u, NEW b \in DOMAIN u, u[a] = u[b] PROVE a = b
    <2>1. CASE a \in 1..Len(t) /\ b \in 1..Len(t)
      BY <2>1, <1>2, <1>4 DEF IsInjective
    <2>2. CASE ~(a \in 1..Len(t) /\ b \in 1..Len(t))
      BY <2>2, <1>1, <1>2, <1>3, <1>4
    <2> QED
      BY <2>1, <2>2
  <1> QED
    BY <1>4, Zenon DEF IsInjective

-----------------------------------------------------------------------------
(* One lemma for each step.                                                *)

(* Signing: statements of the right type, journals untouched.              *)
LEMMA SignKeeps ==
  ASSUME KeyInv, SignStep PROVE KeyInv'
  <1>1. PICK epoch \in Epochs, seq \in 1..MaxSeq, previous \in Linkable, old \in Keys, new \in Keys,
             at \in 0..MaxTime, byOld \in BOOLEAN, byNew \in BOOLEAN :
          Sign([recovery_epoch |-> epoch, sequence |-> seq, previous |-> previous,
                old_key |-> old, new_key |-> new, issued_at |-> at], byOld, byNew)
    BY DEF SignStep
  <1> DEFINE s == [recovery_epoch |-> epoch, sequence |-> seq, previous |-> previous,
                   old_key |-> old, new_key |-> new, issued_at |-> at]
  <1>2. previous \in Seq(Bodies)
    <2>1. \A d \in Drafts : d \in Statements
      BY DEF KeyInv, TypeOK, Drafts
    <2>2. <<>> \in Seq(Bodies)
      OBVIOUS
    <2> QED
      BY <2>1, <2>2, DigestIsChain DEF Linkable, Zero
  <1>3. s \in Statements
    BY <1>2, MaxSeqAssumption DEF Statements
  <1> HIDE DEF s
  <1>4. /\ authorized' \subseteq Statements /\ possessed' \subseteq Statements
        /\ journal' = journal /\ now' = now /\ trusted' = trusted
    BY <1>1, <1>3 DEF Sign, s, KeyInv, TypeOK
  <1> QED
    BY <1>4 DEF KeyInv, TypeOK, HistorySound, ChainLinked, KeysNeverReturn, UsedIsTrusted

(* A change of one verifier's journal and trusted keys keeps the invariant *)
(* if what it gets is again a chain and a list without repetition.         *)
LEMMA VerifierKeeps ==
  ASSUME KeyInv, NEW v \in Verifiers, NEW k \in JournalType, NEW t \in Seq(Keys),
         Chained(k), k.used = t, IsInjective(t),
         journal' = [journal EXCEPT ![v] = k], trusted' = [trusted EXCEPT ![v] = t],
         UNCHANGED <<authorized, possessed, now>>
  PROVE  KeyInv'
  <1>1. TypeOK'
    BY DEF KeyInv, TypeOK
  <1>2. \A w \in Verifiers : journal'[w] = (IF w = v THEN k ELSE journal[w])
                             /\ trusted'[w] = (IF w = v THEN t ELSE trusted[w])
    BY DEF KeyInv, TypeOK
  <1>3. HistorySound' /\ UsedIsTrusted'
    BY <1>2 DEF KeyInv, HistorySound, ChainLinked, KeysNeverReturn, UsedIsTrusted
  <1> QED
    BY <1>1, <1>3 DEF KeyInv

(* Offering a statement.                                                   *)
LEMMA OfferKeeps ==
  ASSUME KeyInv, NEW v \in Verifiers, NEW s \in Drafts, Offer(v, s) PROVE KeyInv'
  <1> DEFINE j == journal[v]
             t == IF AcceptResult(s, j) = "ok" THEN Append(trusted[v], s.new_key) ELSE trusted[v]
  <1>1. s \in Statements /\ j \in JournalType /\ trusted[v] \in Seq(Keys)
    BY DEF KeyInv, TypeOK, Drafts
  <1>2. Chained(j) /\ j.used = trusted[v] /\ IsInjective(trusted[v])
    BY DEF KeyInv, HistorySound, ChainLinked, KeysNeverReturn, UsedIsTrusted
  <1>3. AfterAccept(s, j) \in JournalType /\ Chained(AfterAccept(s, j))
    BY <1>1, <1>2, OfferedJournal
  <1>4. t \in Seq(Keys) /\ IsInjective(t)
    <2>1. CASE AcceptResult(s, j) = "ok"
      <3>1. s.new_key \in Keys /\ s.new_key \notin Range(trusted[v])
        BY <2>1, <1>1, <1>2, AcceptChecks DEF Statements
      <3>2. IsInjective(Append(trusted[v], s.new_key))
        <4>1. PICK u : u = Append(trusted[v], s.new_key)
          OBVIOUS
        <4>2. IsInjective(u)
          BY <4>1, <3>1, <1>1, <1>2, NewKeyIsNew
        <4> QED
          BY <4>1, <4>2
      <3>3. Append(trusted[v], s.new_key) \in Seq(Keys)
        BY <3>1, <1>1
      <3>4. t = Append(trusted[v], s.new_key)
        BY <2>1
      <3> QED
        BY <3>2, <3>3, <3>4, Zenon
    <2> QED
      BY <2>1, <1>1, <1>2
  <1>5. AfterAccept(s, j).used = t
    <2>1. [j EXCEPT !.frozen = TRUE].used = j.used
      BY <1>1 DEF JournalType
    <2> QED
      BY <2>1, <1>2 DEF AfterAccept, Accepted
  <1>6. trusted' = [trusted EXCEPT ![v] = t]
    BY DEF Offer, KeyInv, TypeOK
  <1> QED
    BY <1>3, <1>4, <1>5, <1>6, VerifierKeeps DEF Offer

(* Recovery into a later epoch.                                            *)
LEMMA RecoverKeeps ==
  ASSUME KeyInv, NEW v \in Verifiers, NEW epoch \in Epochs, Recover(v, epoch) PROVE KeyInv'
  <1> DEFINE j == journal[v]
             t == Append(j.used, GenesisKeys[epoch])
             k == NewJournal(epoch, GenesisKeys[epoch], t)
  <1>1. j.used = trusted[v] /\ j.used \in Seq(Keys) /\ IsInjective(j.used)
    BY DEF KeyInv, TypeOK, HistorySound, KeysNeverReturn, UsedIsTrusted
  <1>2. GenesisKeys[epoch] \in Keys /\ GenesisKeys[epoch] \notin Range(j.used)
    BY GenesisKey DEF Recover
  <1>3. t \in Seq(Keys) /\ IsInjective(t)
    <2>1. IsInjective(t)
      BY <1>1, <1>2, NewKeyIsNew
    <2>2. t \in Seq(Keys)
      BY <1>1, <1>2
    <2> QED
      BY <2>1, <2>2, Zenon
  <1>4. k \in JournalType /\ Chained(k) /\ k.used = t
    BY <1>3, FreshJournal DEF NewJournal
  <1>5. journal' = [journal EXCEPT ![v] = k] /\ trusted' = [trusted EXCEPT ![v] = t]
    BY <1>1 DEF Recover
  <1> QED
    BY <1>3, <1>4, <1>5, VerifierKeeps DEF Recover

(* The first journals.                                                     *)
LEMMA InitKeys == Init => KeyInv
  <1> SUFFICES ASSUME Init PROVE KeyInv
    OBVIOUS
  <1> DEFINE t == <<GenesisKeys[1]>>
             k == NewJournal(1, GenesisKeys[1], t)
  <1>1. 1 \in Epochs
    BY GenesisAssumption DEF Epochs
  <1>2. t \in Seq(Keys) /\ IsInjective(t)
    BY <1>1, GenesisKey DEF IsInjective
  <1>3. k \in JournalType /\ Chained(k) /\ k.used = t
    BY <1>1, <1>2, FreshJournal DEF NewJournal
  <1>4. \A v \in Verifiers : journal[v] = k /\ trusted[v] = t
    BY DEF Init
  <1>5. TypeOK
    BY <1>2, <1>3 DEF Init, TypeOK
  <1> QED
    BY <1>2, <1>3, <1>4, <1>5
       DEF KeyInv, HistorySound, ChainLinked, KeysNeverReturn, UsedIsTrusted

(* Every step keeps the invariant.                                         *)
LEMMA NextKeeps == KeyInv /\ [Next]_rotationVars => KeyInv'
  <1> SUFFICES ASSUME KeyInv, [Next]_rotationVars PROVE KeyInv'
    OBVIOUS
  <1>1. CASE SignStep
    BY <1>1, SignKeeps
  <1>2. CASE OfferStep
    BY <1>2, OfferKeeps DEF OfferStep
  <1>3. CASE RecoverStep
    BY <1>3, RecoverKeeps DEF RecoverStep
  <1>4. CASE Tick \/ UNCHANGED rotationVars
    BY <1>4 DEF Tick, rotationVars, KeyInv, TypeOK, HistorySound, ChainLinked, KeysNeverReturn,
                UsedIsTrusted
  <1> QED
    BY <1>1, <1>2, <1>3, <1>4 DEF Next

-----------------------------------------------------------------------------
(* The journals, statements and keys have their types.                     *)
THEOREM RotationTypeCorrect == Spec => []TypeOK
  <1>1. KeyInv => TypeOK
    BY DEF KeyInv
  <1> QED
    BY <1>1, InitKeys, NextKeeps, PTL DEF Spec

(* Whatever is signed, offered and recovered, in any order: the history a  *)
(* verifier trusts is one chain from its anchor and no key returns         *)
(* (accept_key_rotation_statement_v2 and recover_key_rotation_v2).         *)
THEOREM HistoryHolds == Spec => []HistorySound
  <1>1. KeyInv => HistorySound
    BY DEF KeyInv
  <1> QED
    BY <1>1, InitKeys, NextKeeps, PTL DEF Spec

(* A frozen authority accepts nothing until its root recovers it.          *)
THEOREM FrozenHolds == Spec => FrozenUntilRecovered
  <1>1. TypeOK /\ [Next]_rotationVars => [FrozenUntilRecoveredStep]_rotationVars
    <2> SUFFICES ASSUME TypeOK, Next PROVE FrozenUntilRecoveredStep
      BY DEF rotationVars
    <2>1. CASE SignStep \/ Tick
      <3>1. journal' = journal
        <4>1. CASE SignStep
          <5>1. \A s : \A byOld, byNew \in BOOLEAN : Sign(s, byOld, byNew) => journal' = journal
            BY DEF Sign
          <5> QED
            BY <4>1, <5>1, Zenon DEF SignStep
        <4>2. CASE Tick
          BY <4>2 DEF Tick
        <4> QED
          BY <2>1, <4>1, <4>2
      <3> QED
        BY <3>1 DEF FrozenUntilRecoveredStep
    <2>2. CASE OfferStep
      <3>1. PICK v \in Verifiers, s \in Drafts : Offer(v, s)
        BY <2>2 DEF OfferStep
      <3>2. journal[v].frozen => AcceptResult(s, journal[v]) # "ok"
        BY AcceptChecks
      <3>3. journal[v].frozen => AcceptResult(s, journal[v]) # "rotation_fork"
        BY DEF AcceptResult
      <3>4. journal' = [journal EXCEPT ![v] = AfterAccept(s, @)]
        BY <3>1 DEF Offer
      <3>5. journal[v].frozen => AfterAccept(s, journal[v]) = journal[v]
        BY <3>2, <3>3 DEF AfterAccept
      <3> QED
        BY <3>4, <3>5 DEF FrozenUntilRecoveredStep, TypeOK
    <2>3. CASE RecoverStep
      <3>1. PICK v \in Verifiers, epoch \in Epochs : Recover(v, epoch)
        BY <2>3 DEF RecoverStep
      <3>2. journal'[v].recovery_epoch > journal[v].recovery_epoch
        BY <3>1 DEF Recover, NewJournal, TypeOK
      <3>3. \A w \in Verifiers : w # v => journal'[w] = journal[w]
        BY <3>1 DEF Recover, TypeOK
      <3> QED
        BY <3>2, <3>3 DEF FrozenUntilRecoveredStep
    <2> QED
      BY <2>1, <2>2, <2>3 DEF Next
  <1> QED
    BY <1>1, RotationTypeCorrect, PTL DEF Spec, FrozenUntilRecovered

-----------------------------------------------------------------------------
(* Forks need equivocation.  Every accepted entry is backed by a statement *)
(* with both signatures; where two chains part for the first time, both    *)
(* their statements continue one entry with one key.                       *)

(* A statement with both signatures is what an entry was accepted from.    *)
Backs(s, j, i) ==
  /\ s \in authorized \cap possessed /\ s.recovery_epoch = j.recovery_epoch /\ s.sequence = i
  /\ s.old_key = j.accepted[i].old_key /\ Digest(s) = j.accepted[i].digest
Backed(j) == \A i \in 1..j.sequence : \E s : Backs(s, j, i)

(* A frozen journal accepted one of two statements for one place.          *)
JustlyFrozen(j) ==
  j.frozen => \E p \in Equivocations, i \in DOMAIN j.accepted : p[1] \in Behind(j.accepted[i])

ForkInv == \A v \in Verifiers : Backed(journal[v]) /\ JustlyFrozen(journal[v])

(* Signatures are never taken back: what backs a journal goes on to.       *)
LEMMA MoreSignatures ==
  ASSUME authorized \subseteq authorized', possessed \subseteq possessed', NEW j,
         Backed(j), JustlyFrozen(j)
  PROVE  Backed(j)' /\ JustlyFrozen(j)'
  <1>1. Backed(j)'
    BY DEF Backed, Backs
  <1>2. Equivocations \subseteq Equivocations'
    BY DEF Equivocations
  <1>3. \A e : Behind(e) \subseteq Behind(e)'
    BY DEF Behind, Drafts
  <1>4. JustlyFrozen(j)'
    BY <1>2, <1>3 DEF JustlyFrozen
  <1> QED
    BY <1>1, <1>4

(* An accepted statement backs the entry it adds.                          *)
LEMMA AcceptedBacked ==
  ASSUME NEW s \in Statements, NEW j \in JournalType, AcceptResult(s, j) = "ok", Chained(j),
         Backed(j)
  PROVE  Backed(Accepted(s, j)) /\ JustlyFrozen(Accepted(s, j))
  <1> DEFINE k == Accepted(s, j)
             n == j.sequence + 1
             e == [sequence |-> s.sequence, digest |-> Digest(s), old_key |-> s.old_key]
  <1>1. ~j.frozen /\ s.sequence = n /\ s.recovery_epoch = j.recovery_epoch
    BY AcceptChecks DEF Extends
  <1>2. s \in authorized \cap possessed
    BY DEF AcceptResult, ReplayResult, VerifyResult
  <1>3. /\ j.sequence \in Nat /\ j.accepted \in Seq(AcceptedType) /\ Len(j.accepted) = j.sequence
    BY MaxSeqAssumption DEF JournalType, AcceptedType, Chained
  <1>4. e \in AcceptedType
    BY DigestIsChain DEF Statements, AcceptedType
  <1>5. /\ k.sequence = n /\ k.recovery_epoch = j.recovery_epoch /\ k.frozen = j.frozen
        /\ k.accepted = Append(j.accepted, e)
    BY <1>1 DEF Accepted
  <1>6. e.old_key = s.old_key /\ e.digest = Digest(s)
    OBVIOUS
  <1> HIDE DEF e, k
  <1>7. k.accepted[n] = e /\ \A i \in 1..j.sequence : k.accepted[i] = j.accepted[i]
    BY <1>3, <1>4, <1>5
  <1>8. Backs(s, k, n)
    BY <1>1, <1>2, <1>5, <1>6, <1>7 DEF Backs
  <1>9. ASSUME NEW i \in 1..j.sequence PROVE \E x : Backs(x, k, i)
    <2>1. PICK x : Backs(x, j, i)
      BY DEF Backed
    <2>2. Backs(x, k, i)
      BY <1>5, <1>7, <2>1 DEF Backs
    <2> QED
      BY <2>2
  <1>10. \A i \in 1..n : i \in 1..j.sequence \/ i = n
    BY <1>3
  <1>11. Backed(k)
    BY <1>5, <1>8, <1>9, <1>10 DEF Backed
  <1>12. JustlyFrozen(k)
    BY <1>1, <1>5 DEF JustlyFrozen
  <1> QED
    BY <1>11, <1>12 DEF k

(* A journal is frozen by a second statement for one of its entries.       *)
LEMMA ForkBacked ==
  ASSUME NEW s \in Statements, NEW j \in JournalType, AcceptResult(s, j) = "rotation_fork",
         Backed(j), Chained(j)
  PROVE  Backed([j EXCEPT !.frozen = TRUE]) /\ JustlyFrozen([j EXCEPT !.frozen = TRUE])
  <1> DEFINE k == [j EXCEPT !.frozen = TRUE]
             n == s.sequence
  <1>1. ReplayResult(s, j) = "rotation_fork" /\ n <= j.sequence /\ s.recovery_epoch = j.recovery_epoch
    BY DEF AcceptResult, VerifyResult
  <1>2. /\ s.old_key = j.accepted[n].old_key /\ s \in authorized \cap possessed
        /\ Digest(s) # j.accepted[n].digest
    BY <1>1 DEF ReplayResult
  <1>3. n \in 1..j.sequence /\ n \in DOMAIN j.accepted
    <2>1. n \in 1..MaxSeq /\ j.sequence \in 0..MaxSeq /\ j.accepted \in Seq(AcceptedType)
          /\ Len(j.accepted) = j.sequence
      BY DEF Statements, JournalType, AcceptedType, Chained
    <2> QED
      BY <1>1, <2>1, MaxSeqAssumption
  <1>4. PICK x : Backs(x, j, n)
    BY <1>3 DEF Backed
  <1>5. <<x, s>> \in Equivocations /\ x \in Behind(j.accepted[n])
    BY <1>1, <1>2, <1>4 DEF Backs, Equivocations, Behind, Drafts
  <1>6. /\ k.accepted = j.accepted /\ k.sequence = j.sequence /\ k.recovery_epoch = j.recovery_epoch
    BY DEF JournalType
  <1> HIDE DEF k
  <1>7. Backed(k)
    BY <1>6 DEF Backed, Backs
  <1>8. JustlyFrozen(k)
    <2>1. <<x, s>>[1] \in Behind(k.accepted[n]) /\ n \in DOMAIN k.accepted
      BY <1>3, <1>5, <1>6
    <2> QED
      BY <1>5, <2>1 DEF JustlyFrozen
  <1> QED
    BY <1>7, <1>8 DEF k

(* Every step leaves every entry backed and every frozen journal justly so. *)
LEMMA NextKeepsForks == KeyInv /\ ForkInv /\ [Next]_rotationVars => ForkInv'
  <1> SUFFICES ASSUME KeyInv, ForkInv, [Next]_rotationVars PROVE ForkInv'
    OBVIOUS
  <1>1. TypeOK /\ \A v \in Verifiers : Chained(journal[v]) /\ journal[v] \in JournalType
    BY DEF KeyInv, TypeOK, HistorySound, ChainLinked
  <1>2. ASSUME authorized \subseteq authorized', possessed \subseteq possessed',
               journal' = journal
        PROVE  ForkInv'
    BY <1>2, MoreSignatures DEF ForkInv
  <1>3. CASE SignStep
    <2>1. \A s : \A byOld, byNew \in BOOLEAN : Sign(s, byOld, byNew) =>
            /\ authorized \subseteq authorized' /\ possessed \subseteq possessed'
            /\ journal' = journal
      BY DEF Sign
    <2> QED
      BY <1>2, <1>3, <2>1 DEF SignStep
  <1>4. CASE Tick \/ UNCHANGED rotationVars
    BY <1>2, <1>4 DEF Tick, rotationVars
  <1>5. ASSUME NEW v \in Verifiers, NEW k, Backed(k), JustlyFrozen(k),
               journal' = [journal EXCEPT ![v] = k], UNCHANGED <<authorized, possessed>>
        PROVE  ForkInv'
    <2>1. \A w \in Verifiers : journal'[w] = IF w = v THEN k ELSE journal[w]
      BY <1>1, <1>5 DEF TypeOK
    <2>2. \A w \in Verifiers : Backed(journal'[w]) /\ JustlyFrozen(journal'[w])
      BY <1>5, <2>1 DEF ForkInv
    <2> QED
      BY <1>5, <2>2 DEF ForkInv, Backed, Backs, JustlyFrozen, Equivocations, Behind, Drafts
  <1>6. CASE OfferStep
    <2>1. PICK v \in Verifiers, s \in Drafts : Offer(v, s)
      BY <1>6 DEF OfferStep
    <2>2. s \in Statements /\ Backed(journal[v]) /\ JustlyFrozen(journal[v])
      BY <1>1 DEF TypeOK, Drafts, ForkInv
    <2>3. Backed(AfterAccept(s, journal[v])) /\ JustlyFrozen(AfterAccept(s, journal[v]))
      BY <1>1, <2>2, AcceptedBacked, ForkBacked DEF AfterAccept
    <2> QED
      BY <1>5, <2>1, <2>3 DEF Offer
  <1>7. CASE RecoverStep
    <2>1. PICK v \in Verifiers, epoch \in Epochs : Recover(v, epoch)
      BY <1>7 DEF RecoverStep
    <2>2. \A used : /\ Backed(NewJournal(epoch, GenesisKeys[epoch], used))
                    /\ JustlyFrozen(NewJournal(epoch, GenesisKeys[epoch], used))
      BY DEF NewJournal, Backed, JustlyFrozen
    <2> QED
      BY <1>5, <2>1, <2>2 DEF Recover
  <1> QED
    BY <1>3, <1>4, <1>6, <1>7 DEF Next

-----------------------------------------------------------------------------
(* A set of naturals has a least element.                                  *)
LEMMA LeastNatural ==
  ASSUME NEW S \in SUBSET Nat, S # {}
  PROVE  \E h \in S : \A b \in S : h <= b
  <1> DEFINE R == {p \in Nat \X Nat : p[1] < p[2]}
  <1>1. OpToRel(<, Nat) = R
    BY DEF OpToRel
  <1>2. IsWellFoundedOn(R, Nat)
    BY <1>1, NatLessThanWellFounded
  <1>3. \A a, b \in Nat : <<a, b>> \in R <=> a < b
    OBVIOUS
  <1> HIDE DEF R
  <1>4. \E h \in S : \A b \in S : ~(<<b, h>> \in R)
    BY <1>2, WFMin
  <1>5. PICK h \in S : \A b \in S : ~(<<b, h>> \in R)
    BY <1>4
  <1>6. \A b \in S : b \in Nat /\ h \in Nat /\ ~(b < h)
    BY <1>3, <1>5
  <1> QED
    BY <1>6

(* Where two chains of one epoch part for the first time, the key both had *)
(* come to signed two statements.                                          *)
LEMMA PartedByEquivocation ==
  ASSUME NEW j \in JournalType, NEW k \in JournalType, Chained(j), Chained(k), Backed(j), Backed(k),
         j.recovery_epoch = k.recovery_epoch, NEW i \in 1..j.sequence, i \in 1..k.sequence,
         j.accepted[i] # k.accepted[i],
         \A h \in 1..(i - 1) : j.accepted[h] = k.accepted[h]
  PROVE  \E p \in Equivocations : p[1].sequence = i
  <1>1. PICK s : Backs(s, j, i)
    BY DEF Backed
  <1>2. PICK t : Backs(t, k, i)
    BY DEF Backed
  <1>3. Holder(j, i) = Holder(k, i)
    <2>1. CASE i = 1
      BY <2>1 DEF Holder
    <2>2. CASE i # 1
      <3>1. i - 1 \in 1..(i - 1)
        BY <2>2
      <3>2. j.accepted[i - 1] = k.accepted[i - 1]
        BY <3>1
      <3> QED
        BY <2>2, <3>2 DEF Holder
    <2> QED
      BY <2>1, <2>2
  <1>4. j.accepted[i].old_key = k.accepted[i].old_key /\ j.accepted[i].sequence = k.accepted[i].sequence
    BY <1>3 DEF Chained, Linked
  <1>5. s # t
    <2>1. j.accepted[i] \in AcceptedType /\ k.accepted[i] \in AcceptedType
      <3>1. /\ j.accepted \in Seq(AcceptedType) /\ k.accepted \in Seq(AcceptedType)
            /\ Len(j.accepted) = j.sequence /\ Len(k.accepted) = k.sequence
        BY DEF JournalType, AcceptedType, Chained
      <3> QED
        BY <3>1
    <2>2. j.accepted[i].digest # k.accepted[i].digest
      BY <1>4, <2>1 DEF AcceptedType
    <2> QED
      BY <1>1, <1>2, <2>2 DEF Backs
  <1>6. <<s, t>> \in Equivocations
    BY <1>1, <1>2, <1>4, <1>5 DEF Backs, Equivocations
  <1> QED
    BY <1>1, <1>6 DEF Backs

(* Two chains of one epoch agree, or a key signed twice.                   *)
LEMMA ChainsAgree ==
  ASSUME NEW j \in JournalType, NEW k \in JournalType, Chained(j), Chained(k), Backed(j), Backed(k),
         j.recovery_epoch = k.recovery_epoch, j.sequence <= k.sequence
  PROVE  \/ IsPrefix(j.accepted, k.accepted)
         \/ \E p \in Equivocations : p[1].sequence <= j.sequence
  <1> DEFINE S == {i \in 1..j.sequence : j.accepted[i] # k.accepted[i]}
  <1>1. /\ j.accepted \in Seq(AcceptedType) /\ k.accepted \in Seq(AcceptedType)
        /\ Len(j.accepted) = j.sequence /\ Len(k.accepted) = k.sequence
        /\ j.sequence \in Nat /\ k.sequence \in Nat
    BY MaxSeqAssumption DEF JournalType, AcceptedType, Chained
  <1>2. CASE S = {}
    <2>1. \A i \in 1..j.sequence : j.accepted[i] = k.accepted[i]
      BY <1>2
    <2>2. SubSeq(j.accepted, 1, Len(j.accepted)) = SubSeq(k.accepted, 1, Len(j.accepted))
      BY <1>1, <2>1
    <2> QED
      BY <1>1, <2>2 DEF IsPrefix
  <1>3. CASE S # {}
    <2>1. S \in SUBSET Nat
      BY <1>1
    <2>2. PICK i \in S : \A b \in S : i <= b
      BY <1>3, <2>1, LeastNatural
    <2>3. i \in 1..j.sequence /\ i \in 1..k.sequence /\ j.accepted[i] # k.accepted[i]
      BY <1>1, <2>2
    <2>4. \A h \in 1..(i - 1) : j.accepted[h] = k.accepted[h]
      <3>1. ASSUME NEW h \in 1..(i - 1) PROVE h \in 1..j.sequence /\ ~(i <= h)
        BY <1>1, <2>3, <3>1
      <3> QED
        BY <2>2, <3>1
    <2>5. \E p \in Equivocations : p[1].sequence = i
      BY <2>3, <2>4, PartedByEquivocation
    <2> QED
      BY <2>3, <2>5
  <1> QED
    BY <1>2, <1>3

(* A fork between two verifiers, and a frozen journal, is the work of a    *)
(* holder of a key that signed two statements for one place in the chain   *)
(* (accept_key_rotation_statement_v2).                                     *)
THEOREM ForksHold == Spec => []ForkedByEquivocation
  <1>1. Init => ForkInv
    BY DEF Init, ForkInv, NewJournal, Backed, JustlyFrozen
  <1>2. KeyInv /\ ForkInv => ForkedByEquivocation
    <2> SUFFICES ASSUME KeyInv, ForkInv PROVE ForkedByEquivocation
      OBVIOUS
    <2>1. FrozenByEquivocation
      BY DEF ForkInv, JustlyFrozen, FrozenByEquivocation
    <2>2. \A v \in Verifiers : /\ journal[v] \in JournalType /\ Chained(journal[v])
                               /\ Backed(journal[v])
      BY DEF KeyInv, TypeOK, HistorySound, ChainLinked, ForkInv
    <2>3. ASSUME NEW v \in Verifiers, NEW w \in Verifiers,
                 journal[v].recovery_epoch = journal[w].recovery_epoch
          PROVE  \/ IsPrefix(journal[v].accepted, journal[w].accepted)
                 \/ IsPrefix(journal[w].accepted, journal[v].accepted)
                 \/ \E p \in Equivocations : /\ p[1].sequence <= Len(journal[v].accepted)
                                             /\ p[1].sequence <= Len(journal[w].accepted)
      <3>1. /\ Len(journal[v].accepted) = journal[v].sequence
            /\ Len(journal[w].accepted) = journal[w].sequence
            /\ journal[v].sequence \in Nat /\ journal[w].sequence \in Nat
        BY <2>2, MaxSeqAssumption DEF Chained, JournalType
      <3>2. \A p \in Equivocations : p[1].sequence \in Nat
        BY MaxSeqAssumption DEF Equivocations, KeyInv, TypeOK, Statements
      <3>3. CASE journal[v].sequence <= journal[w].sequence
        <4>1. \/ IsPrefix(journal[v].accepted, journal[w].accepted)
              \/ \E p \in Equivocations : p[1].sequence <= journal[v].sequence
          BY <2>2, <2>3, <3>3, ChainsAgree
        <4> QED
          BY <3>1, <3>2, <3>3, <4>1
      <3>4. CASE journal[w].sequence <= journal[v].sequence
        <4>1. \/ IsPrefix(journal[w].accepted, journal[v].accepted)
              \/ \E p \in Equivocations : p[1].sequence <= journal[w].sequence
          BY <2>2, <2>3, <3>4, ChainsAgree
        <4> QED
          BY <3>1, <3>2, <3>4, <4>1
      <3> QED
        BY <3>1, <3>3, <3>4
    <2>4. ForksNeedEquivocation
      BY <2>3 DEF ForksNeedEquivocation
    <2> QED
      BY <2>1, <2>4 DEF ForkedByEquivocation
  <1> QED
    BY <1>1, <1>2, InitKeys, NextKeeps, NextKeepsForks, PTL DEF Spec

-----------------------------------------------------------------------------
(* Witness logs.                                                           *)

HeadType == [sequence : Nat, hash : Nat, accepted : Seq(Nat \ {0}), frozen : BOOLEAN]

WitnessTypeOK == signed \in Seq(Entry) /\ head \in [Readers -> HeadType]

(* A reader holds signed entries only.                                     *)
HeldSigned == \A r \in Readers : \A n \in 1..head[r].sequence : head[r].accepted[n] \in Digests

WitnessInv == WitnessTypeOK /\ HeldSigned /\ WitnessedHistory

-----------------------------------------------------------------------------
(* A frozen head is a head.                                                *)
LEMMA FrozenHead ==
  ASSUME NEW h \in HeadType PROVE [h EXCEPT !.frozen = TRUE] \in HeadType
  BY DEF HeadType

(* What an appended entry is: the next of this log, linked to the head.    *)
LEMMA AppendedIsNext ==
  ASSUME WitnessTypeOK, NEW r \in Readers, NEW d \in Digests,
         verify_witness_entry_v2(d, head[r]) = "Appended"
  PROVE  /\ signed[d].sequence = head[r].sequence + 1
         /\ signed[d].prev = head[r].hash
         /\ signed[d].witness = "w" /\ signed[d].log = "l"
         /\ validate_head(head[r]) /\ ~head[r].frozen
  <1>1. head[r] \in HeadType
    BY DEF WitnessTypeOK
  <1>2. signed[d] \in Entry
    BY DEF WitnessTypeOK, Digests
  <1>3. /\ validate_head(head[r])
        /\ signed[d].witness = "w" /\ signed[d].log = "l"
        /\ log_position(signed[d], d, head[r]) = "Appended"
    BY DEF verify_witness_entry_v2
  <1> QED
    BY <1>1, <1>2, <1>3 DEF log_position, HeadType, Entry

(* What a fork shows: another entry stands at the position of this one.    *)
LEMMA ForkIsEquivocation ==
  ASSUME WitnessInv, NEW r \in Readers, NEW d \in Digests,
         verify_witness_entry_v2(d, head[r]) = "LogFork"
  PROVE  Equivocated
  <1>1. head[r] \in HeadType /\ signed[d] \in Entry
    BY DEF WitnessInv, WitnessTypeOK, Digests
  <1>2. /\ signed[d].witness = "w" /\ signed[d].log = "l"
        /\ log_position(signed[d], d, head[r]) = "LogFork"
    BY DEF verify_witness_entry_v2
  <1> DEFINE n == signed[d].sequence
             c == head[r].accepted[n]
  <1>3. n \in 1..head[r].sequence /\ c # d
    BY <1>1, <1>2 DEF log_position, HeadType, Entry
  <1>4. c \in Digests
    BY <1>3 DEF WitnessInv, HeldSigned
  <1>5. signed[c].sequence = n /\ signed[c].witness = "w" /\ signed[c].log = "l"
    BY <1>3 DEF WitnessInv, WitnessedHistory, LogChained, StandsAt
  <1> QED
    BY <1>2, <1>3, <1>4, <1>5 DEF Equivocated

(* Signing takes nothing away: what was signed stays where it was.         *)
LEMMA SigningExtends ==
  ASSUME WitnessTypeOK, NEW e \in Signable, sign_witness_entry_v2(e)
  PROVE  /\ signed' \in Seq(Entry) /\ Digests \subseteq Digests'
         /\ \A d \in Digests : signed'[d] = signed[d]
         /\ Equivocated => Equivocated'
  <1>1. e \in Entry
    BY WitnessAssumption
  <1>2. /\ signed' \in Seq(Entry) /\ Digests \subseteq Digests'
        /\ \A d \in Digests : signed'[d] = signed[d]
    BY <1>1 DEF sign_witness_entry_v2, WitnessTypeOK, Digests
  <1>3. ASSUME Equivocated PROVE Equivocated'
    <2>1. PICK c \in Digests, d \in Digests :
            /\ c # d /\ signed[c].sequence = signed[d].sequence
            /\ \A i \in {c, d} : signed[i].witness = "w" /\ signed[i].log = "l"
      BY <1>3 DEF Equivocated
    <2>2. c \in Digests' /\ d \in Digests' /\ signed'[c] = signed[c] /\ signed'[d] = signed[d]
      BY <1>2
    <2> QED
      BY <2>1, <2>2 DEF Equivocated
  <1> QED
    BY <1>2, <1>3

-----------------------------------------------------------------------------
(* Two readers that differ somewhere hold two entries for one position.    *)
LEMMA DifferenceIsEquivocation ==
  ASSUME HeldSigned, LogChained, NEW r \in Readers, NEW s \in Readers,
         NEW n \in 1..head[r].sequence, n \in 1..head[s].sequence,
         head[r].accepted[n] # head[s].accepted[n]
  PROVE  Equivocated
  <1> DEFINE c == head[r].accepted[n]
             d == head[s].accepted[n]
  <1>1. c \in Digests /\ d \in Digests
    BY DEF HeldSigned
  <1>2. /\ signed[c].sequence = n /\ signed[c].witness = "w" /\ signed[c].log = "l"
        /\ signed[d].sequence = n /\ signed[d].witness = "w" /\ signed[d].log = "l"
    BY DEF LogChained, StandsAt
  <1> QED
    BY <1>1, <1>2 DEF Equivocated

(* A step that only signs keeps the invariant.                             *)
LEMMA SignLogKeeps ==
  ASSUME WitnessInv, NEW e \in Signable, sign_witness_entry_v2(e)
  PROVE  WitnessInv'
  <1>1. head' = head
    BY DEF sign_witness_entry_v2
  <1>2. /\ signed' \in Seq(Entry) /\ Digests \subseteq Digests'
        /\ \A d \in Digests : signed'[d] = signed[d]
        /\ Equivocated => Equivocated'
    BY SigningExtends DEF WitnessInv
  <1>3. WitnessTypeOK' /\ HeldSigned'
    BY <1>1, <1>2 DEF WitnessInv, WitnessTypeOK, HeldSigned
  <1>4. LogChained'
    <2> SUFFICES ASSUME NEW r \in Readers
                 PROVE  /\ validate_head(head[r])
                        /\ \A n \in 1..head[r].sequence :
                             StandsAt(n, signed'[head[r].accepted[n]], head[r])
      BY <1>1 DEF LogChained
    <2>1. \A n \in 1..head[r].sequence :
            signed'[head[r].accepted[n]] = signed[head[r].accepted[n]]
      BY <1>2 DEF WitnessInv, HeldSigned
    <2> QED
      BY <2>1 DEF WitnessInv, WitnessedHistory, LogChained
  <1>5. HeadCommits'
    BY <1>1 DEF WitnessInv, WitnessedHistory, HeadCommits
  <1>6. SplitByEquivocation'
    BY <1>1, <1>2 DEF WitnessInv, WitnessedHistory, SplitByEquivocation
  <1> QED
    BY <1>3, <1>4, <1>5, <1>6 DEF WitnessInv, WitnessedHistory

-----------------------------------------------------------------------------
(* A step that appends to a reader's log keeps the invariant.              *)
LEMMA AppendKeeps ==
  ASSUME WitnessInv, NEW r \in Readers, NEW d \in Digests, Receive(r, d),
         verify_witness_entry_v2(d, head[r]) = "Appended"
  PROVE  WitnessInv'
  <1> DEFINE h == head[r]
             n == h.sequence + 1
             g == [sequence |-> n, hash |-> d, accepted |-> Append(h.accepted, d),
                   frozen |-> h.frozen]
  <1> USE DEF HeadType
  <1>1. h \in HeadType /\ d \in Nat \ {0} /\ signed[d] \in Entry
    BY DEF WitnessInv, WitnessTypeOK, Digests
  <1>13. h.sequence \in Nat /\ n \in Nat /\ n - 1 = h.sequence /\ h.sequence < n
    BY <1>1
  <1>2. /\ signed[d].sequence = n /\ signed[d].prev = h.hash
        /\ signed[d].witness = "w" /\ signed[d].log = "l"
        /\ Len(h.accepted) = h.sequence
        /\ h.sequence = 0 => h.hash = 0
        /\ h.sequence > 0 => h.accepted[h.sequence] = h.hash
    BY AppendedIsNext DEF WitnessInv, validate_head
  <1>3. head' = [head EXCEPT ![r] = g] /\ signed' = signed
    BY DEF Receive, After
  <1>12. g \in HeadType
    BY <1>1
  <1>4. /\ head' \in [Readers -> HeadType]
        /\ head'[r] = g
        /\ \A s \in Readers : s # r => head'[s] = head[s]
    <2> HIDE DEF g, HeadType
    <2> QED
      BY <1>12, <1>3 DEF WitnessInv, WitnessTypeOK
  <1>5. /\ g.sequence = n /\ Len(g.accepted) = n /\ g.accepted[n] = d
        /\ g.hash = d /\ g.frozen = h.frozen
        /\ \A m \in 1..h.sequence : g.accepted[m] = h.accepted[m]
    BY <1>1, <1>2
  <1> HIDE DEF g
  <1>6. WitnessTypeOK'
    BY <1>3, <1>4 DEF WitnessInv, WitnessTypeOK
  <1>7. HeldSigned'
    <2> SUFFICES ASSUME NEW s \in Readers, NEW m \in 1..head'[s].sequence
                 PROVE  head'[s].accepted[m] \in Digests
      BY <1>3 DEF HeldSigned, Digests
    <2>1. CASE s # r
      BY <2>1, <1>4 DEF WitnessInv, HeldSigned
    <2>2. CASE s = r /\ m = n
      BY <2>2, <1>4, <1>5
    <2>3. CASE s = r /\ m # n
      <3>1. m \in 1..h.sequence
        BY <2>3, <1>1, <1>4, <1>5
      <3> QED
        BY <3>1, <2>3, <1>4, <1>5 DEF WitnessInv, HeldSigned
    <2> QED
      BY <2>1, <2>2, <2>3
  <1>8. LogChained'
    <2> SUFFICES ASSUME NEW s \in Readers
                 PROVE  /\ validate_head(head'[s])
                        /\ \A m \in 1..head'[s].sequence :
                             StandsAt(m, signed[head'[s].accepted[m]], head'[s])
      BY <1>3 DEF LogChained
    <2>1. CASE s # r
      <3>1. head'[s] = head[s]
        BY <2>1, <1>4
      <3> QED
        BY <3>1 DEF WitnessInv, WitnessedHistory, LogChained
    <2>2. CASE s = r
      <3>1. validate_head(g)
        BY <1>1, <1>5 DEF validate_head
      <3>2. ASSUME NEW m \in 1..h.sequence
            PROVE  StandsAt(m, signed[g.accepted[m]], g)
        <4>1. g.accepted[m] = h.accepted[m] /\ (m # 1 => g.accepted[m - 1] = h.accepted[m - 1])
          <5>1. m # 1 => m - 1 \in 1..h.sequence
            BY <1>13
          <5> QED
            BY <5>1, <1>5
        <4>2. StandsAt(m, signed[h.accepted[m]], h)
          BY DEF WitnessInv, WitnessedHistory, LogChained
        <4> QED
          BY <4>1, <4>2, <1>1 DEF StandsAt
      <3>3. StandsAt(n, signed[g.accepted[n]], g)
        <4>1. n # 1 => h.sequence \in 1..h.sequence /\ n - 1 = h.sequence /\ h.sequence > 0
          <5> HIDE DEF h, n
          <5> QED
            BY <1>13
        <4>2. n = 1 => h.sequence = 0
          BY <1>13
        <4> QED
          BY <4>1, <4>2, <1>2, <1>5 DEF StandsAt
      <3>4. \A m \in 1..n : m \in 1..h.sequence \/ m = n
        BY <1>1
      <3>5. head'[s] = g /\ g.sequence = n
        BY <2>2, <1>4, <1>5
      <3> QED
        BY <3>1, <3>2, <3>3, <3>4, <3>5
    <2> QED
      BY <2>1, <2>2
  <1>9. HeadCommits'
    <2>1. ASSUME NEW s \in Readers, s # r, n <= head[s].sequence, head[s].accepted[n] = d
          PROVE  \A m \in 1..h.sequence : h.accepted[m] = head[s].accepted[m]
      <3>1. CASE h.sequence = 0
        BY <3>1
      <3>2. CASE h.sequence > 0
        <4>0. head[s] \in HeadType
          BY DEF WitnessInv, WitnessTypeOK
        <4>5. n \in 1..head[s].sequence /\ n # 1
          BY <2>1, <3>2, <4>0, <1>1
        <4>1. signed[d].prev = head[s].accepted[n - 1]
          BY <4>5, <2>1 DEF WitnessInv, WitnessedHistory, LogChained, StandsAt
        <4>2. h.accepted[h.sequence] = head[s].accepted[h.sequence]
          BY <4>1, <3>2, <1>1, <1>2, n - 1 = h.sequence
        <4>3. h.sequence \in 1..h.sequence /\ h.sequence <= head[s].sequence
          BY <3>2, <1>1, <2>1, <4>0
        <4> QED
          BY <4>2, <4>3 DEF WitnessInv, WitnessedHistory, HeadCommits
      <3> QED
        BY <3>1, <3>2, <1>1
    <2>2. ASSUME NEW p \in Readers, NEW q \in Readers, NEW k \in 1..head'[p].sequence,
                 k <= head'[q].sequence, head'[p].accepted[k] = head'[q].accepted[k],
                 NEW m \in 1..k
          PROVE  head'[p].accepted[m] = head'[q].accepted[m]
      <3>0. head[p] \in HeadType /\ head[q] \in HeadType
        BY DEF WitnessInv, WitnessTypeOK
      <3>1. CASE p # r /\ q # r
        <4>1. head'[p] = head[p] /\ head'[q] = head[q]
          BY <3>1, <1>4
        <4> QED
          BY <4>1, <2>2 DEF WitnessInv, WitnessedHistory, HeadCommits
      <3>2. CASE p = r /\ q = r
        BY <3>2
      <3>3. CASE k = n /\ m # n /\ (p = r \/ q = r)
        <4>1. m \in 1..h.sequence /\ g.accepted[m] = h.accepted[m]
          BY <3>3, <1>1, <1>5
        <4>2. ASSUME NEW s \in Readers, s # r, n <= head'[s].sequence, head'[s].accepted[n] = d
              PROVE  head'[s].accepted[m] = g.accepted[m]
          BY <4>1, <4>2, <2>1, <1>4
        <4>3. CASE p = r /\ q # r
          BY <4>3, <4>2, <3>3, <2>2, <1>4, <1>5
        <4>4. CASE q = r /\ p # r
          <5>1. n <= head'[p].sequence /\ head'[p].accepted[n] = d
            BY <4>4, <3>0, <3>3, <2>2, <1>1, <1>4, <1>5
          <5> QED
            BY <5>1, <4>4, <4>2, <1>4
        <4> QED
          BY <4>3, <4>4, <3>2, <3>3
      <3>4. CASE k # n /\ (p = r \/ q = r)
        <4>1. k \in 1..h.sequence /\ k \in 1..head[p].sequence /\ k \in 1..head[q].sequence
          <5>1. \A s \in {p, q} : s = r => k \in 1..n
            BY <3>0, <2>2, <1>1, <1>4, <1>5
          <5>2. k \in 1..h.sequence
            BY <5>1, <3>4, <1>1
          <5>3. \A s \in {p, q} : s # r => k <= head[s].sequence
            <6>1. head'[p].sequence \in Nat
              BY <1>4
            <6>2. \A s \in Readers : s # r => head'[s].sequence = head[s].sequence
              BY <1>4
            <6>3. k <= head'[p].sequence
              BY <6>1
            <6> QED
              BY <6>2, <6>3, <2>2
          <5> QED
            BY <5>2, <5>3, <3>0, <1>1
        <4>2. \A i \in 1..k : /\ head'[p].accepted[i] = head[p].accepted[i]
                              /\ head'[q].accepted[i] = head[q].accepted[i]
          <5>1. \A i \in 1..k : i \in 1..h.sequence
            BY <4>1, <1>13
          <5>2. \A s \in {p, q} : \A i \in 1..h.sequence :
                  head'[s].accepted[i] = head[s].accepted[i]
            <6> HIDE DEF n
            <6> QED
              BY <1>4, <1>5
          <5> QED
            BY <5>1, <5>2
        <4>3. head[p].accepted[k] = head[q].accepted[k]
          BY <4>1, <4>2, <2>2
        <4>4. head[p].accepted[m] = head[q].accepted[m]
          BY <4>1, <4>3, <3>0 DEF WitnessInv, WitnessedHistory, HeadCommits
        <4> QED
          BY <4>2, <4>4
      <3>5. CASE k = n /\ m = n
        BY <3>5, <2>2
      <3> QED
        BY <3>1, <3>2, <3>3, <3>4, <3>5
    <2> QED
      BY <2>2 DEF HeadCommits
  <1>10. Equivocated' <=> Equivocated
    BY <1>3 DEF Equivocated, Digests
  <1>11. SplitByEquivocation'
    <2>1. \A s \in Readers : head'[s].frozen => Equivocated
      BY <1>4, <1>5 DEF WitnessInv, WitnessedHistory, SplitByEquivocation
    <2>2. ASSUME NEW p \in Readers, NEW q \in Readers, NEW k \in 1..head'[p].sequence,
                 k <= head'[q].sequence, head'[p].accepted[k] # head'[q].accepted[k]
          PROVE  Equivocated'
      <3>1. k \in 1..head'[q].sequence
        BY <2>2, <1>4
      <3> DEFINE c == head'[p].accepted[k]
                 e == head'[q].accepted[k]
      <3>2. c \in Digests' /\ e \in Digests'
        BY <1>7, <3>1 DEF HeldSigned
      <3>3. /\ signed'[c].sequence = k /\ signed'[c].witness = "w" /\ signed'[c].log = "l"
            /\ signed'[e].sequence = k /\ signed'[e].witness = "w" /\ signed'[e].log = "l"
        BY <1>8, <3>1 DEF LogChained, StandsAt
      <3> QED
        BY <2>2, <3>2, <3>3 DEF Equivocated
    <2> QED
      BY <2>1, <2>2, <1>10 DEF SplitByEquivocation
  <1> QED
    BY <1>6, <1>7, <1>8, <1>9, <1>11 DEF WitnessInv, WitnessedHistory

(* A step that freezes a log, or changes nothing, keeps the invariant.     *)
LEMMA OtherwiseKeeps ==
  ASSUME WitnessInv, NEW r \in Readers, NEW d \in Digests, Receive(r, d),
         verify_witness_entry_v2(d, head[r]) # "Appended"
  PROVE  WitnessInv'
  <1> USE DEF HeadType
  <1>1. signed' = signed /\ head' \in [Readers -> HeadType]
    BY DEF Receive, After, WitnessInv, WitnessTypeOK
  <1>2. \A s \in Readers :
          /\ head'[s].sequence = head[s].sequence /\ head'[s].accepted = head[s].accepted
          /\ head'[s].hash = head[s].hash
          /\ head'[s].frozen => head[s].frozen \/ Equivocated
    BY ForkIsEquivocation DEF Receive, After, WitnessInv, WitnessTypeOK
  <1>3. Equivocated' <=> Equivocated
    BY <1>1 DEF Equivocated, Digests
  <1>4. WitnessTypeOK' /\ HeldSigned'
    BY <1>1, <1>2 DEF WitnessInv, WitnessTypeOK, HeldSigned, Digests
  <1>5. LogChained'
    <2> SUFFICES ASSUME NEW s \in Readers
                 PROVE  /\ validate_head(head'[s])
                        /\ \A m \in 1..head'[s].sequence :
                             StandsAt(m, signed[head'[s].accepted[m]], head'[s])
      BY <1>1 DEF LogChained
    <2>1. validate_head(head'[s])
      BY <1>2 DEF WitnessInv, WitnessedHistory, LogChained, validate_head
    <2>2. head'[s].sequence = head[s].sequence /\ head'[s].accepted = head[s].accepted
      BY <1>2
    <2>3. \A m \in 1..head[s].sequence : StandsAt(m, signed[head[s].accepted[m]], head[s])
      BY DEF WitnessInv, WitnessedHistory, LogChained
    <2> QED
      BY <2>1, <2>2, <2>3 DEF StandsAt
  <1>6. HeadCommits'
    BY <1>2 DEF WitnessInv, WitnessedHistory, HeadCommits
  <1>7. SplitByEquivocation'
    BY <1>2, <1>3 DEF WitnessInv, WitnessedHistory, SplitByEquivocation
  <1> QED
    BY <1>4, <1>5, <1>6, <1>7 DEF WitnessInv, WitnessedHistory

-----------------------------------------------------------------------------
(* What a reader holds of a witness log is a chain, and only a witness     *)
(* that signed twice for one position parts two readers or freezes one     *)
(* (validate_head and log_position of witness.rs).                         *)
THEOREM WitnessedHistoryHolds == WitnessSpec => []WitnessedHistory
  <1>1. WitnessInit => WitnessInv
    BY DEF WitnessInit, WitnessInv, WitnessTypeOK, HeldSigned, WitnessedHistory, LogChained,
           HeadCommits, SplitByEquivocation, NewHead, validate_head, HeadType, Digests
  <1>2. WitnessInv /\ [WitnessNext]_witnessVars => WitnessInv'
    <2> SUFFICES ASSUME WitnessInv, [WitnessNext]_witnessVars PROVE WitnessInv'
      OBVIOUS
    <2>1. CASE \E e \in Signable : sign_witness_entry_v2(e)
      BY <2>1, SignLogKeeps
    <2>2. CASE \E r \in Readers, d \in Digests : Receive(r, d)
      BY <2>2, AppendKeeps, OtherwiseKeeps
    <2>3. CASE UNCHANGED witnessVars
      BY <2>3 DEF witnessVars, WitnessInv, WitnessTypeOK, HeldSigned, WitnessedHistory, LogChained,
                  HeadCommits, SplitByEquivocation, Equivocated, validate_head, Digests
    <2> QED
      BY <2>1, <2>2, <2>3 DEF WitnessNext
  <1>3. WitnessInv => WitnessedHistory
    BY DEF WitnessInv
  <1> QED
    BY <1>1, <1>2, <1>3, PTL DEF WitnessSpec

(* A frozen log accepts nothing more, whatever a reader is sent            *)
(* (log_position answers LogFrozen to all that is new).                    *)
THEOREM FrozenLogHolds == WitnessSpec => FrozenLog
  <1>1. WitnessTypeOK /\ [WitnessNext]_witnessVars => [FrozenLogStep]_witnessVars
    <2> SUFFICES ASSUME WitnessTypeOK, WitnessNext PROVE FrozenLogStep
      BY DEF witnessVars
    <2>1. CASE \E e \in Signable : sign_witness_entry_v2(e)
      BY <2>1 DEF sign_witness_entry_v2, FrozenLogStep
    <2>2. CASE \E r \in Readers, d \in Digests : Receive(r, d)
      <3>1. PICK r \in Readers, d \in Digests : Receive(r, d)
        BY <2>2
      <3>2. verify_witness_entry_v2(d, head[r]) = "Appended" => ~head[r].frozen
        BY AppendedIsNext
      <3> QED
        BY <3>1, <3>2 DEF Receive, After, FrozenLogStep, WitnessTypeOK, HeadType
    <2> QED
      BY <2>1, <2>2 DEF WitnessNext
  <1>2. WitnessSpec => []WitnessTypeOK
    <2>1. WitnessInit => WitnessTypeOK
      BY DEF WitnessInit, WitnessTypeOK, NewHead, HeadType
    <2>2. WitnessTypeOK /\ [WitnessNext]_witnessVars => WitnessTypeOK'
      <3> SUFFICES ASSUME WitnessTypeOK, [WitnessNext]_witnessVars PROVE WitnessTypeOK'
        OBVIOUS
      <3>1. CASE \E e \in Signable : sign_witness_entry_v2(e)
        BY <3>1, SigningExtends DEF WitnessTypeOK, sign_witness_entry_v2
      <3>2. CASE \E r \in Readers, d \in Digests : Receive(r, d)
        <4>1. PICK r \in Readers, d \in Digests : Receive(r, d)
          BY <3>2
        <4>2. head[r] \in HeadType /\ d \in Nat \ {0}
          BY DEF WitnessTypeOK, Digests
        <4> DEFINE h == head[r]
        <4>4. [sequence |-> h.sequence + 1, hash |-> d,
               accepted |-> Append(h.accepted, d), frozen |-> h.frozen] \in HeadType
          BY <4>2 DEF HeadType
        <4>5. [h EXCEPT !.frozen = TRUE] \in HeadType
          BY <4>2, FrozenHead
        <4>3. After(h, d, verify_witness_entry_v2(d, h)) \in HeadType
          BY <4>2, <4>4, <4>5 DEF After
        <4> QED
          BY <4>1, <4>3 DEF Receive, WitnessTypeOK
      <3>3. CASE UNCHANGED witnessVars
        BY <3>3 DEF witnessVars, WitnessTypeOK
      <3> QED
        BY <3>1, <3>2, <3>3 DEF WitnessNext
    <2> QED
      BY <2>1, <2>2, PTL DEF WitnessSpec
  <1> QED
    BY <1>1, <1>2, PTL DEF WitnessSpec, FrozenLog

-----------------------------------------------------------------------------
(* Challenge issuance, for any calls, random source, requests,             *)
(* presentations and policy.                                               *)

ValidRequests == {q \in Requests : ValidRequest(q)}

(* The records the issuance of a valid request may store.                  *)
RequestedRecords == {RecordOf(q, t, v) : q \in ValidRequests, t \in Nat, v \in Values}

IssuerStates ==
  [pc : {"idle", "draw", "persist", "issued", "failed"}, req : Requests \cup {NoRecord},
   issuedAt : Nat, attempts : Nat, record : RequestedRecords \cup {NoRecord}]

(* A call between its steps holds a valid request and, before it persists, *)
(* the record made of it.                                                  *)
CallsSound ==
  /\ issuer \in [Issuers -> IssuerStates]
  /\ \A i \in Issuers : issuer[i].pc \in {"draw", "persist"} => issuer[i].req \in ValidRequests
  /\ \A i \in Issuers : issuer[i].pc = "persist" => issuer[i].record \in RequestedRecords

(* One record for each key, made of a valid request; what was handed out   *)
(* is among them, under a key no other call holds.                         *)
RecordsSound ==
  /\ records \subseteq RequestedRecords
  /\ \A r, s \in records : Key(r) = Key(s) => r = s
  /\ exposed \in [Issuers -> SUBSET records]
  /\ \A i, j \in Issuers : i # j => \A r \in exposed[i], s \in exposed[j] : Key(r) # Key(s)

ConfigSound ==
  /\ clock \in Nat
  /\ cfg \in [ns : {"n"}, epoch : Nat, verifier : {"v"}, maxAge : {MaxLifetime}, skew : {0}, scope : {"act"}]

(* The record a presentation was admitted for, and what preflight compared *)
(* it with.                                                                *)
AdmittedFor(a, r) ==
  /\ r.value = a.proof.value /\ r.issuedAt = a.proof.at /\ r.epoch = a.epoch
  /\ r.ns = "n" /\ r.verifier = a.proof.verifier
  /\ a.at >= r.issuedAt /\ a.at - r.issuedAt < MaxLifetime /\ a.at < r.expiresAt
  /\ r.agent # None => a.proof.agent = r.agent
  /\ r.session # None => a.proof.session = r.session
  /\ r.receiver = None => a.proof.audience = {}
  /\ \A c \in a.proof.audience : c.domains # {} \/ r.receiver \in c.exact
  /\ Policy.bound /\ r.session # None => ContextAssessment(a.proof, Policy) = "bound"

AdmittedSound == \A a \in admitted : \E r \in records : AdmittedFor(a, r)

IssuanceInv == CallsSound /\ RecordsSound /\ ConfigSound /\ AdmittedSound

LEMMA IssuanceInitInv == IssuanceInit => IssuanceInv
<1> SUFFICES ASSUME IssuanceInit PROVE IssuanceInv
  OBVIOUS
<1>1. CallsSound
  BY DEF IssuanceInit, CallsSound, IssuerStates, Idle
<1>2. RecordsSound
  BY DEF IssuanceInit, RecordsSound
<1>3. ConfigSound
  BY DEF IssuanceInit, ConfigSound
<1>4. AdmittedSound
  BY DEF IssuanceInit, AdmittedSound
<1> QED
  BY <1>1, <1>2, <1>3, <1>4 DEF IssuanceInv

(* A step of one call that neither persists nor presents.                  *)
LEMMA CallKeeps ==
  ASSUME IssuanceInv, NEW i \in Issuers, NEW next \in IssuerStates,
         issuer' = [issuer EXCEPT ![i] = next],
         next.pc \in {"draw", "persist"} => next.req \in ValidRequests,
         next.pc = "persist" => next.record \in RequestedRecords,
         UNCHANGED <<records, exposed, clock, cfg, admitted>>
  PROVE  IssuanceInv'
<1>1. CallsSound'
  BY DEF IssuanceInv, CallsSound
<1>2. RecordsSound' /\ ConfigSound' /\ AdmittedSound'
  BY DEF IssuanceInv, RecordsSound, ConfigSound, AdmittedSound
<1> QED
  BY <1>1, <1>2 DEF IssuanceInv

LEMMA IdleStates == Idle \in IssuerStates /\ Failed \in IssuerStates /\ Failed.pc = "failed"
BY DEF Idle, Failed, IssuerStates

LEMMA BeginInv ==
  ASSUME IssuanceInv, NEW i \in Issuers, NEW q \in Requests, NEW ok \in BOOLEAN, Begin(i, q, ok)
  PROVE  IssuanceInv'
<1> DEFINE begun == [issuer[i] EXCEPT !.pc = "draw", !.req = q, !.issuedAt = clock]
<1>1. issuer[i] \in IssuerStates /\ clock \in Nat
  BY DEF IssuanceInv, CallsSound, ConfigSound
<1>2. /\ begun \in IssuerStates /\ begun.pc = "draw" /\ begun.req = q
  BY <1>1 DEF IssuerStates
<1> HIDE DEF begun
<1>3. /\ \/ issuer' = [issuer EXCEPT ![i] = begun] /\ q \in ValidRequests
         \/ issuer' = [issuer EXCEPT ![i] = Failed]
      /\ UNCHANGED <<records, exposed, clock, cfg, admitted>>
  BY DEF Begin, begun, ValidRequests
<1> QED
  BY <1>2, <1>3, CallKeeps, IdleStates

LEMMA DrawInv ==
  ASSUME IssuanceInv, NEW i \in Issuers, NEW v \in Values, NEW ok \in BOOLEAN, Draw(i, v, ok)
  PROVE  IssuanceInv'
<1> DEFINE record == RecordOf(issuer[i].req, issuer[i].issuedAt, v)
           drawn == [issuer[i] EXCEPT !.pc = "persist", !.record = record]
<1>1. issuer[i] \in IssuerStates /\ issuer[i].req \in ValidRequests
  BY DEF Draw, IssuanceInv, CallsSound
<1>2. record \in RequestedRecords
  BY <1>1 DEF RequestedRecords, IssuerStates
<1> HIDE DEF record
<1>3. /\ drawn \in IssuerStates /\ drawn.pc = "persist"
      /\ drawn.req = issuer[i].req /\ drawn.record = record
  BY <1>1, <1>2 DEF IssuerStates
<1>4. /\ \/ issuer' = [issuer EXCEPT ![i] = drawn]
         \/ issuer' = [issuer EXCEPT ![i] = Failed]
      /\ UNCHANGED <<records, exposed, clock, cfg, admitted>>
  BY DEF Draw, record
<1> HIDE DEF drawn
<1> QED
  BY <1>1, <1>2, <1>3, <1>4, CallKeeps, IdleStates

(* The store writes under a fresh key only, and the call hands out what it *)
(* wrote only when the store said so.                                      *)
LEMMA PersistInv ==
  ASSUME IssuanceInv, NEW i \in Issuers, Persist(i)
  PROVE  IssuanceInv'
<1> DEFINE r == issuer[i].record
           again == [issuer[i] EXCEPT !.attempts = @ + 1, !.pc = "draw"]
           done == [Idle EXCEPT !.pc = "issued"]
<1>1. /\ issuer[i].pc = "persist" /\ issuer[i] \in IssuerStates
      /\ issuer[i].req \in ValidRequests /\ r \in RequestedRecords
  BY DEF Persist, IssuanceInv, CallsSound
<1>2. /\ again \in IssuerStates /\ again.pc = "draw" /\ again.req = issuer[i].req
  <2>1. issuer[i].attempts + 1 \in Nat
    BY <1>1 DEF IssuerStates
  <2> QED
    BY <1>1, <2>1 DEF IssuerStates
<1>3. done \in IssuerStates /\ done.pc = "issued"
  BY DEF IssuerStates, Idle
<1>4. \/ AfterPersist(i) = done /\ PersistResult(r) = "ok"
      \/ AfterPersist(i) = again
      \/ AfterPersist(i) = Failed
  BY DEF AfterPersist
<1> HIDE DEF again, done
<1>5. /\ AfterPersist(i) \in IssuerStates
      /\ AfterPersist(i).pc \in {"draw", "persist"} => AfterPersist(i).req \in ValidRequests
      /\ AfterPersist(i).pc # "persist"
      /\ AfterPersist(i).pc = "issued" => PersistResult(r) = "ok"
  BY <1>1, <1>2, <1>3, <1>4, IdleStates
<1>6. CallsSound'
  <2>1. issuer' = [issuer EXCEPT ![i] = AfterPersist(i)]
    BY DEF Persist
  <2> QED
    BY <1>5, <2>1 DEF IssuanceInv, CallsSound
<1>7. /\ records' = records \/ (records' = records \cup {r} /\ \A s \in records : Key(s) # Key(r))
      /\ PersistResult(r) = "ok" => records' = records \cup {r} /\ \A s \in records : Key(s) # Key(r)
  BY DEF Persist, Written, PersistResult, Stored
<1>8. /\ exposed' = [exposed EXCEPT ![i] = IF AfterPersist(i).pc = "issued" THEN @ \cup {r} ELSE @]
      /\ UNCHANGED <<clock, cfg, admitted>>
  BY DEF Persist
<1> HIDE DEF r
<1>9. records' \subseteq RequestedRecords /\ \A s, t \in records' : Key(s) = Key(t) => s = t
  BY <1>1, <1>7 DEF IssuanceInv, RecordsSound
<1>10. RecordsSound'
  <2>1. CASE AfterPersist(i).pc = "issued"
    <3>1. /\ records' = records \cup {r} /\ \A s \in records : Key(s) # Key(r)
      BY <1>5, <1>7, <2>1
    <3>2. exposed' = [exposed EXCEPT ![i] = exposed[i] \cup {r}]
      BY <1>8, <2>1
    <3>3. exposed' \in [Issuers -> SUBSET records']
      BY <3>1, <3>2 DEF IssuanceInv, RecordsSound
    <3>4. \A j, k \in Issuers : j # k => \A s \in exposed'[j], t \in exposed'[k] : Key(s) # Key(t)
      BY <3>1, <3>2 DEF IssuanceInv, RecordsSound
    <3> QED
      BY <1>9, <3>3, <3>4 DEF RecordsSound, Key
  <2>2. CASE AfterPersist(i).pc # "issued"
    <3>1. exposed' = exposed
      BY <1>8, <2>2 DEF IssuanceInv, RecordsSound
    <3> QED
      BY <1>7, <1>9, <3>1 DEF IssuanceInv, RecordsSound, Key
  <2> QED
    BY <2>1, <2>2
<1>11. ConfigSound' /\ AdmittedSound'
  BY <1>7, <1>8 DEF IssuanceInv, ConfigSound, AdmittedSound
<1> QED
  BY <1>6, <1>10, <1>11 DEF IssuanceInv

(* Preflight passes a presentation only for a record it agrees with.       *)
LEMMA PreflightAgrees ==
  ASSUME ConfigSound, NEW proof, NEW r \in RequestedRecords,
         PreflightResult(proof, r, Policy, cfg, clock) = "ok"
  PROVE  AdmittedFor([proof |-> proof, epoch |-> cfg.epoch, at |-> clock], r)
<1> DEFINE a == [proof |-> proof, epoch |-> cfg.epoch, at |-> clock]
<1>1. /\ ~PolicyConflict(r, Policy)
      /\ r.ns = cfg.ns /\ r.epoch = cfg.epoch
      /\ r.verifier = cfg.verifier /\ proof.verifier = cfg.verifier
      /\ proof.value = r.value /\ proof.at = r.issuedAt
      /\ TimeCurrent(clock, r.issuedAt, r.expiresAt, cfg.maxAge, cfg.skew)
      /\ BindingResult(proof, r) = "ok"
  BY DEF PreflightResult
<1>2. /\ (r.agent = None) = (r.key = None)
      /\ r.key # None => r.key = r.agent /\ proof.agent = r.key
      /\ r.session # None => proof.session = r.session
      /\ AudienceResult(proof, r.receiver) = "ok"
  BY <1>1 DEF BindingResult
<1>3. /\ r.receiver = None => proof.audience = {}
      /\ \A c \in proof.audience : c.domains # {} \/ r.receiver \in c.exact
  BY <1>2 DEF AudienceResult
<1>4. clock >= r.issuedAt /\ clock - r.issuedAt < MaxLifetime /\ clock < r.expiresAt
  <2>1. cfg.skew = 0 /\ cfg.maxAge = MaxLifetime /\ clock \in Nat /\ MaxLifetime \in Nat
    BY LimitsAssumption DEF ConfigSound
  <2>2. r.issuedAt \in Int
    BY <1>1, LimitsAssumption DEF TimeCurrent, ValidTimestamp
  <2> QED
    BY <1>1, <2>1, <2>2 DEF TimeCurrent
<1>5. Policy.bound /\ r.session # None => ContextAssessment(proof, Policy) = "bound"
  BY <1>1, <1>2, PolicyAssumption DEF PolicyConflict, ContextAssessment
<1>6. a.proof = proof /\ a.epoch = cfg.epoch /\ a.at = clock
  OBVIOUS
<1> HIDE DEF a
<1>7. cfg.ns = "n"
  BY DEF ConfigSound
<1>8. AdmittedFor(a, r)
  BY <1>1, <1>2, <1>3, <1>4, <1>5, <1>6, <1>7 DEF AdmittedFor
<1> QED
  BY <1>8 DEF a

LEMMA PresentInv ==
  ASSUME IssuanceInv, NEW p \in Proofs, NEW r \in Exposed, Present(p, r)
  PROVE  IssuanceInv'
<1> DEFINE proof == [p EXCEPT !.value = r.value, !.at = r.issuedAt]
<1>1. PICK expected \in LoadExpected(r.value) :
        /\ PreflightResult(proof, expected, Policy, cfg, clock) = "ok"
        /\ admitted' = {[proof |-> proof, epoch |-> cfg.epoch, at |-> clock]}
        /\ UNCHANGED <<records, fault, issuer, exposed, clock, cfg>>
  BY DEF Present
<1> HIDE DEF proof
<1>2. expected \in records /\ expected \in RequestedRecords
  BY DEF LoadExpected, Stored, IssuanceInv, RecordsSound
<1>3. AdmittedSound'
  <2>1. AdmittedFor([proof |-> proof, epoch |-> cfg.epoch, at |-> clock], expected)
    BY <1>1, <1>2, PreflightAgrees DEF IssuanceInv
  <2> QED
    BY <1>1, <1>2, <2>1 DEF AdmittedSound
<1>4. CallsSound' /\ RecordsSound' /\ ConfigSound'
  BY <1>1 DEF IssuanceInv, CallsSound, RecordsSound, ConfigSound
<1> QED
  BY <1>3, <1>4 DEF IssuanceInv

LEMMA IssuanceNextInv == IssuanceInv /\ [IssuanceNext]_issuanceVars => IssuanceInv'
<1> SUFFICES ASSUME IssuanceInv, [IssuanceNext]_issuanceVars
             PROVE  IssuanceInv'
  OBVIOUS
<1>1. CASE \E i \in Issuers : IssueStep(i)
  BY <1>1, BeginInv, DrawInv, PersistInv DEF IssueStep
<1>2. CASE \E i \in Issuers : Crash(i)
  BY <1>2, CallKeeps, IdleStates DEF Crash
<1>3. CASE \E f \in {"before", "after"} : Fail(f)
  BY <1>3 DEF Fail, IssuanceInv, CallsSound, RecordsSound, ConfigSound, AdmittedSound
<1>4. CASE \E p \in Proofs, r \in Exposed : Present(p, r)
  BY <1>4, PresentInv
<1>5. CASE AdvanceEpoch
  BY <1>5 DEF AdvanceEpoch, IssuanceInv, CallsSound, RecordsSound, ConfigSound, AdmittedSound
<1>6. CASE ClockTick
  BY <1>6 DEF ClockTick, IssuanceInv, CallsSound, RecordsSound, ConfigSound, AdmittedSound
<1>7. CASE UNCHANGED issuanceVars
  BY <1>7 DEF issuanceVars, IssuanceInv, CallsSound, RecordsSound, ConfigSound, AdmittedSound
<1> QED
  BY <1>1, <1>2, <1>3, <1>4, <1>5, <1>6, <1>7 DEF IssuanceNext

LEMMA IssuanceFromInv == IssuanceInv => IssuanceSound
<1> SUFFICES ASSUME IssuanceInv PROVE IssuanceSound
  OBVIOUS
<1>1. ExposedIsDurable
  BY DEF ExposedIsDurable, Exposed, Stored, IssuanceInv, RecordsSound
<1>2. ExposedOnce
  BY DEF ExposedOnce, IssuanceInv, RecordsSound
<1>3. \A r \in RequestedRecords : \E q \in Requests : ValidRequest(q) /\ r = RecordOf(q, r.issuedAt, r.value)
  BY DEF RequestedRecords, ValidRequests, RecordOf
<1>4. AdmittedAsRequested
  <2>1. SUFFICES ASSUME NEW a \in admitted
                 PROVE  \E r \in records :
                          /\ r.value = a.proof.value /\ r.issuedAt = a.proof.at /\ r.epoch = a.epoch
                          /\ r.ns = cfg.ns /\ r.verifier = a.proof.verifier
                          /\ a.at >= r.issuedAt /\ a.at - r.issuedAt < MaxLifetime /\ a.at < r.expiresAt
                          /\ \E q \in Requests : ValidRequest(q) /\ r = RecordOf(q, r.issuedAt, r.value)
                          /\ r.agent # None => a.proof.agent = r.agent
                          /\ r.session # None => a.proof.session = r.session
                          /\ r.receiver = None => a.proof.audience = {}
                          /\ \A c \in a.proof.audience : c.domains # {} \/ r.receiver \in c.exact
    BY DEF AdmittedAsRequested
  <2>2. PICK r \in records : AdmittedFor(a, r)
    BY DEF IssuanceInv, AdmittedSound
  <2>3. \E q \in Requests : ValidRequest(q) /\ r = RecordOf(q, r.issuedAt, r.value)
    BY <1>3 DEF IssuanceInv, RecordsSound
  <2>4. cfg.ns = "n"
    BY DEF IssuanceInv, ConfigSound
  <2> QED
    BY <2>2, <2>3, <2>4 DEF AdmittedFor
<1>5. ContextSettledBeforeClaim
  <2>1. SUFFICES ASSUME Policy.bound, NEW a \in admitted, NEW r \in records,
                        r.value = a.proof.value, r.epoch = a.epoch, r.ns = cfg.ns, r.session # None
                 PROVE  ContextAssessment(a.proof, Policy) = "bound"
    BY DEF ContextSettledBeforeClaim
  <2>2. PICK s \in records : AdmittedFor(a, s)
    BY DEF IssuanceInv, AdmittedSound
  <2>3. Key(r) = Key(s)
    BY <2>1, <2>2 DEF Key, AdmittedFor, IssuanceInv, ConfigSound
  <2>4. r = s
    BY <2>3 DEF IssuanceInv, RecordsSound
  <2> QED
    BY <2>1, <2>2, <2>4 DEF AdmittedFor
<1> QED
  BY <1>1, <1>2, <1>4, <1>5 DEF IssuanceSound

(* A challenge a caller holds is in the store as it was returned and no    *)
(* other call holds it, and a presentation passes the preflight only for a *)
(* record whose issuance asked for exactly this, with its context settled: *)
(* issue_challenge_v2, the issuance store and preflight_proof_bundle_v2,   *)
(* whatever the random source repeats, whichever write fails and whichever *)
(* call ends before its next step.                                         *)
THEOREM IssuanceHolds == IssuanceSpec => []IssuanceSound
<1>1. IssuanceSpec => []IssuanceInv
  BY IssuanceInitInv, IssuanceNextInv, PTL DEF IssuanceSpec
<1> QED
  BY <1>1, IssuanceFromInv, PTL
=============================================================================
