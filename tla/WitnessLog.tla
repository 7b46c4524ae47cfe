----------------------------- MODULE WitnessLog ------------------------------
(***************************************************************************)
(* Caller-operated logs of signed entries (witness.rs; the receipt log of   *)
(* receipt.rs shares the decision).  A witness signs entries, each at a     *)
(* sequence and linked to the digest of the entry before it.  Readers keep  *)
(* their own authenticated heads, receive entries in any order, and share   *)
(* them; a dishonest witness may sign two entries for one position.         *)
(*                                                                          *)
(* The digest of an entry covers its sequence, its link and its data, so an *)
(* entry is known by where it stands among the signed ones: digest n is the *)
(* n-th entry signed, 0 the zero hash of a genesis.                         *)
(***************************************************************************)
EXTENDS Naturals, Sequences

CONSTANTS Readers,
          Signable,            \* the entries a witness may sign
          MaxSigned            \* bound: entries that are ever signed

Entry == [sequence : Nat \ {0}, prev : Nat, data : STRING, witness : STRING, log : STRING]

ASSUME WitnessAssumption == Signable \subseteq Entry /\ MaxSigned \in Nat

VARIABLES signed,      \* the entries signed, in order: digest n is signed[n]
          head         \* each reader's head

witnessVars == <<signed, head>>

(* validate: a genesis has the zero link and no other entry does.          *)
validate(e) == (e.sequence = 1) <=> (e.prev = 0)
Digests == DOMAIN signed

NewHead == [sequence |-> 0, hash |-> 0, accepted |-> <<>>, frozen |-> FALSE]

(* validate_head: the head is its history's last digest.                   *)
validate_head(h) ==
  /\ h.sequence = Len(h.accepted)
  /\ h.sequence = 0 => h.hash = 0
  /\ h.sequence > 0 => h.hash # 0 /\ h.accepted[h.sequence] = h.hash

(* Faulty variant: the link to the head is not compared.                   *)
log_position_unlinked(e, digest, h) ==
  IF e.sequence <= h.sequence
    THEN IF h.accepted[e.sequence] = digest THEN "Replay" ELSE "LogFork"
  ELSE IF h.frozen THEN "LogFrozen"
  ELSE IF e.sequence > h.sequence + 1 THEN "LogGap"
  ELSE "Appended"

(* log_position: replay, fork, frozen, gap, orphan or appended.            *)
log_position(e, digest, h) ==
  IF e.sequence <= h.sequence
    THEN IF h.accepted[e.sequence] = digest THEN "Replay" ELSE "LogFork"
  ELSE IF h.frozen THEN "LogFrozen"
  ELSE IF e.sequence > h.sequence + 1 THEN "LogGap"
  ELSE IF e.prev # h.hash THEN "LogOrphan"
  ELSE "Appended"

(* verify_witness_entry_v2 for a reader of log l of witness w.             *)
verify_witness_entry_v2(digest, h) ==
  LET e == signed[digest]
  IN  IF ~validate_head(h) THEN "ConfigurationInvalid"
      ELSE IF e.witness # "w" \/ e.log # "l" THEN "LogStateMismatch"
      ELSE log_position(e, digest, h)

(* sign_witness_entry_v2: any valid entry, whatever it links to, except    *)
(* one not signed yet.  An entry signed before has the digest it had.      *)
sign_witness_entry_v2(e) ==
  /\ Len(signed) < MaxSigned
  /\ validate(e) /\ e.prev \notin (Len(signed) + 1)..MaxSigned /\ \A d \in Digests : signed[d] # e
  /\ signed' = Append(signed, e)
  /\ UNCHANGED head

(* The caller's duties: persist the new head, freeze on a fork.            *)
After(h, digest, result) ==
  IF result = "Appended"
    THEN [sequence |-> h.sequence + 1, hash |-> digest,
          accepted |-> Append(h.accepted, digest), frozen |-> h.frozen]
  ELSE IF result = "LogFork" THEN [h EXCEPT !.frozen = TRUE]
  ELSE h

Receive(r, digest) ==
  /\ head' = [head EXCEPT ![r] = After(@, digest, verify_witness_entry_v2(digest, @))]
  /\ UNCHANGED signed

WitnessInit == signed = <<>> /\ head = [r \in Readers |-> NewHead]
WitnessNext ==
  \/ \E e \in Signable : sign_witness_entry_v2(e)
  \/ \E r \in Readers, digest \in Digests : Receive(r, digest)
WitnessSpec == WitnessInit /\ [][WitnessNext]_witnessVars

-----------------------------------------------------------------------------
(* Entry e stands at position n of the log that h is the head of.          *)
StandsAt(n, e, h) ==
  /\ e.sequence = n /\ e.witness = "w" /\ e.log = "l"
  /\ e.prev = IF n = 1 THEN 0 ELSE h.accepted[n - 1]

(* A reader's history is a chain: entry n of its log stands at position n, *)
(* is by its witness and links to entry n - 1; the head is its last.       *)
LogChained ==
  \A r \in Readers :
    /\ validate_head(head[r])
    /\ \A n \in 1..head[r].sequence : StandsAt(n, signed[head[r].accepted[n]], head[r])

(* Two readers that accepted one entry accepted everything before it: a    *)
(* head hash commits to the whole log.                                     *)
HeadCommits ==
  \A r, s \in Readers : \A n \in 1..head[r].sequence :
    n <= head[s].sequence /\ head[r].accepted[n] = head[s].accepted[n] =>
      \A m \in 1..n : head[r].accepted[m] = head[s].accepted[m]

(* Readers part ways, and a log is frozen, only if the witness signed two  *)
(* entries for one position of the log.                                    *)
Equivocated ==
  \E c, d \in Digests :
    /\ c # d /\ signed[c].sequence = signed[d].sequence
    /\ \A i \in {c, d} : signed[i].witness = "w" /\ signed[i].log = "l"
SplitByEquivocation ==
  /\ \A r \in Readers : head[r].frozen => Equivocated
  /\ \A r, s \in Readers : \A n \in 1..head[r].sequence :
       n <= head[s].sequence /\ head[r].accepted[n] # head[s].accepted[n] => Equivocated

(* What a reader holds of a log is one chain its head commits to, and only *)
(* a witness that signed twice for one position parts two readers.         *)
WitnessedHistory == LogChained /\ HeadCommits /\ SplitByEquivocation

(* A frozen log stays frozen and accepts nothing more.                     *)
FrozenLogStep == \A r \in Readers : head[r].frozen => head'[r] = head[r]
FrozenLog == [][FrozenLogStep]_witnessVars
=============================================================================
