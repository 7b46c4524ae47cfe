---------------------------- MODULE StatusHistory ----------------------------
(***************************************************************************)
(* One issuer's status state under every history of authentic objects: any *)
(* object, in any order, repeated, late, future-dated or contradicting     *)
(* another, is applied with apply_revocation_list_v2 or                    *)
(* apply_revocation_push_v2 by a caller that keeps the state itself, and   *)
(* the operator may replace the status key.                                *)
(*                                                                         *)
(* `heard` remembers what the state was built from, so that the answers    *)
(* can be compared with the whole history and not with the state.          *)
(***************************************************************************)
EXTENDS StatusReducer

CONSTANTS Authentic,   \* the signed objects that exist
          Certs,       \* certificates
          StatusKeys,  \* epoch -> the status key of that epoch
          MaxHeard,    \* bound: different objects applied in one epoch
          MaxClock     \* bound: the clock

(* What a signature covers is well formed: an object that does not parse   *)
(* or has sequence 0 never reaches the reducer.                            *)
StatusObject ==
  [type : {"list", "push"}, issuer : {o.issuer : o \in Authentic},
   key : {o.key : o \in Authentic}, seq : Nat \ {0}, at : Int, until : Int,
   revoked : SUBSET Certs, sig : Nat]

ASSUME HistoryAssumption ==
  /\ MaxStatusAge \in Nat
  /\ Authentic \subseteq StatusObject
  /\ 1 \in DOMAIN StatusKeys /\ DOMAIN StatusKeys \subseteq Nat

VARIABLES status,      \* RevocationStatusStateV2
          clock,         \* the time of the call
          heard,       \* objects applied in this epoch
          carried      \* revocations heard in earlier epochs

historyVars == <<status, clock, heard, carried>>

HistoryInit ==
  /\ status = EmptyStatus(1, StatusKeys[1])
  /\ clock = 0 /\ heard = {} /\ carried = {}

(* The signature check of the apply functions binds the object's key.      *)
Observe(o) ==
  /\ o.key = status.status_key
  /\ o \in heard \/ Cardinality(heard) < MaxHeard
  /\ status' = Apply(status, o, clock)
  /\ heard' = heard \cup {o}
  /\ UNCHANGED <<clock, carried>>

ReplaceKey ==
  /\ status.status_key_epoch + 1 \in DOMAIN StatusKeys
  /\ ValidBinding(status) /\ ValidAcceptedState(status)
  /\ LET epoch == status.status_key_epoch + 1
     IN  status' = TransitionEpoch(status, epoch, StatusKeys[epoch])
  /\ carried' = carried \cup UNION {o.revoked : o \in heard}
  /\ heard' = {}
  /\ UNCHANGED clock

ClockTick ==
  /\ clock < MaxClock /\ clock' = clock + 1
  /\ UNCHANGED <<status, heard, carried>>

HistoryNext == (\E o \in Authentic : Observe(o)) \/ ReplaceKey \/ ClockTick

HistorySpec == HistoryInit /\ [][HistoryNext]_historyVars

-----------------------------------------------------------------------------
HistoryTypeOK ==
  /\ status.status_key_epoch \in DOMAIN StatusKeys
  /\ status.deny_union \subseteq Certs /\ status.accepted \subseteq Certs
  /\ status.floor \in 0..status.max_observed
  /\ clock \in 0..MaxClock /\ heard \subseteq Authentic /\ carried \subseteq Certs

Heard(type) == {o \in heard : o.type = type}

AllRevoked == carried \cup UNION {o.revoked : o \in heard}

Status(c) == StatusForCert(status, c, clock).status

(* Every state the apply functions return passes the validation that       *)
(* answering, replacing the key and the journal begin with                 *)
(* (validate_binding, validate_accepted_state), forks included.            *)
StateStaysValid == ValidBinding(status) /\ ValidAcceptedState(status)

(* revoked is answered exactly for the certificates some object of the     *)
(* whole history revokes, also after compaction and over epochs.           *)
RevokedIffHeard ==
  StateStaysValid => \A c \in Certs : Status(c) = "revoked" <=> c \in AllRevoked

(* Lists that contradict another authentic object of the epoch: another    *)
(* set at their sequence, or a set without a revocation pushed at or below *)
(* their sequence.  A late list is measured against the accepted set       *)
(* (SPEC-v2.md 346), so it may hold what a push announced only later.      *)
Contradicted ==
  {l \in Heard("list") : \E o \in heard :
     \/ o.type = "list" /\ o.seq = l.seq /\ o.revoked # l.revoked
     \/ o.type = "push" /\ o.seq <= l.seq /\ ~(o.revoked \subseteq l.revoked)}

(* not_revoked rests on a list of this epoch that is fresh now, that holds *)
(* everything ever revoked except what contiguous pushes added since, that *)
(* contradicts nothing heard, and nothing heard is beyond it and those     *)
(* pushes.                                                                 *)
NotRevokedSound ==
  (\E c \in Certs : Status(c) = "not_revoked") =>
    \E l \in Heard("list") \ Contradicted :
      LET pushes == {p \in Heard("push") : p.seq > l.seq}
          top    == l.seq + Cardinality({p.seq : p \in pushes})
      IN  /\ clock < l.until /\ clock < l.at + MaxStatusAge
          /\ AllRevoked \subseteq l.revoked \cup UNION {p.revoked : p \in pushes}
          /\ {p.seq : p \in pushes} = (l.seq + 1)..top
          /\ \A o \in heard : o.seq <= top

(* No history is a dead end: a fresh list above everything heard that      *)
(* holds every revocation makes the status current again.                  *)
Recoverable ==
  \A l \in Authentic :
    /\ l.type = "list" /\ l.key = status.status_key /\ ListFresh(l, clock)
    /\ \A o \in heard : o.seq < l.seq
    /\ AllRevoked \subseteq l.revoked
    => Usable(Apply(status, l, clock))

(* Whatever the history was, the state has absorbed it: what it revoked    *)
(* stays denied over compaction, forks and key epochs, and nothing that    *)
(* was ignored, forked, gapped or future-dated blocks the next good list   *)
(* (apply_list_inner, apply_push_inner, compact,                           *)
(* transition_revocation_status_epoch_v2).                                 *)
HistoryAbsorbed == RevokedIffHeard /\ Recoverable

=============================================================================
