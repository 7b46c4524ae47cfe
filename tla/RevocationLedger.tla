--------------------------- MODULE RevocationLedger --------------------------
(***************************************************************************)
(* What the security journal promises to its deployment, whatever writers  *)
(* race, fail or retry: a ledger of revoked certificates and of key        *)
(* assignments from which nothing is ever taken back.                      *)
(***************************************************************************)
EXTENDS Integers

CONSTANTS Issuers, Overlap(_, _)

VARIABLES denied,   \* issuer -> certificates known to be revoked
          roles,    \* permanent key roles: [key, role]
          bindings  \* status keys of issuers: [issuer, epoch, key]

ledgerVars == <<denied, roles, bindings>>

(* No key component serves two assignments.                                *)
Separated(S) == \A a, b \in S : a # b => ~Overlap(a.key, b.key)

(* An issuer's epochs count up from 1 and each has one key.                *)
EpochsInOrder(S) ==
  \A b \in S :
    /\ \A a \in S : a.issuer = b.issuer /\ a.epoch = b.epoch => a = b
    /\ b.epoch > 1 => \E a \in S : a.issuer = b.issuer /\ a.epoch = b.epoch - 1

Init ==
  /\ denied = [i \in Issuers |-> {}]
  /\ roles = {} /\ bindings = {}

Record ==
  /\ \A i \in Issuers : denied[i] \subseteq denied'[i]
  /\ roles \subseteq roles' /\ Separated(roles')
  /\ bindings \subseteq bindings' /\ Separated(bindings') /\ EpochsInOrder(bindings')
  /\ \A b \in bindings' : [key |-> b.key, role |-> "status"] \in roles'

Spec == Init /\ [][Record]_ledgerVars
=============================================================================
