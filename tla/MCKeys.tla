------------------------------- MODULE MCKeys -------------------------------
(***************************************************************************)
(* Key rotation, witness logs and challenge issuance in one run, a         *)
(* scenario chosen at the start.  The constants of the extended modules    *)
(* name everything their scenarios use; each of them restricts it.         *)
(***************************************************************************)
EXTENDS KeyRotation, WitnessLog, ChallengeIssuance

CONSTANTS i1, i2, i3, x, y

VARIABLE scenario

allVars == <<scenario, issuanceVars, rotationVars, witnessVars>>

TwoEpochs == <<"k1", "k3">>

(* Two verifiers hear three statements in one epoch.                       *)
Fork == INSTANCE KeyRotation WITH GenesisKeys <- <<"k1">>

(* The root recovers the authority into a second epoch.                    *)
Recovery == INSTANCE KeyRotation WITH MaxDrafts <- 2
RecoveryStep ==
  Recovery!SignStep \/ (\E s \in Drafts : Recovery!Offer("v", s)) \/ Recovery!RecoverStep

(* Two readers of a log; entries of another witness or log, and one that   *)
(* links to nothing signed.                                                *)
Body(sequence, prev, data, witness, log) ==
  [sequence |-> sequence, prev |-> prev, data |-> data, witness |-> witness, log |-> log]
LogEntries ==
  {Body(1, 0, data, "w", "l") : data \in {"a", "b"}} \cup
  {Body(n, prev, "a", "w", "l") : n \in 2..3, prev \in 0..4} \cup
  {Body(1, 0, "a", "x", "l"), Body(1, 0, "a", "w", "m"), Body(2, 9, "a", "w", "l")}

-----------------------------------------------------------------------------
BoundPolicy == [configured |-> TRUE, bound |-> TRUE, session |-> "s"]

Request(epoch, lifetime, agent, key, receiver, session) ==
  [ns |-> "n", epoch |-> epoch, verifier |-> "v", lifetime |-> lifetime,
   agent |-> agent, key |-> key, receiver |-> receiver, session |-> session]
Proof(agent, session, audience) ==
  [value |-> None, at |-> 0, verifier |-> "v", agent |-> agent, session |-> session,
   audience |-> audience, signed |-> TRUE]

(* Three calls and a random source of two values.                          *)
RaceRequests == {Request(0, 2, "a", "a", "r", "s"), Request(1, 1, None, None, None, None)}
Race == INSTANCE ChallengeIssuance WITH
  Requests <- RaceRequests, Proofs <- {Proof("a", "s", {})}, MaxClock <- 1

(* Requests and presentations that do and do not agree.                    *)
BindRequests ==
  {Request(0, 2, "a", "a", "r", s) : s \in {"s", "t", None, "short"}} \cup
  {Request(0, 1, None, None, None, "s"), Request(1, 2, "a", "b", "r", "s"),
   Request(1, 3, "a", "a", "r", "s"), Request(1, 1, "b", "b", "q", None)}
Audiences == {{}, {[exact |-> {"r"}, domains |-> {}]}, {[exact |-> {"q"}, domains |-> {"d"}]}}
BindProofs ==
  {Proof(a, s, c) : a \in {"a", "b"}, s \in {"s", "t", None}, c \in Audiences}
  \cup {[Proof("a", "s", {}) EXCEPT !.signed = FALSE]}
Bind == INSTANCE ChallengeIssuance WITH
  Issuers <- {i1, i2}, Values <- {x}, Requests <- BindRequests

AllRequests == RaceRequests \cup BindRequests

-----------------------------------------------------------------------------
RotationIdle ==
  /\ journal = [v \in Verifiers |-> NewJournal(1, GenesisKeys[1], <<GenesisKeys[1]>>)]
  /\ trusted = [v \in Verifiers |-> <<GenesisKeys[1]>>]
  /\ authorized = {} /\ possessed = {} /\ now = 0

KeysInit ==
  /\ WitnessInit
  /\ \/ scenario \in {"fork", "recovery"} /\ Fork!Init /\ Race!IssuanceInit
     \/ scenario = "witness" /\ Fork!Init /\ Race!IssuanceInit
     \/ scenario = "race" /\ Race!IssuanceInit /\ RotationIdle
     \/ scenario = "bind" /\ Bind!IssuanceInit /\ RotationIdle

KeysNext ==
  /\ UNCHANGED scenario
  /\ \/ /\ \/ scenario = "fork" /\ Fork!Next
           \/ scenario = "recovery" /\ RecoveryStep
        /\ UNCHANGED <<issuanceVars, witnessVars>>
     \/ scenario = "witness" /\ WitnessNext /\ UNCHANGED <<issuanceVars, rotationVars>>
     \/ /\ \/ scenario = "race" /\ Race!IssuanceNext
           \/ scenario = "bind" /\ Bind!IssuanceNext
        /\ UNCHANGED <<rotationVars, witnessVars>>

KeysSpec == KeysInit /\ [][KeysNext]_allVars

-----------------------------------------------------------------------------
(* What conflicting signatures froze stays as it was: an authority until   *)
(* its root recovers it, a log for good.                                   *)
FrozenStaysFrozen == [][FrozenUntilRecoveredStep /\ FrozenLogStep]_allVars
=============================================================================
