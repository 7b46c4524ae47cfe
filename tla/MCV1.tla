-------------------------------- MODULE MCV1 ---------------------------------
(***************************************************************************)
(* Protocol v1 and the C ABI in one run, a scenario chosen at the start:    *)
(* verification (VerifyV1), the constraints of one certificate              *)
(* (ConstraintDrafts), the exported functions of both versions (CAbi,       *)
(* CAbiV2) and the callbacks they make (CCallbacks).  The constants of the  *)
(* extended VerifyV1 name everything its scenarios use; each of them        *)
(* restricts it.                                                            *)
(***************************************************************************)
EXTENDS VerifyV1

CONSTANTS Scenarios, MaxConstraints, MaxHeld, ChainLength, a, b

VARIABLES scenario,
          family, held, poisoned, reply,                                           \* CAbi, CAbiV2
          draft, interval, granted, probe,                                         \* ConstraintDrafts
          stage, claimed, pending, attempt, key, cancelled, seen, heard, outcome   \* CCallbacks

draftVars == <<draft, interval, granted, probe>>
callbackVars == <<stage, claimed, pending, attempt, key, cancelled, seen, heard, outcome>>
abiVars == <<family, held, poisoned, reply>>
allVars == <<scenario, draftVars, vars, abiVars, callbackVars>>

HeldAtMost == <<3, 3, 3, 4, 3, 3, 3>>

Cert(id, issuer, subject, scope, from, until, signed, cs) ==
  [id |-> id, issuer |-> issuer, subject |-> subject, scope |-> scope, from |-> from,
   until |-> until, signed |-> signed, version |-> 1, constraints |-> cs]
Leaf(scope) == Cert("leaf", "owner", "agent", scope, 0, 9, TRUE, <<>>)
RootCert(scope) == Cert("root", "human", "owner", scope, 0, 9, TRUE, <<>>)
Cap(n) == <<[kind |-> "max_amount", currency |-> "usd", max |-> n]>>
Ctx(n) == [amount |-> n, currency |-> "usd", evaluators |-> <<>>]

Bundle(chain, challenge, session, stream, seq, signed) ==
  [chain |-> chain, challenge |-> challenge, at |-> 0, session |-> session, stream |-> stream,
   seq |-> seq, signed |-> signed, agent |-> "agent", oversized |-> FALSE]
Opts(session, store, stream, required, policy, amount) ==
  [session |-> session, store |-> store, stream |-> stream, required |-> required,
   policy |-> policy, ctx |-> Ctx(amount), revocation |-> "provider", force |-> TRUE,
   cached |-> None]

(* Two challenges, presented signed and forged, under the right and the    *)
(* wrong session; the leaf allows at most 1.                               *)
Capped == <<Cert("leaf", "owner", "agent", {"data:read"}, 0, 9, TRUE, Cap(1))>>
RacePresentations ==
  {Bundle(Capped, k, "s", None, 0, signed) : k \in 1..2, signed \in BOOLEAN}
RaceOptions == {Opts("s", TRUE, None, None, None, n) : n \in {1, 2}}
               \cup {Opts("t", TRUE, None, None, None, 1)}

(* Chains that narrow, widen, break, lack the right to delegate, are out   *)
(* of date, unsigned or too deep.                                          *)
Oversized == [Bundle(<<Leaf({"data:read"})>>, 1, None, None, 0, TRUE) EXCEPT !.oversized = TRUE]
Delegating == {"data:*", "data:write", "identity:delegate", "comms:*"}
ChainPresentations ==
  {Oversized} \cup {Bundle(chain, 1, None, None, 0, TRUE) : chain \in
     {<<Leaf({"data:write", "data:read"}), RootCert(Delegating)>>,
      <<Leaf({"data:write", "data:*"}), RootCert({"data:*", "identity:delegate"})>>,
      <<Leaf({"comms:message:*", "custom:x"}), RootCert(Delegating \cup {"custom:x"})>>,
      <<Leaf({"data:read"}), RootCert({"data:*", "data:write"})>>,
      <<Leaf({"data:read"}), Cert("root", "human", "other", Delegating, 0, 9, TRUE, <<>>)>>,
      <<Leaf({"data:read"}), Cert("root", "human", "owner", Delegating, 1, 1, TRUE, <<>>)>>,
      <<Leaf({"data:read"}), Cert("root", "human", "owner", Delegating, 0, 9, FALSE, <<>>)>>,
      <<Leaf({"data:read"}), Cert("root", "human", "owner", Delegating, 0, 9, TRUE, Cap(1))>>,
      <<Leaf({"data:nonsense"})>>, <<>>, <<[Leaf({"data:read"}) EXCEPT !.version = 2]>>,
      <<Leaf(Delegating), RootCert(Delegating), RootCert(Delegating), RootCert(Delegating)>>}}
ChainOptions ==
  {Opts(None, store, None, required, None, 2) :
     store \in BOOLEAN, required \in {None, "data:write", "comms:message:read"}}
  \cup {Opts(None, FALSE, None, None, policy, 1) : policy \in {"denied", "error"}}
  \cup {[Opts(None, FALSE, None, "data:read", "denied", 1) EXCEPT !.cached = k] :
          k \in {"allowed", "denied", "stale"}}
  \cup {[Opts(None, FALSE, None, None, None, 1) EXCEPT !.revocation = k] : k \in {None, "failing"}}

(* A stream: positions in, out of and before the order.                    *)
StreamPresentations ==
  {Bundle(<<Leaf({"data:read"})>>, k, "s", "st", k, TRUE) : k \in 1..3}
  \cup {Bundle(<<Leaf({"data:read"})>>, 0, "s", "st", 1, TRUE),
        Bundle(<<Leaf({"data:read"})>>, 1, "s", "other", 1, TRUE),
        Bundle(<<Leaf({"data:read"})>>, 1, "s", None, 1, TRUE),
        Bundle(<<Leaf({"data:read"})>>, 1, "s", "short", 1, TRUE),
        Bundle(<<Leaf({"data:read"})>>, 1, "short", "st", 1, TRUE),
        Bundle(<<Leaf({"data:read"})>>, 1, None, "st", 1, TRUE)}
StreamOptions == {Opts("s", FALSE, "st", "data:read", None, 1)}
-----------------------------------------------------------------------------
Race == INSTANCE VerifyV1 WITH
  Callers <- {a, b}, Presentations <- RacePresentations, Options <- RaceOptions,
  Sessions <- {"s", "t"}, Revocable <- {}, MaxTokens <- 0
Chain == INSTANCE VerifyV1 WITH
  Callers <- {a}, Presentations <- ChainPresentations, Options <- ChainOptions,
  Sessions <- {None}, MaxChallenges <- 1, MaxTime <- 1
Stream == INSTANCE VerifyV1 WITH
  Callers <- {a, b}, Presentations <- StreamPresentations, Options <- StreamOptions,
  Sessions <- {"s"}, MaxChallenges <- 0, Revocable <- {}, MaxTime <- 1
Drafts == INSTANCE ConstraintDrafts WITH Points <- 12
Abi == INSTANCE CAbi
Abi2 == INSTANCE CAbiV2
Callbacks == INSTANCE CCallbacks

AllPresentations == RacePresentations \cup ChainPresentations \cup StreamPresentations
AllOptions == RaceOptions \cup ChainOptions \cup StreamOptions
AllSessions == {None, "s", "t"}

DraftIdle == draft = "off" /\ interval = "off" /\ granted = "off" /\ probe = "off"
AbiIdle == family = "off" /\ held = "off" /\ poisoned = "off" /\ reply = "off"
CallbacksIdle ==
  /\ stage = "off" /\ claimed = "off" /\ pending = "off" /\ attempt = "off" /\ key = "off"
  /\ cancelled = "off" /\ seen = "off" /\ heard = "off" /\ outcome = "off"

V1Init ==
  /\ scenario \in Scenarios
  /\ \/ scenario = "race" /\ Race!Init /\ DraftIdle /\ AbiIdle /\ CallbacksIdle
     \/ scenario = "chain" /\ Chain!Init /\ DraftIdle /\ AbiIdle /\ CallbacksIdle
     \/ scenario = "stream" /\ Stream!Init /\ DraftIdle /\ AbiIdle /\ CallbacksIdle
     \/ scenario = "drafts" /\ Drafts!Init /\ Race!Init /\ AbiIdle /\ CallbacksIdle
     \/ scenario = "abi" /\ Abi!Init /\ Race!Init /\ DraftIdle /\ CallbacksIdle
     \/ scenario = "abi2" /\ Abi2!Init /\ poisoned = "off" /\ Race!Init /\ DraftIdle /\ CallbacksIdle
     \/ scenario = "callbacks" /\ Callbacks!Init /\ Race!Init /\ DraftIdle /\ AbiIdle

V1Next ==
  /\ UNCHANGED scenario
  /\ \/ /\ \/ scenario = "race" /\ Race!Next
           \/ scenario = "chain" /\ Chain!Next
           \/ scenario = "stream" /\ Stream!Next
        /\ UNCHANGED <<draftVars, abiVars, callbackVars>>
     \/ scenario = "drafts" /\ Drafts!Next /\ UNCHANGED <<vars, abiVars, callbackVars>>
     \/ scenario = "abi" /\ Abi!Next /\ UNCHANGED <<vars, draftVars, callbackVars>>
     \/ scenario = "abi2" /\ Abi2!Next /\ UNCHANGED <<poisoned, vars, draftVars, callbackVars>>
     \/ scenario = "callbacks" /\ Callbacks!Next /\ UNCHANGED <<vars, draftVars, abiVars>>

V1Spec == V1Init /\ [][V1Next]_allVars

-----------------------------------------------------------------------------
(* The modules of the scenarios state what these properties are made of.   *)
(* An issuer may sign exactly what some request can satisfy; the verifier  *)
(* admits a request only inside every prefix and interval, and never on a  *)
(* missing fact.                                                           *)
ConstraintsSound ==
  scenario = "drafts" =>
    /\ Drafts!IssuableIffSatisfiable /\ Drafts!AdmittedInside
    /\ Drafts!IntervalIsWalk /\ Drafts!MissingFactUnverifiable
(* Across the C ABI nothing fails open: a spoiled argument, a panic, a     *)
(* poisoned handle or a callback's malformed, missing or cancelling answer *)
(* yields no affirmative answer, no half-written output and no handle; a   *)
(* reference store behind C callbacks answers as it does directly.         *)
AbiSound ==
  /\ scenario = "abi" => Abi!ExportsSound
  /\ scenario = "abi2" => Abi2!AbiSound
  /\ scenario = "callbacks" => Callbacks!CallbacksSound
(* The comment of ratify_v2_release_decision: *released_out "is set to     *)
(* NULL on entry, so it is NULL after every call that does not release".   *)
ReleasedNull == scenario = "abi2" => Abi2!ReleasedNull
=============================================================================
