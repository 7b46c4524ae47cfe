----------------------------- MODULE MCProgress ------------------------------
(***************************************************************************)
(* What must happen in the end, for four parts of the system in one run.  *)
(* A behaviour is one of one part, chosen at the start; the others stay as *)
(* they begin.                                                             *)
(***************************************************************************)
EXTENDS Integers, Sequences, TLC

CONSTANTS c1, c2, e1, e2, w1, k1, p1, x, NoClaim, NoBody, NoStream

VARIABLES part,
          now, highWater, claims, streams, outbox, ackWithheld, logFrozen,
          checkpointFrozen, signerFailure, rateCommits,             \* ClaimStore
          eval, worker, handoffs,                                   \* Evaluation
          call, acted,                                              \* Release
          feedNow, durable, signed, outgoing, published, crashes, status, revokedAt,
          prim, comp, setup, overlapped, thread, sub, uploaded, told, faults

-----------------------------------------------------------------------------
(* The store, its evaluators and its callers.                              *)
ClaimIds == {c1, c2}
Streams == {}
Counters == {}
Window == [k \in {} |-> 1]
Progresses == {}
InitialTime == 1
MaxSafe == 1
RateAtFinalization == FALSE
Anchored == FALSE
ClaimOf(id) ==
  [id |-> id, key |-> id, proof |-> <<id, 1>>, issuedAt |-> 1, expiresAt |-> 3,
   maxAge |-> 2, skew |-> 0, stream |-> NoStream, seq |-> -1, batch |-> {}]
Pass == [trust |-> "trusted", chain |-> "valid", scope |-> "granted", context |-> "bound",
         constraint |-> "passed", status |-> "current", audience |-> "none",
         rate |-> "none", bounds |-> {3}]
Recovery == INSTANCE Evaluation WITH
  Claims <- {ClaimOf(c1)}, Bodies <- {}, Horizons <- {}, Evaluators <- {e1, e2}, Workers <- {w1},
  Inputs <- {Pass}, ClockSettings <- {1, 2, 3}, LeaseSeconds <- 1, MaxTimestamp <- 4

Progress == [trust |-> "trusted", status |-> "current", context |-> "bound"]
ReleaseBodies == {[proof |-> <<id, 1>>, result |-> r, progress |-> Progress] :
                  id \in ClaimIds, r \in {"allow", "interrupted"}}
Callers == INSTANCE Release WITH
  Claims <- {ClaimOf(id) : id \in ClaimIds}, Bodies <- ReleaseBodies, Horizons <- {0, 3},
  Calls <- {k1}, ForeignHandoffs <- {}, ClockSettings <- {1, 3}, LeaseSeconds <- 2, MaxTimestamp <- 3

-----------------------------------------------------------------------------
(* The status feed and the offline device.                                 *)
SetDigest(S) == IF 1 \in S THEN 1 ELSE 0
ObjDigest(o) == SetDigest(o.revoked) + 4 * o.at + 32 * o.sig
Feed == INSTANCE StatusFeed WITH
  now <- feedNow, MaxListLifetime <- 3, MaxStatusAge <- 2, ClockSkew <- 0, Certs <- {1},
  StatusKey <- "k1", Lifetime <- 3, MaxAhead <- 0, MaxSeq <- 2, MaxTime <- 2, MaxCrashes <- 1

Device == INSTANCE OfflineDevice WITH
  Primaries <- {p1}, First <- p1, Bindable <- {}, Threads <- {}, Challenges <- {}, Bodies <- {x},
  Capacity <- 2, MaxClaims <- 1, MaxLog <- 2, MaxGeneration <- 0, MaxFaults <- 2

-----------------------------------------------------------------------------
storeOf == <<now, highWater, claims, streams, outbox, ackWithheld, logFrozen,
             checkpointFrozen, signerFailure, rateCommits>>
evalOf == <<eval, worker, handoffs>>
callOf == <<call, acted>>
feedOf == <<feedNow, durable, signed, outgoing, published, crashes, status, revokedAt>>
deviceOf == <<prim, comp, setup, overlapped, thread, sub, uploaded, told, faults>>
otherThanStore == <<feedOf, deviceOf>>
allVars == <<part, storeOf, evalOf, callOf, otherThanStore>>

Parts == {"recovery", "release", "feed", "device"}

Init ==
  /\ part \in Parts
  /\ Recovery!EvalInit /\ Callers!RelInit /\ Feed!Init /\ Device!Init

(* A step of each part, with what it leaves alone.                         *)
RecoveryDoes(A) == part = "recovery" /\ A /\ UNCHANGED <<part, callOf, otherThanStore>>
ReleaseDoes(A) == part = "release" /\ A /\ UNCHANGED <<part, evalOf, otherThanStore>>
FeedDoes(A) == part = "feed" /\ A /\ UNCHANGED <<part, storeOf, evalOf, callOf, deviceOf>>
DeviceDoes(A) == part = "device" /\ A /\ UNCHANGED <<part, storeOf, evalOf, callOf, feedOf>>

Next ==
  \/ RecoveryDoes(Recovery!EvalLiveNext) \/ ReleaseDoes(Callers!LiveNext)
  \/ FeedDoes(Feed!Next) \/ DeviceDoes(Device!Next)

(* The fairness of EvalLiveSpec, LiveSpec, Feed and OfflineDevice.  Only   *)
(* one part of a behaviour moves, so that fairness of a disjunction with   *)
(* one action of each part is fairness of each of these actions.           *)
Fairness ==
  /\ WF_allVars(\/ RecoveryDoes(Recovery!Tick)
                \/ ReleaseDoes(Callers!PublishOne(c1) /\ UNCHANGED callOf)
                \/ FeedDoes(Feed!Tick)
                \/ DeviceDoes(Device!Scan(p1)))
  /\ WF_allVars(\/ RecoveryDoes(\E heard \in BOOLEAN : Recovery!RecoverCommit(w1, TRUE, heard))
                \/ ReleaseDoes(Callers!PublishOne(c2) /\ UNCHANGED callOf)
                \/ FeedDoes(\E at \in Feed!StampTimes : Feed!SignHeartbeat(at))
                \/ DeviceDoes(\E f \in {"ok", "before", "after", "clock"} : Device!Commit(p1, f)))
  /\ WF_allVars(\/ RecoveryDoes(Recovery!Resume(c1))
                \/ ReleaseDoes(Callers!Resubmit /\ UNCHANGED callOf)
                \/ FeedDoes(Feed!Persist))
  /\ WF_allVars(\/ ReleaseDoes(Callers!CallStep(k1))
                \/ FeedDoes(\E o \in outgoing : Feed!Publish(o)))
  /\ SF_allVars(\/ RecoveryDoes(Recovery!RecoverLoad(w1, c1))
                \/ ReleaseDoes(Callers!HonestCall(k1, c1))
                \/ DeviceDoes(Device!BeginSubmission(p1, 1, FALSE)))
  /\ SF_allVars(ReleaseDoes(Callers!HonestCall(k1, c2)))
  /\ \/ []<>(part # "feed" \/ \A o \in Feed!Newest : Feed!Apply(status, o, feedNow) = status)
     \/ []<><<FeedDoes(\E o \in Feed!Newest : Feed!Receive(o))>>_allVars

Spec == Init /\ [][Next]_allVars /\ Fairness

-----------------------------------------------------------------------------
(* The modules of the parts state these properties.                        *)
(* An accepted claim becomes terminal, whatever its evaluator does, and    *)
(* its result is handed off although answers are lost.                     *)
ClaimsEnd ==
  part = "recovery" => Recovery!AcceptedBecomesTerminal /\ Recovery!TerminalIsHandedOff
(* Every terminal decision is released or withheld for good.               *)
EventuallySettled == part = "release" => Callers!EventuallySettled
(* A durable revocation reaches the verifier.                              *)
RevocationArrives == part = "feed" => Feed!RevocationArrives
(* Every appended entry of the device is acknowledged.                     *)
EventuallyAcknowledged == part = "device" => Device!EventuallyAcknowledged
=============================================================================
