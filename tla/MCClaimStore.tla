---------------------------- MODULE MCClaimStore ----------------------------
(***************************************************************************)
(* Six bounded scenarios in one run, four of ClaimStore and two of Release *)
(* over it.  The scenario is chosen at the start; each is the store with   *)
(* inputs and a configuration of its own.                                  *)
(***************************************************************************)
EXTENDS Release, TLC

CONSTANTS c1, c2, c3, s1, k1, q1, q2

VARIABLE scenario

ClaimOf(id, variant, stream, seq, batch) ==
  [id |-> id, key |-> id, proof |-> <<id, variant>>, issuedAt |-> 0, expiresAt |-> 3,
   maxAge |-> 3, skew |-> 0, stream |-> stream, seq |-> seq, batch |-> batch]

Trusted == [trust |-> "trusted", status |-> "current", context |-> "bound"]
Invalid == [trust |-> "untrusted", status |-> "current", context |-> "not_evaluated"]
BodyOf(id, result) == [proof |-> <<id, 1>>, result |-> result, progress |-> Trusted]

(* Contract: one challenge, a second proof for it, a claim whose ID is not *)
(* derived from its key, every method, and an anchor that may refuse.      *)
ContractClaims == {ClaimOf(c3, 1, NoStream, NoSeq, {}),
                   ClaimOf(c3, 2, NoStream, NoSeq, {}),
                   [ClaimOf(c3, 1, NoStream, NoSeq, {}) EXCEPT !.key = c1, !.proof = <<c1, 1>>]}
ContractBodies == {BodyOf(c3, "allow"), BodyOf(c3, "interrupted")}
ContractProgresses == {Trusted, Invalid}

Contract == INSTANCE ClaimStore WITH
  ClaimIds <- {c1, c3}, Claims <- ContractClaims, Bodies <- ContractBodies,
  Horizons <- {0, 1}, ClockSettings <- {0, 1, 2, 4}, RateAtFinalization <- FALSE, Anchored <- TRUE

ContractNext == \/ Contract!ClockStep \/ Contract!ClaimStep \/ Contract!FinalizeStep
                \/ Contract!ProgressStep \/ Contract!RecoveryStep \/ Contract!PublishStep
                \/ Contract!CheckpointStep \/ Contract!SignerStep \/ AbandonStep
                \/ Contract!ReleaseStep

(* Log: two claims whose results are committed, published, acknowledged    *)
(* and abandoned while the clock moves both ways and out of its domain.    *)
LogClaims == {ClaimOf(id, 1, NoStream, NoSeq, {}) : id \in {c1, c2}}
LogBodies == {BodyOf(id, r) : id \in {c1, c2}, r \in {"allow", "interrupted"}}

Log == INSTANCE Release WITH
  ClaimIds <- {c1, c2}, Claims <- LogClaims, Bodies <- LogBodies, Progresses <- {},
  Horizons <- {0, 3}, ClockSettings <- {1, 2, 3, 4}, RateAtFinalization <- FALSE, Anchored <- FALSE

LogNext == \/ Log!ClockStep \/ Log!Commit \/ Log!PublishStep \/ Log!CheckpointStep
           \/ \E id \in {c1, c2} : Log!LoadInterrupted(id) \/ Log!LoadCommitted(id)
           \/ AbandonPendingReceipts(TRUE)

(* Streams: three challenges on one stream that has room for two turns.    *)
StreamClaims == {ClaimOf(id, 1, s1, n, {}) : id \in ClaimIds, n \in {1, 2, 3}}
                  \cup {ClaimOf(id, 2, s1, NoSeq, {}) : id \in {c1, c2}}
                  \cup {ClaimOf(c3, 2, NoStream, NoSeq, {})}

Stream == INSTANCE ClaimStore WITH
  Claims <- StreamClaims, Bodies <- {}, Progresses <- {}, Horizons <- {},
  ClockSettings <- {0, 1}, RateAtFinalization <- FALSE, Anchored <- TRUE

(* Rate: three allows on one counter, one of them with a tighter limit.    *)
RateBatch(limit) == {[counter |-> k1, limit |-> limit]}
RateClaims == {ClaimOf(c1, 1, NoStream, NoSeq, RateBatch(2)),
               ClaimOf(c2, 1, NoStream, NoSeq, RateBatch(2)),
               ClaimOf(c3, 1, NoStream, NoSeq, RateBatch(1))}
RateBodies == {BodyOf(id, "allow") : id \in ClaimIds} \cup {BodyOf(c3, "deny")}
RateWindow == [k \in {k1} |-> 2]

Rate == INSTANCE ClaimStore WITH
  Claims <- RateClaims, Bodies <- RateBodies, Horizons <- {0, 3},
  ClockSettings <- {0, 1, 2}, Anchored <- FALSE

RateNext == Rate!ClockStep \/ Rate!ClaimStep \/ Rate!FinalizeStep

(* Callers: one claim and two concurrent callers of the release.           *)
ReleasedClaims(ids) ==
  {[ClaimOf(id, 1, NoStream, NoSeq, {}) EXCEPT !.issuedAt = 1, !.maxAge = 2] : id \in ids}
ReleasedBodies(ids) == {BodyOf(id, r) : id \in ids, r \in {"allow", "interrupted"}}

(* A handoff of another store that interrupted the claim: this store may   *)
(* hold no such claim, another result, or the same one.                    *)
ForeignOf(ids) ==
  {[id |-> b.proof[1], body |-> b, expiresAt |-> 3, allowHorizon |-> 0] :
   b \in {x \in ReleasedBodies(ids) : x.result = "interrupted"}}
NoWindow == [k \in {} |-> 1]

Race == INSTANCE Release WITH
  Claims <- ReleasedClaims({c1}), Bodies <- ReleasedBodies({c1}),
  ForeignHandoffs <- ForeignOf({c1}), Streams <- {}, Counters <- {}, Window <- NoWindow,
  Progresses <- {}, Horizons <- {0, 2}, ClockSettings <- {0, 1, 2}, InitialTime <- 1,
  LeaseSeconds <- 1, MaxSafe <- 1, RateAtFinalization <- FALSE, Anchored <- FALSE

(* Shared: two claims in one log and one caller of the release; the clock  *)
(* runs from the claims to their expiry (race sets it back).               *)
Shared == INSTANCE Release WITH
  Claims <- ReleasedClaims({c1, c2}), Bodies <- ReleasedBodies({c1, c2}),
  ForeignHandoffs <- ForeignOf({c1, c2}), Calls <- {q1}, Streams <- {}, Counters <- {},
  Window <- NoWindow, Progresses <- {}, Horizons <- {0, 3}, ClockSettings <- {3},
  InitialTime <- 1, LeaseSeconds <- 1, MaxSafe <- 1, RateAtFinalization <- FALSE,
  Anchored <- FALSE

(* The types of all scenarios.                                             *)
AllClaims == ContractClaims \cup LogClaims \cup StreamClaims \cup RateClaims
               \cup ReleasedClaims({c1, c2})
AllBodies == ContractBodies \cup LogBodies \cup RateBodies
AllForeign == ForeignOf({c1, c2})

-----------------------------------------------------------------------------
(* The clock of the log and of the releases starts one second later.       *)
Later == INSTANCE Release WITH InitialTime <- 1

MCInit == \/ scenario \in {"log", "race", "shared"} /\ Later!RelInit
          \/ scenario \in {"contract", "stream", "rate"} /\ RelInit

StoreNext == \/ scenario = "contract" /\ ContractNext
             \/ scenario = "log" /\ LogNext
             \/ scenario = "stream" /\ Stream!Next
             \/ scenario = "rate" /\ RateNext

MCNext == /\ UNCHANGED scenario
          /\ \/ StoreNext /\ UNCHANGED relVars
             \/ scenario = "race" /\ Race!RelNext
             \/ scenario = "shared" /\ Shared!RelNext

(* No scenario tells c1 from c2; contract and race have no use of c2, and  *)
(* only race has a use of q2, so that no two states are taken for one that *)
(* an exchange of both pairs is needed for.                                *)
Symmetry == Permutations({c1, c2}) \cup Permutations({q1, q2})

MCSpec == MCInit /\ [][MCNext]_<<scenario, vars>>
=============================================================================
