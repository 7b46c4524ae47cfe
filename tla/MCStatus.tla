------------------------------ MODULE MCStatus ------------------------------
(***************************************************************************)
(* The status evidence of an issuer in one run, a scenario chosen at the   *)
(* start: a caller's state under hostile histories (StatusHistory), the    *)
(* anchored journal (SecurityJournal) and the publisher's feed             *)
(* (StatusFeed).  The constants of the extended modules name everything    *)
(* their scenarios use; each scenario restricts them.                      *)
(***************************************************************************)
EXTENDS SecurityJournal, StatusHistory

CONSTANTS Scenarios,  \* the scenarios explored
          sA, sB      \* the status stages

VARIABLES scenario,
          durable, signed, outgoing, crashes, revokedAt, view  \* StatusFeed

feedOnly == <<durable, signed, outgoing, crashes, revokedAt, view>>
allVars == <<scenario, historyVars, feedOnly, journalVars>>

(* Digest orders: any injective numbering serves.                          *)
MCSetDigest(S) == (IF 1 \in S THEN 1 ELSE 0) + (IF 2 \in S THEN 2 ELSE 0)
MCObjDigest(o) == MCSetDigest(o.revoked) + 4 * o.at + 32 * o.sig

-----------------------------------------------------------------------------
(* Histories of authentic objects.                                         *)
HistoryObjects(keys, certs, listSeqs, pushSeqs, times, sigs) ==
  [type : {"list"}, issuer : {1}, key : keys, seq : listSeqs, at : times,
   until : {4}, revoked : SUBSET certs, sig : sigs] \cup
  [type : {"push"}, issuer : {1}, key : keys, seq : pushSeqs, at : {0},
   until : {0}, revoked : {{c} : c \in certs}, sig : sigs]

(* Three of the lists and pushes at three sequences, future-dated lists    *)
(* included.                                                               *)
DatedObjects == HistoryObjects({"k1"}, {1}, 1..3, 1..3, {0, 1}, {1})
Equivocation == INSTANCE StatusHistory WITH
  Authentic <- DatedObjects, Certs <- {1}, StatusKeys <- <<"k1">>, MaxHeard <- 3

(* Three of the lists and pushes that revoke either of two certificates.   *)
PairObjects == HistoryObjects({"k1"}, {1, 2}, 1..3, 1..3, {0}, {1})
Pair == INSTANCE StatusHistory WITH
  Authentic <- PairObjects, StatusKeys <- <<"k1">>, MaxHeard <- 3

(* Four objects, every body with two signatures.                           *)
TwiceSigned == HistoryObjects({"k1"}, {1}, 1..2, {2}, {0}, {1, 2})
Hedged == INSTANCE StatusHistory WITH
  Authentic <- TwiceSigned, Certs <- {1}, StatusKeys <- <<"k1">>

(* Two certificates over two status keys.                                  *)
TwoKeys == <<"k1", "k2">>
TwoEpochs == HistoryObjects({"k1", "k2"}, {1, 2}, 1..2, 1..2, {0}, {1})
Epochs == INSTANCE StatusHistory WITH Authentic <- TwoEpochs, MaxHeard <- 2

AllHistories == DatedObjects \cup PairObjects \cup TwiceSigned \cup TwoEpochs

-----------------------------------------------------------------------------
(* The journal.                                                            *)
K1 == <<"e1", "m1">>
K2 == <<"e2", "m2">>
K3 == <<"e3", "m1">>
K4 == <<"e4", "m4">>
FourKeys == {K1, K2, K3, K4}
NoKeyOfIssuer == <<K3>>
TwoChecks == {[issuer |-> 1, cert |-> 1], [issuer |-> 1, cert |-> 2]}

List(k, seq, revoked) == [type |-> "list", issuer |-> 1, key |-> k, seq |-> seq, at |-> 0,
                          until |-> 2, revoked |-> revoked, sig |-> 1]
Push(k, seq, revoked) == [List(k, seq, revoked) EXCEPT !.type = "push", !.until = 0]
PublisherHistory == {List(K1, 1, {}), Push(K1, 2, {1}), List(K2, 1, {1})}

(* Two status stages and an operator, over two epochs.                     *)
Race == INSTANCE SecurityJournal WITH
  Keys <- {K1, K2}, Roles <- {"verifier"}, MaxTime <- 0

(* One stage, every assignment of keys that share components; a push and a *)
(* full list at one sequence.                                              *)
KeyUses == INSTANCE SecurityJournal WITH
  IssuerKeys <- <<K4>>, Roles <- {"issuer"}, MaxTime <- 0,
  Objects <- PublisherHistory \cup {List(K1, 2, {1})}
KeyUsesNext == KeyUses!OperatorStep \/ KeyUses!StageStep(sA)

-----------------------------------------------------------------------------
(* A publisher that crashes, its channel and a verifier.                   *)
Feed == INSTANCE StatusFeed WITH
  status <- view, MaxListLifetime <- 3, Certs <- {1, 2}, StatusKey <- "k1", Lifetime <- 3,
  MaxAhead <- 1, MaxSeq <- 2, MaxCrashes <- 1

-----------------------------------------------------------------------------
(* The history that does not move is empty, at a time when no list of any  *)
(* history is fresh.                                                       *)
HistoryIdle ==
  /\ status = EmptyStatus(1, StatusKeys[1]) /\ heard = {} /\ carried = {}
  /\ clock = MaxClock + MaxStatusAge

Idle == "idle"
FeedIdle ==
  /\ durable = Idle /\ signed = Idle /\ outgoing = Idle /\ crashes = Idle
  /\ revokedAt = Idle /\ view = Idle
JournalIdle ==
  /\ anchored = Genesis /\ operator = [c \in Operators |-> IdleOperator]
  /\ stage = [e \in Stages |-> NoStage]
  /\ absorbed = [i \in Issuers |-> {}] /\ refused = FALSE
journalOnly == <<anchored, operator, stage, absorbed, refused>>
NothingPublished == now = 0 /\ published = {}

InitOf ==
  \/ scenario = "equivocation" /\ Equivocation!HistoryInit /\ JournalIdle /\ FeedIdle /\ NothingPublished
  \/ scenario = "pair" /\ Pair!HistoryInit /\ JournalIdle /\ FeedIdle /\ NothingPublished
  \/ scenario = "hedged" /\ Hedged!HistoryInit /\ JournalIdle /\ FeedIdle /\ NothingPublished
  \/ scenario = "epochs" /\ Epochs!HistoryInit /\ JournalIdle /\ FeedIdle /\ NothingPublished
  \/ scenario = "race" /\ Race!Init /\ HistoryIdle /\ FeedIdle
  \/ scenario = "keys" /\ KeyUses!Init /\ HistoryIdle /\ FeedIdle
  \/ scenario = "feed" /\ Feed!Init /\ HistoryIdle /\ JournalIdle
StatusInit == scenario \in Scenarios /\ InitOf

StatusNext ==
  /\ UNCHANGED scenario
  /\ \/ /\ \/ scenario = "equivocation" /\ Equivocation!HistoryNext
           \/ scenario = "pair" /\ Pair!HistoryNext
           \/ scenario = "hedged" /\ Hedged!HistoryNext
           \/ scenario = "epochs" /\ Epochs!HistoryNext
        /\ UNCHANGED <<journalOnly, now, published, feedOnly>>
     \/ /\ \/ scenario = "race" /\ Race!Next
           \/ scenario = "keys" /\ KeyUsesNext
        /\ UNCHANGED <<historyVars, feedOnly>>
     \/ scenario = "feed" /\ Feed!Next /\ UNCHANGED <<historyVars, journalOnly>>

StatusSpec == StatusInit /\ [][StatusNext]_allVars

(* The race does not tell its stages apart; no other scenario uses sB.     *)
Symmetry == Permutations(Stages)

-----------------------------------------------------------------------------
(* Modules StatusHistory, SecurityJournal and StatusFeed state these       *)
(* properties.                                                             *)

(* An answer is never older than the denials of the journal, rests on what *)
(* the journal committed, and is at most a lifetime behind the issuer; and *)
(* honest evidence never looks like equivocation: what the journal         *)
(* accepted stays denied over every race of its writers, its records load  *)
(* back and are never refused, the publisher's key is the one its          *)
(* verifiers accept, and a publisher that crashes contradicts nothing it   *)
(* sent (the status stage, the journal's validation, StatusPublisher).     *)
StatusServiceSound ==
  /\ scenario = "race" => AnswersNotStale /\ EvidenceSupportsAnswer
  /\ scenario \in {"race", "keys"} =>
       RevocationsAbsorbed /\ NeverRefused /\ LoadsBack /\ PublisherKeyAccepted
  /\ scenario = "feed" =>
       Feed!BoundedStaleness /\ Feed!HonestFeedNeverForks /\ Feed!PublisherConsistent
=============================================================================
