------------------------------ MODULE StatusFeed ------------------------------
(***************************************************************************)
(* The status publisher of an issuer (sdks/rust/src/v2/status_publisher.rs)*)
(* and a verifier that follows it over an unreliable channel.              *)
(*                                                                         *)
(* A publisher operation is a pure transition: it signs the next list (and *)
(* for a revocation a push) from the state it is given.  The caller makes  *)
(* the new state durable and only then publishes the objects; it may crash *)
(* between any two of these steps, which loses what is not durable or not  *)
(* published.  Published objects reach the verifier in any order, any      *)
(* number of times, or never; the verifier applies them with the reducer   *)
(* of StatusReducer.  The publisher's clock may run ahead of the           *)
(* verifier's by MaxAhead.                                                 *)
(***************************************************************************)
EXTENDS StatusReducer

CONSTANTS Certs,      \* certificates of the issuer
          StatusKey,  \* its status key
          Lifetime,   \* lifetime_seconds of the publisher
          MaxAhead,   \* how far the publisher's clock may be ahead
          MaxSeq,     \* bound: MAX_SAFE, the last sequence
          MaxTime,    \* bound: the clock
          MaxCrashes  \* bound: crashes of the caller

VARIABLES now,        \* the verifier's clock
          durable,    \* the caller's durable V2StatusPublisherState
          signed,     \* the V2StatusPublication in hand, or none
          outgoing,   \* objects of a durable publication not yet published
          published,  \* objects on the channel
          crashes,
          status,     \* the verifier's state
          revokedAt   \* certificate -> the time of its durable revocation

feedVars == <<now, durable, signed, outgoing, published, crashes, status, revokedAt>>

NoState == [sequence |-> 0, updated_at |-> -1, revoked |-> {}]
Nothing == [state |-> NoState, objects |-> {}]

-----------------------------------------------------------------------------
(* The publisher.  `sig` tells two signatures over one body apart.         *)

SignedList(state, seq, at, sig) ==
  [type |-> "list", issuer |-> 1, key |-> StatusKey, seq |-> seq, at |-> at,
   until |-> at + Lifetime, revoked |-> state.revoked, sig |-> sig]

SignedPush(certs, seq, at, sig) ==
  [type |-> "push", issuer |-> 1, key |-> StatusKey, seq |-> seq, at |-> at,
   until |-> 0, revoked |-> certs, sig |-> sig]

Publication(state, seq, at, push, sig) ==
  [state   |-> [state EXCEPT !.sequence = seq, !.updated_at = at],
   objects |-> push \cup {SignedList(state, seq, at, sig)}]

CheckState(state, at) == state.sequence \in 1..MaxSeq /\ at > state.updated_at

Genesis(at, sig) == Publication(NoState, 1, at, {}, sig)

(* Faulty variant: the heartbeat repeats the first list.                   *)
HeartbeatOfGenesis(state, at, sig) ==
  [state   |-> [state EXCEPT !.updated_at = at],
   objects |-> {SignedList(NoState, 1, at, sig)}]

Heartbeat(state, at, sig) == Publication(state, state.sequence, at, {}, sig)

Revoke(state, certs, at, sig) ==
  LET seq == state.sequence + 1
  IN  Publication([state EXCEPT !.revoked = @ \cup certs], seq, at,
                  {SignedPush(certs, seq, at, sig)}, sig)

MayRevoke(state, certs) ==
  certs # {} /\ certs \cap state.revoked = {} /\ state.sequence + 1 <= MaxSeq

-----------------------------------------------------------------------------
(* The caller.                                                             *)

StampTimes == now..Min({now + MaxAhead, MaxTime + MaxAhead})

SignGenesis(at) ==
  /\ signed = Nothing /\ durable = NoState
  /\ signed' = Genesis(at, crashes)
  /\ UNCHANGED <<now, durable, outgoing, published, crashes, status, revokedAt>>

SignHeartbeat(at) ==
  /\ signed = Nothing /\ outgoing = {} /\ CheckState(durable, at)
  /\ signed' = Heartbeat(durable, at, crashes)
  /\ UNCHANGED <<now, durable, outgoing, published, crashes, status, revokedAt>>

SignRevocation(certs, at) ==
  /\ signed = Nothing /\ outgoing = {} /\ CheckState(durable, at)
  /\ MayRevoke(durable, certs)
  /\ signed' = Revoke(durable, certs, at, crashes)
  /\ UNCHANGED <<now, durable, outgoing, published, crashes, status, revokedAt>>

Persist ==
  /\ signed # Nothing
  /\ durable' = signed.state
  /\ outgoing' = signed.objects
  /\ signed' = Nothing
  /\ revokedAt' = [c \in DOMAIN revokedAt \cup signed.state.revoked |->
                     IF c \in DOMAIN revokedAt THEN revokedAt[c] ELSE signed.state.updated_at]
  /\ UNCHANGED <<now, published, crashes, status>>

Publish(o) ==
  /\ o \in outgoing
  /\ outgoing' = outgoing \ {o}
  /\ published' = published \cup {o}
  /\ UNCHANGED <<now, durable, signed, crashes, status, revokedAt>>

(* The last crash leaves time for one more heartbeat.                      *)
Crash ==
  /\ crashes < MaxCrashes /\ crashes' = crashes + 1
  /\ signed # Nothing \/ outgoing # {}
  /\ durable.updated_at < MaxTime /\ signed.state.updated_at < MaxTime
  /\ signed' = Nothing /\ outgoing' = {}
  /\ UNCHANGED <<now, durable, published, status, revokedAt>>

-----------------------------------------------------------------------------
(* The verifier.                                                           *)

Receive(o) ==
  /\ o \in published
  /\ status' = Apply(status, o, now)
  /\ UNCHANGED <<now, durable, signed, outgoing, published, crashes, revokedAt>>

Tick ==
  /\ now < MaxTime /\ now' = now + 1
  /\ UNCHANGED <<durable, signed, outgoing, published, crashes, status, revokedAt>>

Init ==
  /\ now = 0 /\ durable = NoState /\ signed = Nothing /\ outgoing = {}
  /\ published = {} /\ crashes = 0
  /\ status = EmptyStatus(1, StatusKey)
  /\ revokedAt = [c \in {} |-> 0]

Next ==
  \/ \E at \in StampTimes : SignGenesis(at)
  \/ \E at \in StampTimes : SignHeartbeat(at)
  \/ \E at \in StampTimes, certs \in SUBSET Certs : SignRevocation(certs, at)
  \/ Persist
  \/ \E o \in outgoing : Publish(o)
  \/ Crash
  \/ \E o \in published : Receive(o)
  \/ Tick

Spec == Init /\ [][Next]_feedVars

(* The duties the publisher's documentation gives its caller: it goes on   *)
(* signing heartbeats, persisting and publishing.  The provider a verifier *)
(* asks returns the newest list again and again: the last conjunct is weak *)
(* fairness of receiving it, with its enabling condition written out.      *)
Newest == {l \in published : l.type = "list" /\ \A o \in published : o.at <= l.at}

Fairness ==
  /\ WF_feedVars(Tick)
  /\ WF_feedVars(\E at \in StampTimes : SignHeartbeat(at))
  /\ WF_feedVars(Persist)
  /\ WF_feedVars(\E o \in outgoing : Publish(o))
  /\ \/ []<>(\A o \in Newest : Apply(status, o, now) = status)
     \/ []<><<\E o \in Newest : Receive(o)>>_feedVars

FairSpec == Spec /\ Fairness

-----------------------------------------------------------------------------
TypeOK ==
  /\ now \in 0..MaxTime /\ crashes \in 0..MaxCrashes
  /\ durable.sequence \in 0..MaxSeq /\ durable.revoked \subseteq Certs
  /\ \A o \in published \cup outgoing \cup signed.objects :
       o.type \in {"list", "push"} /\ o.seq \in 1..MaxSeq /\ o.revoked \subseteq Certs
  /\ DOMAIN revokedAt \subseteq Certs

(* The publisher never contradicts itself: at one sequence it publishes    *)
(* one revoked set and one push body, and a later list holds everything an *)
(* earlier one held, over crashes at any step (status_publisher.rs, "a     *)
(* crash can never sign two different bodies at one sequence").            *)
PublisherConsistent ==
  \A a, b \in published :
    /\ a.type = b.type /\ a.seq = b.seq => a.revoked = b.revoked
    /\ b.type = "list" /\ a.seq <= b.seq => a.revoked \subseteq b.revoked

(* An honest feed never looks like equivocation to a verifier, whatever is *)
(* lost, repeated or reordered: no fork is marked and the state is valid.  *)
HonestFeedNeverForks ==
  /\ status.fork_sequence = 0 /\ \A o \in ToSet(status.observations) : ~o.fork
  /\ ValidBinding(status) /\ ValidAcceptedState(status)

(* A revoked certificate is answered not_revoked for less than the         *)
(* configured age of the status after the time of its revocation, whatever *)
(* the channel withholds: the last list without it is at least one second  *)
(* older (check_state, list_fresh).                                        *)
BoundedStaleness ==
  \A c \in DOMAIN revokedAt :
    StatusForCert(status, c, now).status = "not_revoked" => now + 1 < revokedAt[c] + MaxStatusAge

(* A durable revocation reaches the verifier, also when the caller crashed *)
(* before it published the push and the list.                              *)
RevocationArrives ==
  \A c \in Certs : c \in DOMAIN revokedAt ~> StatusForCert(status, c, now).status = "revoked"
=============================================================================
