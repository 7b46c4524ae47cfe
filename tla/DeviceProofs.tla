---------------------------- MODULE DeviceProofs ----------------------------
(***************************************************************************)
(* What the offline device and the approval ledger promise, for any        *)
(* primaries, threads, sets, registries, claims and bounds.                *)
(*                                                                         *)
(* The device, whoever binds a primary, loses power or undoes a change.    *)
(* The state the component anchored is the one thing no copy can alter:    *)
(* what callers were told it anchored is what it says, and the records are *)
(* one chain.  A primary comes back only when its complete state is the    *)
(* anchored one, so it has that too.  As long as no store changes while it *)
(* is being bound, what a binding remembers of the store is what the store *)
(* holds, and every record is a prefix of the anchored log.                *)
(*                                                                         *)
(* The ledger: what fills a slot was released, allows this action for the  *)
(* root of the slot and is recorded under its claim, so it fills no other. *)
(***************************************************************************)
EXTENDS OfflineDevice, ApprovalLedger, SequenceTheorems, FiniteSetTheorems, TLAPS

Stores == [claims : Nat, log : Seq(Bodies)]

States == [claims : Nat, log : Seq(Bodies), journal : Nat, issued : SUBSET Challenges]

Records == [claims : Nat, log : Seq(Bodies), journal : Nat, issued : SUBSET Challenges,
            live : BOOLEAN, attached : BOOLEAN, hooked : BOOLEAN, last : Stores]

Setups == [pc : {"issuance", "store"}, from : Primaries]
            \cup [pc : {"attach"}, read : Stores] \cup [pc : {"hook"}]

Changes == [pc : {"change"}, prim : Primaries, kind : {"issue", "journal"},
            x : Challenges \cup {0}, expected : Nat,
            saved : [journal : Nat, issued : SUBSET Challenges]]

Submissions == [pc : {"scan", "commit"}, next : Nat, only : BOOLEAN]

DeviceType ==
  /\ prim \in [Primaries -> Records]
  /\ comp \in [state : States, records : Seq(Seq(Bodies)), frozen : BOOLEAN]
  /\ setup \in [Primaries -> {NoSetup} \cup Setups] /\ overlapped \in BOOLEAN
  /\ thread \in [Threads -> {NoThread} \cup Changes]
  /\ \A t \in Threads :
       thread[t].pc = "change" /\ thread[t].kind = "issue" => thread[t].x \in Challenges
  /\ sub \in [Primaries -> {NoSubmission} \cup Submissions]
  /\ told \in [claims : Nat, log : Seq(Bodies), journal : Nat, issued : SUBSET Challenges,
               acked : Seq(Bodies)]

(* A primary is copied before it lives and bound while it lives, and the   *)
(* component is attached before the hook is installed.                     *)
SetupInOrder ==
  \A p \in Primaries :
    /\ prim[p].hooked => prim[p].attached
    /\ prim[p].attached => prim[p].live /\ (prim[p].hooked \/ setup[p].pc = "hook")
    /\ Binding(p) => prim[p].live
    /\ setup[p].pc \in {"issuance", "store"} => ~prim[p].live
    /\ setup[p].pc = "hook" => prim[p].attached

(* Unless a store changed while it was bound, what a binding remembers of  *)
(* the store, or will remember, is what it holds.                          *)
StoreRemembered ==
  ~overlapped => \A p \in Primaries : /\ prim[p].attached => prim[p].last = StoreOf(p)
                                      /\ setup[p].pc = "attach" => setup[p].read = StoreOf(p)

(* A submission runs at a bound primary, over entries that are there.      *)
SubmitsItsLog ==
  \A p \in Primaries : sub[p].pc # "idle" =>
    /\ prim[p].hooked
    /\ sub[p].next \in 1..(Len(prim[p].log) + 1)
    /\ sub[p].pc = "commit" => sub[p].next <= Len(prim[p].log)

(* What callers were told is anchored is what the component anchored.      *)
ToldIsAnchored ==
  /\ told.claims = comp.state.claims /\ told.log = comp.state.log
  /\ told.journal = comp.state.journal /\ told.issued = comp.state.issued

DeviceInv ==
  /\ DeviceType /\ SetupInOrder /\ StoreRemembered /\ SubmitsItsLog
  /\ ToldIsAnchored /\ RecordsSound

-----------------------------------------------------------------------------
(* The hash of an entry is not changed by a later one.                     *)
LEMMA HashKept ==
  ASSUME NEW S, NEW log \in Seq(S), NEW b \in S, NEW n \in 0..Len(log)
  PROVE  Hash(Append(log, b), n) = Hash(log, n)
BY DEF Hash

(* The hash of an entry is the log up to that entry.                       *)
LEMMA HashType ==
  ASSUME NEW S, NEW log \in Seq(S), NEW n \in 0..Len(log)
  PROVE  Hash(log, n) \in Seq(S) /\ Len(Hash(log, n)) = n
BY DEF Hash

-----------------------------------------------------------------------------
(* A fresh record, live or bound.                                          *)
LEMMA FreshRecord ==
  /\ [Fresh EXCEPT !.live = FALSE] \in Records
  /\ [Fresh EXCEPT !.attached = TRUE, !.hooked = TRUE] \in Records
<1>1. Fresh \in Records
  <2>1. [claims |-> 0, log |-> <<>>] \in Stores
    BY DEF Stores
  <2> QED
    BY <2>1 DEF Fresh, Records
<1> HIDE DEF Fresh
<1> QED
  BY <1>1 DEF Records

(* Init establishes the invariant.                                         *)
LEMMA InitInv == Init => DeviceInv
<1> SUFFICES ASSUME Init PROVE DeviceInv
  OBVIOUS
<1> USE ProvisionedPrimary
<1>1. /\ prim[First] = [Fresh EXCEPT !.attached = TRUE, !.hooked = TRUE]
      /\ \A p \in Primaries : p # First => prim[p] = [Fresh EXCEPT !.live = FALSE]
  BY DEF Init
<1>2. prim \in [Primaries -> Records]
  BY FreshRecord DEF Init
<1>3. comp.state = [claims |-> 0, log |-> <<>>, journal |-> 0, issued |-> {}]
  BY <1>1 DEF Init, Digest, Compose, StoreOf, Fresh
<1>4. PICK state : comp = [state |-> state, records |-> <<>>, frozen |-> FALSE]
  BY DEF Init
<1>5. \A p \in Primaries : setup[p].pc = "idle"
  BY DEF Init, NoSetup
<1>6. DeviceType
  <2>1. comp \in [state : States, records : Seq(Seq(Bodies)), frozen : BOOLEAN]
    <3>1. comp.state \in States
      BY <1>3 DEF States
    <3>2. <<>> \in Seq(Seq(Bodies))
      OBVIOUS
    <3> QED
      BY <1>4, <3>1, <3>2, ZenonT(20)
  <2>2. thread \in [Threads -> {NoThread} \cup Changes]
    BY DEF Init
  <2>3. \A t \in Threads : thread[t].pc # "change"
    BY DEF Init, NoThread
  <2>4. sub \in [Primaries -> {NoSubmission} \cup Submissions]
    BY DEF Init
  <2>5. told \in [claims : Nat, log : Seq(Bodies), journal : Nat, issued : SUBSET Challenges,
                  acked : Seq(Bodies)]
    BY DEF Init
  <2>6. setup \in [Primaries -> {NoSetup} \cup Setups] /\ overlapped \in BOOLEAN
    BY DEF Init
  <2> QED
    BY <1>2, <2>1, <2>2, <2>3, <2>4, <2>5, <2>6 DEF DeviceType
<1>7. SetupInOrder
  <2>1. /\ prim[First].live /\ prim[First].attached /\ prim[First].hooked
        /\ \A p \in Primaries : p # First => ~prim[p].attached /\ ~prim[p].hooked
    BY <1>1 DEF Fresh
  <2> QED
    BY <1>5, <2>1 DEF SetupInOrder, Binding
<1>8. StoreRemembered
  <2>1. prim[First].last = StoreOf(First)
    BY <1>1 DEF StoreOf, Fresh
  <2>2. \A p \in Primaries : p # First => ~prim[p].attached
    BY <1>1 DEF Fresh
  <2> QED
    BY <1>5, <2>1, <2>2 DEF StoreRemembered
<1>9. SubmitsItsLog
  BY DEF Init, SubmitsItsLog, NoSubmission
<1>10. ToldIsAnchored
  BY <1>3 DEF Init, ToldIsAnchored
<1>11. RecordsSound
  <2>1. comp.records = <<>> /\ told.acked = <<>>
    BY <1>4 DEF Init
  <2> QED
    BY <2>1 DEF RecordsSound, RecordsOneChain, AnchorCoversRecords
<1> QED
  BY <1>6, <1>7, <1>8, <1>9, <1>10, <1>11 DEF DeviceInv

-----------------------------------------------------------------------------
(* A primary whose complete state the component anchored has what callers  *)
(* were told.                                                              *)
LEMMA AnchoredPrimary ==
  ASSUME NEW p \in Primaries, comp.state = Digest(p)
  PROVE  /\ comp.state.claims = prim[p].claims /\ comp.state.log = prim[p].log
         /\ comp.state.journal = prim[p].journal /\ comp.state.issued = prim[p].issued
BY DEF Digest, Compose, StoreOf

(* A claim store change only lets the log grow; with a hook the component  *)
(* anchors it before anybody is told (change_locked).                      *)
Grows(old, next) ==
  /\ next.journal = old.journal /\ next.issued = old.issued
  /\ next.live = old.live /\ next.last = old.last
  /\ next.attached = old.attached /\ next.hooked = old.hooked
  /\ Len(old.log) <= Len(next.log)
  /\ \A n \in 0..Len(old.log) : Hash(next.log, n) = Hash(old.log, n)

(* The records stay one chain in a step that changes neither them nor what *)
(* callers heard of them.                                                  *)
LEMMA SameChain ==
  ASSUME RecordsOneChain, comp'.records = comp.records, told'.acked = told.acked
  PROVE  RecordsOneChain'
BY DEF RecordsOneChain

(* A submission goes on in a step in which only logs grow and no primary   *)
(* loses its hook.                                                         *)
LEMMA SubmitsOn ==
  ASSUME DeviceType, DeviceType', SubmitsItsLog, sub' = sub,
         \A p \in Primaries : sub[p].pc # "idle" =>
           prim'[p].hooked /\ Len(prim[p].log) <= Len(prim'[p].log)
  PROVE  SubmitsItsLog'
<1>1. \A p \in Primaries : Len(prim[p].log) \in Nat /\ Len(prim'[p].log) \in Nat
  BY DEF DeviceType, Records
<1>2. ASSUME NEW p \in Primaries, sub[p].pc # "idle"
      PROVE  /\ prim'[p].hooked
             /\ sub[p].next \in 1..(Len(prim'[p].log) + 1)
             /\ sub[p].pc = "commit" => sub[p].next <= Len(prim'[p].log)
  <2>1. /\ sub[p].next \in 1..(Len(prim[p].log) + 1)
        /\ sub[p].pc = "commit" => sub[p].next <= Len(prim[p].log)
    BY <1>2 DEF SubmitsItsLog
  <2>2. prim'[p].hooked /\ Len(prim[p].log) <= Len(prim'[p].log)
    BY <1>2
  <2> QED
    BY <1>1, <2>1, <2>2
<1> QED
  BY <1>2 DEF SubmitsItsLog

(* A change that only grows the log of a primary keeps the invariant,      *)
(* whether it is anchored, refused or made without a hook.                 *)
LEMMA StoreChangeInv ==
  ASSUME DeviceInv, NEW p \in Primaries, prim[p].live, NEW next \in Records,
         Grows(prim[p], next), StoreChange(p, next)
  PROVE  DeviceInv'
<1> USE DEF DeviceInv
<1>1. UNCHANGED <<setup, thread, sub, uploaded, faults>>
  BY DEF StoreChange
<1>2. prim[p] \in Records /\ comp.state \in States
  BY DEF DeviceType
<1> DEFINE store == [claims |-> next.claims, log |-> next.log]
           refused == prim[p].hooked /\ ~AnchorAccepts(Digest(p))
<1>3. /\ overlapped' = (overlapped \/ (Binding(p) /\ ~refused))
      /\ overlapped' \in BOOLEAN
      /\ ~overlapped' => ~overlapped /\ (refused \/ ~Binding(p))
  BY DEF StoreChange, DeviceType
<1>4. \A q \in Primaries : Binding(q)' = Binding(q)
  BY <1>1 DEF Binding
<1>5. CASE refused /\ UNCHANGED <<comp, prim, told>>
  <2>1. DeviceType'
    BY <1>1, <1>3, <1>5 DEF DeviceType
  <2>2. SetupInOrder' /\ SubmitsItsLog' /\ ToldIsAnchored'
    BY <1>1, <1>4, <1>5 DEF SetupInOrder, SubmitsItsLog, ToldIsAnchored
  <2>3. StoreRemembered'
    BY <1>1, <1>3, <1>5 DEF StoreRemembered, StoreOf
  <2>4. RecordsSound'
    BY <1>3, <1>5 DEF RecordsSound, RecordsOneChain, AnchorCoversRecords
  <2> QED
    BY <2>1, <2>2, <2>3, <2>4
<1>6. CASE ~prim[p].hooked /\ prim' = [prim EXCEPT ![p] = next] /\ UNCHANGED <<comp, told>>
  <2>1. /\ prim'[p] = next
        /\ \A q \in Primaries : q # p => prim'[q] = prim[q]
    BY <1>6 DEF DeviceType
  <2>2. DeviceType'
    BY <1>1, <1>3, <1>6 DEF DeviceType
  <2>3. SetupInOrder'
    BY <1>1, <1>4, <2>1 DEF SetupInOrder, Grows
  <2>4. StoreRemembered'
    <3>1. ~overlapped' => ~overlapped /\ ~prim[p].attached /\ setup[p].pc # "attach"
      BY <1>3, <1>6 DEF SetupInOrder, Binding
    <3> QED
      BY <1>1, <2>1, <3>1 DEF StoreRemembered, StoreOf, Grows
  <2>5. SubmitsItsLog'
    <3>1. sub[p].pc = "idle"
      BY <1>6 DEF SubmitsItsLog
    <3> QED
      BY <1>1, <2>1, <3>1 DEF SubmitsItsLog
  <2>6. ToldIsAnchored' /\ RecordsSound'
    BY <1>3, <1>6 DEF ToldIsAnchored, RecordsSound, RecordsOneChain, AnchorCoversRecords
  <2> QED
    BY <2>2, <2>3, <2>4, <2>5, <2>6
<1>7. CASE /\ prim[p].hooked /\ ~refused
           /\ comp' = [comp EXCEPT !.state = Compose(store, p)]
           /\ prim' = [prim EXCEPT ![p] = [next EXCEPT !.last = store]]
           /\ told' = [told EXCEPT !.claims = store.claims, !.log = store.log]
  <2>1. store \in Stores /\ Compose(store, p) \in States
    BY <1>2 DEF Stores, States, Compose, Records
  <2> HIDE DEF store
  <2>2. [next EXCEPT !.last = store] \in Records
    BY <2>1 DEF Records
  <2>3. /\ told'.claims = store.claims /\ told'.log = store.log
        /\ told'.journal = told.journal /\ told'.issued = told.issued
        /\ told'.acked = told.acked
    BY <1>7 DEF DeviceType
  <2>4. /\ comp'.state = Compose(store, p) /\ comp'.records = comp.records
    BY <1>7 DEF DeviceType
  <2>5. DeviceType'
    <3>1. told' \in [claims : Nat, log : Seq(Bodies), journal : Nat,
                     issued : SUBSET Challenges, acked : Seq(Bodies)]
      BY <1>7, <2>1 DEF DeviceType, Stores
    <3>2. prim' \in [Primaries -> Records]
      BY <1>7, <2>2 DEF DeviceType
    <3>3. comp' \in [state : States, records : Seq(Seq(Bodies)), frozen : BOOLEAN]
      BY <1>7, <2>1 DEF DeviceType
    <3> QED
      BY <1>1, <1>3, <3>1, <3>2, <3>3 DEF DeviceType
  <2>6. /\ prim'[p].last = store
        /\ prim'[p].live = prim[p].live
        /\ prim'[p].attached = prim[p].attached /\ prim'[p].hooked = prim[p].hooked
        /\ prim'[p].claims = store.claims /\ prim'[p].log = store.log
    BY <1>7, <2>2 DEF DeviceType, Records, Grows, store
  <2>7. \A q \in Primaries : q # p => prim'[q] = prim[q]
    BY <1>7 DEF DeviceType
  <2>8. SetupInOrder'
    BY <1>1, <1>4, <2>6, <2>7 DEF SetupInOrder
  <2>9. StoreRemembered'
    <3>1. StoreOf(p)' = store
      BY <2>6 DEF StoreOf, store
    <3>2. ~overlapped' => ~overlapped /\ setup[p].pc # "attach"
      BY <1>3, <1>7 DEF Binding
    <3>3. \A q \in Primaries : q # p => StoreOf(q)' = StoreOf(q)
      BY <2>7 DEF StoreOf
    <3> QED
      BY <1>1, <2>6, <2>7, <3>1, <3>2, <3>3 DEF StoreRemembered
  <2>10. Len(prim[p].log) <= Len(prim'[p].log)
    BY <2>6 DEF Grows, store
  <2>11. SubmitsItsLog'
    <3>1. \A q \in Primaries : Len(prim[q].log) \in Nat
      BY DEF DeviceType, Records
    <3>2. \A q \in Primaries : sub[q].pc # "idle" =>
            prim'[q].hooked /\ Len(prim[q].log) <= Len(prim'[q].log)
      BY <2>6, <2>7, <2>10, <3>1 DEF SubmitsItsLog
    <3> QED
      BY <1>1, <2>5, <3>2, SubmitsOn
  <2>12. /\ comp.state.claims = prim[p].claims /\ comp.state.log = prim[p].log
         /\ comp.state.journal = prim[p].journal /\ comp.state.issued = prim[p].issued
    <3>1. comp.state = Digest(p)
      BY <1>7 DEF AnchorAccepts
    <3> QED
      BY <3>1, AnchoredPrimary
  <2>13. /\ Len(comp.state.log) <= Len(comp'.state.log)
         /\ \A n \in 0..Len(comp.state.log) : Hash(comp'.state.log, n) = Hash(comp.state.log, n)
    BY <2>4, <2>12 DEF Compose, Grows, store
  <2>14. Len(comp.state.log) \in Nat /\ Len(comp'.state.log) \in Nat
    BY <2>5 DEF DeviceType, States
  <2>15. ToldIsAnchored'
    <3>1. /\ comp'.state.claims = store.claims /\ comp'.state.log = store.log
          /\ comp'.state.journal = prim[p].journal /\ comp'.state.issued = prim[p].issued
      BY <2>4 DEF Compose
    <3> QED
      BY <2>3, <2>12, <3>1 DEF ToldIsAnchored
  <2>16. RecordsSound'
    <3>1. RecordsOneChain'
      BY <2>3, <2>4, SameChain DEF RecordsSound
    <3>2. DOMAIN comp.records \subseteq Nat
      BY DEF DeviceType
    <3>3. ~overlapped' => AnchorCoversRecords'
      BY <1>3, <2>4, <2>13, <2>14, <3>2 DEF RecordsSound, AnchorCoversRecords
    <3> QED
      BY <3>1, <3>3 DEF RecordsSound
  <2> QED
    BY <2>5, <2>8, <2>9, <2>11, <2>15, <2>16
<1> QED
  BY <1>5, <1>6, <1>7 DEF StoreChange

(* An accepted claim is such a change.                                     *)
LEMMA ClaimInv ==
  ASSUME DeviceInv, NEW p \in Primaries, Claim(p)
  PROVE  DeviceInv'
<1> DEFINE next == [prim[p] EXCEPT !.claims = @ + 1]
<1>1. prim[p] \in Records /\ prim[p].live /\ StoreChange(p, next)
  BY DEF Claim, DeviceInv, DeviceType
<1>2. next \in Records
  BY <1>1 DEF Records
<1>3. Grows(prim[p], next)
  <2>1. /\ next.log = prim[p].log /\ prim[p].log \in Seq(Bodies)
        /\ next.journal = prim[p].journal /\ next.issued = prim[p].issued
        /\ next.live = prim[p].live /\ next.last = prim[p].last
        /\ next.attached = prim[p].attached /\ next.hooked = prim[p].hooked
    BY <1>1 DEF Records
  <2> HIDE DEF next
  <2> QED
    BY <2>1 DEF Grows
<1> HIDE DEF next
<1> QED
  BY <1>1, <1>2, <1>3, StoreChangeInv

(* An appended receipt is such a change.                                   *)
LEMMA AppendReceiptInv ==
  ASSUME DeviceInv, NEW p \in Primaries, NEW body \in Bodies, AppendReceipt(p, body)
  PROVE  DeviceInv'
<1> DEFINE next == [prim[p] EXCEPT !.log = Append(@, body)]
<1>1. prim[p] \in Records /\ prim[p].live /\ StoreChange(p, next)
  BY DEF AppendReceipt, DeviceInv, DeviceType
<1>2. prim[p].log \in Seq(Bodies) /\ Append(prim[p].log, body) \in Seq(Bodies)
  BY <1>1 DEF Records
<1>3. next \in Records
  BY <1>1, <1>2 DEF Records
<1>4. Grows(prim[p], next)
  <2>1. /\ next.log = Append(prim[p].log, body)
        /\ next.journal = prim[p].journal /\ next.issued = prim[p].issued
        /\ next.live = prim[p].live /\ next.last = prim[p].last
        /\ next.attached = prim[p].attached /\ next.hooked = prim[p].hooked
    BY <1>1 DEF Records
  <2> HIDE DEF next
  <2> QED
    BY <1>2, <2>1, HashKept DEF Grows
<1> HIDE DEF next
<1> QED
  BY <1>1, <1>3, <1>4, StoreChangeInv

-----------------------------------------------------------------------------
(* A journal or issuance change leaves the store and the binding alone.    *)
SameStore(old, next) ==
  /\ next.claims = old.claims /\ next.log = old.log /\ next.last = old.last
  /\ next.live = old.live /\ next.attached = old.attached /\ next.hooked = old.hooked

(* A step that changes only what is issued or journaled keeps the claims,  *)
(* the log and the binding of every primary.                               *)
LEMMA SameStoreInv ==
  ASSUME DeviceInv, NEW p \in Primaries, NEW next \in Records, SameStore(prim[p], next),
         prim' = [prim EXCEPT ![p] = next], UNCHANGED <<setup, overlapped, sub>>
  PROVE  /\ prim' \in [Primaries -> Records]
         /\ SetupInOrder' /\ StoreRemembered' /\ SubmitsItsLog'
<1>1. prim' \in [Primaries -> Records]
  BY DEF DeviceInv, DeviceType
<1>2. /\ prim'[p] = next
      /\ \A q \in Primaries : q # p => prim'[q] = prim[q]
  BY DEF DeviceInv, DeviceType
<1>3. \A q \in Primaries : SameStore(prim[q], prim'[q])
  BY <1>2 DEF SameStore
<1>4. SetupInOrder'
  BY <1>3 DEF DeviceInv, SetupInOrder, SameStore, Binding
<1>5. StoreRemembered'
  <2>1. \A q \in Primaries : StoreOf(q)' = StoreOf(q)
    BY <1>3 DEF SameStore, StoreOf
  <2> QED
    BY <1>3, <2>1 DEF DeviceInv, StoreRemembered, SameStore
<1>6. SubmitsItsLog'
  BY <1>3 DEF DeviceInv, SubmitsItsLog, SameStore
<1> QED
  BY <1>1, <1>4, <1>5, <1>6

(* Nothing the invariant is about changes but the threads, the submissions *)
(* or the uploads.                                                         *)
LEMMA SameRest ==
  ASSUME DeviceInv, UNCHANGED <<prim, comp, setup, overlapped, told>>
  PROVE  SetupInOrder' /\ StoreRemembered' /\ ToldIsAnchored' /\ RecordsSound'
<1>1. SetupInOrder' /\ ToldIsAnchored'
  BY DEF DeviceInv, SetupInOrder, ToldIsAnchored, Binding
<1>2. StoreRemembered'
  BY DEF DeviceInv, StoreRemembered, StoreOf
<1>3. RecordsSound'
  BY DEF DeviceInv, RecordsSound, RecordsOneChain, AnchorCoversRecords
<1> QED
  BY <1>1, <1>2, <1>3

(* A thread applies its change before it takes the anchor lock.            *)
LEMMA BeginChangeInv ==
  ASSUME DeviceInv, NEW t \in Threads, NEW p \in Primaries, NEW kind, NEW x,
         NEW expected \in Nat,
         \/ kind = "issue" /\ x \in Challenges
         \/ kind = "journal" /\ x = 0,
         BeginChange(t, p, kind, x, expected)
  PROVE  DeviceInv'
<1>1. UNCHANGED <<prim, comp, setup, overlapped, sub, uploaded, told, faults>>
  BY DEF BeginChange
<1> DEFINE saved == [journal |-> prim[p].journal, issued |-> prim[p].issued]
           v == [pc |-> "change", prim |-> p, kind |-> kind, x |-> x, expected |-> expected,
                 saved |-> saved]
<1>2. saved \in [journal : Nat, issued : SUBSET Challenges]
  BY DEF DeviceInv, DeviceType, Records
<1>3. v \in Changes
  <2> HIDE DEF saved
  <2> QED
    BY <1>2 DEF Changes
<1>4. thread' = [thread EXCEPT ![t] = v]
  BY DEF BeginChange
<1>5. v.kind = "issue" => v.x \in Challenges
  OBVIOUS
<1> HIDE DEF v
<1>6. thread' \in [Threads -> {NoThread} \cup Changes]
  BY <1>3, <1>4 DEF DeviceInv, DeviceType
<1>7. \A u \in Threads :
        thread'[u].pc = "change" /\ thread'[u].kind = "issue" => thread'[u].x \in Challenges
  BY <1>4, <1>5 DEF DeviceInv, DeviceType
<1>8. DeviceType'
  BY <1>1, <1>6, <1>7 DEF DeviceInv, DeviceType
<1> QED
  BY <1>1, <1>8, SameRest DEF DeviceInv, SubmitsItsLog

(* change_other: what the component anchors of a bound primary differs     *)
(* from the anchored state in the journal and the issuance records only.   *)
LEMMA ChangeOtherInv ==
  ASSUME DeviceInv, NEW t \in Threads, ChangeOther(t)
  PROVE  DeviceInv'
<1> DEFINE v == thread[t]
           p == v.prim
           before == Compose(prim[p].last, p)
           after == [before EXCEPT !.journal = Applied(v).journal, !.issued = Applied(v).issued]
<1>1. v.pc = "change" /\ thread' = [thread EXCEPT ![t] = NoThread]
  BY DEF ChangeOther
<1>2. UNCHANGED <<setup, overlapped, sub, uploaded, faults>>
  BY DEF ChangeOther
<1>3. v \in Changes /\ (v.kind = "issue" => v.x \in Challenges)
  BY <1>1 DEF DeviceInv, DeviceType, NoThread
<1>4. p \in Primaries /\ prim[p] \in Records
  BY <1>3 DEF Changes, DeviceInv, DeviceType
<1>5. /\ thread' \in [Threads -> {NoThread} \cup Changes]
      /\ \A u \in Threads :
           thread'[u].pc = "change" /\ thread'[u].kind = "issue" => thread'[u].x \in Challenges
  BY <1>1 DEF DeviceInv, DeviceType, NoThread
<1>6. /\ Applied(v) \in Records /\ SameStore(prim[p], Applied(v))
      /\ Undone(v) \in Records /\ SameStore(prim[p], Undone(v))
  <2> HIDE DEF v
  <2>1. /\ v.kind \in {"issue", "journal"} /\ (v.kind = "issue" => v.x \in Challenges)
        /\ v.saved.journal \in Nat /\ v.saved.issued \in SUBSET Challenges
    BY <1>3 DEF Changes
  <2> HIDE DEF p
  <2>2. prim[v.prim] = prim[p]
    BY DEF p
  <2>3. CASE v.kind = "journal"
    BY <1>4, <2>1, <2>2, <2>3 DEF Applied, Undone, Records, SameStore
  <2>4. CASE v.kind = "issue"
    BY <1>4, <2>1, <2>2, <2>4 DEF Applied, Undone, Records, SameStore
  <2> QED
    BY <2>1, <2>3, <2>4
<1>7. CASE UNCHANGED <<prim, comp, told>>
  <2>1. DeviceType' /\ SubmitsItsLog'
    BY <1>2, <1>5, <1>7 DEF DeviceInv, DeviceType, SubmitsItsLog
  <2> QED
    BY <1>2, <1>7, <2>1, SameRest DEF DeviceInv
<1>8. CASE /\ prim' = [prim EXCEPT ![p] = Applied(v)] \/ prim' = [prim EXCEPT ![p] = Undone(v)]
           /\ UNCHANGED <<comp, told>>
  <2>1. /\ prim' \in [Primaries -> Records]
        /\ SetupInOrder' /\ StoreRemembered' /\ SubmitsItsLog'
    <3> HIDE DEF p, v
    <3> QED
      BY <1>2, <1>4, <1>6, <1>8, SameStoreInv
  <2>2. DeviceType'
    BY <1>2, <1>5, <1>8, <2>1 DEF DeviceInv, DeviceType
  <2>3. ToldIsAnchored' /\ RecordsSound'
    BY <1>2, <1>8 DEF DeviceInv, ToldIsAnchored, RecordsSound, RecordsOneChain, AnchorCoversRecords
  <2> QED
    BY <2>1, <2>2, <2>3 DEF DeviceInv
<1>9. CASE /\ prim[p].attached /\ comp.state = before
           /\ comp' = [comp EXCEPT !.state = after]
           /\ prim' = [prim EXCEPT ![p] = Applied(v)]
           /\ told' = [told EXCEPT !.journal = after.journal, !.issued = after.issued]
  <2> HIDE DEF p, v
  <2>1. /\ prim' \in [Primaries -> Records]
        /\ SetupInOrder' /\ StoreRemembered' /\ SubmitsItsLog'
    BY <1>2, <1>4, <1>6, <1>9, SameStoreInv
  <2>2. before \in States
    BY <1>4 DEF Records, Stores, States, Compose
  <2>3. Applied(v).journal \in Nat /\ Applied(v).issued \in SUBSET Challenges
    BY <1>6 DEF Records
  <2> HIDE DEF before
  <2>4. /\ after \in States
        /\ after.claims = before.claims /\ after.log = before.log
    BY <2>2, <2>3 DEF States
  <2> HIDE DEF after
  <2>5. /\ comp' \in [state : States, records : Seq(Seq(Bodies)), frozen : BOOLEAN]
        /\ comp'.state = after /\ comp'.records = comp.records
    BY <1>9, <2>4 DEF DeviceInv, DeviceType
  <2>6. /\ told' \in [claims : Nat, log : Seq(Bodies), journal : Nat,
                      issued : SUBSET Challenges, acked : Seq(Bodies)]
        /\ told'.claims = told.claims /\ told'.log = told.log /\ told'.acked = told.acked
        /\ told'.journal = after.journal /\ told'.issued = after.issued
    BY <1>9, <2>4 DEF DeviceInv, DeviceType, States
  <2>7. DeviceType'
    BY <1>2, <1>5, <2>1, <2>5, <2>6 DEF DeviceInv, DeviceType
  <2>8. ToldIsAnchored'
    BY <1>9, <2>4, <2>5, <2>6 DEF DeviceInv, ToldIsAnchored
  <2>9. RecordsSound'
    <3>1. RecordsOneChain'
      BY <2>5, <2>6, SameChain DEF DeviceInv, RecordsSound
    <3> QED
      BY <1>2, <1>9, <2>4, <2>5, <3>1 DEF DeviceInv, RecordsSound, AnchorCoversRecords
  <2> QED
    BY <2>1, <2>7, <2>8, <2>9 DEF DeviceInv
<1> QED
  BY <1>7, <1>8, <1>9 DEF ChangeOther, AnchorAccepts

-----------------------------------------------------------------------------
(* A submission starts at an entry of the log.                             *)
LEMMA BeginSubmissionInv ==
  ASSUME DeviceInv, NEW p \in Primaries, NEW n, NEW only \in BOOLEAN,
         BeginSubmission(p, n, only)
  PROVE  DeviceInv'
<1>1. UNCHANGED <<prim, comp, setup, overlapped, thread, uploaded, told, faults>>
  BY DEF BeginSubmission
<1>2. /\ prim[p].hooked /\ n \in 1..Len(prim[p].log) /\ Len(prim[p].log) \in Nat
  BY DEF BeginSubmission, DeviceInv, DeviceType, Records
<1> DEFINE begun == [pc |-> IF only THEN "commit" ELSE "scan", next |-> n, only |-> only]
<1>3. /\ begun \in Submissions /\ begun.next = n
      /\ sub' = [sub EXCEPT ![p] = begun]
  BY <1>2 DEF BeginSubmission, Submissions
<1> HIDE DEF begun
<1>4. /\ sub' \in [Primaries -> {NoSubmission} \cup Submissions] /\ sub'[p] = begun
      /\ \A q \in Primaries : q # p => sub'[q] = sub[q]
  BY <1>3 DEF DeviceInv, DeviceType
<1>5. DeviceType'
  BY <1>1, <1>4 DEF DeviceInv, DeviceType
<1>6. SubmitsItsLog'
  BY <1>1, <1>2, <1>3, <1>4 DEF DeviceInv, SubmitsItsLog
<1> QED
  BY <1>1, <1>5, <1>6, SameRest DEF DeviceInv

(* A submission moves on to an entry the component does not hold.          *)
LEMMA ScanInv ==
  ASSUME DeviceInv, NEW p \in Primaries, Scan(p)
  PROVE  DeviceInv'
<1>1. UNCHANGED <<prim, comp, setup, overlapped, thread, uploaded, told, faults>>
  BY DEF Scan
<1>2. /\ sub[p].pc = "scan" /\ sub[p] \in Submissions
      /\ prim[p].hooked /\ sub[p].next \in 1..(Len(prim[p].log) + 1)
      /\ Len(prim[p].log) \in Nat
  BY DEF Scan, DeviceInv, DeviceType, SubmitsItsLog, NoSubmission, Records
<1>3. PICK next : /\ sub' = [sub EXCEPT ![p] = next]
                  /\ \/ next = NoSubmission
                     \/ /\ sub[p].next <= Len(prim[p].log)
                        /\ \/ next = [sub[p] EXCEPT !.next = sub[p].next + 1]
                           \/ next = [sub[p] EXCEPT !.pc = "commit"]
  <2>1. sub[p].next > Len(prim[p].log) \/ sub[p].next <= Len(prim[p].log)
    BY <1>2
  <2> QED
    BY <2>1 DEF Scan
<1>4. /\ next \in {NoSubmission} \cup Submissions
      /\ next.pc # "idle" =>
           /\ next.next \in 1..(Len(prim[p].log) + 1)
           /\ next.pc = "commit" => next.next <= Len(prim[p].log)
  BY <1>2, <1>3 DEF Submissions, NoSubmission
<1>5. /\ sub' \in [Primaries -> {NoSubmission} \cup Submissions] /\ sub'[p] = next
      /\ \A q \in Primaries : q # p => sub'[q] = sub[q]
  BY <1>3, <1>4 DEF DeviceInv, DeviceType
<1>6. DeviceType'
  BY <1>1, <1>5 DEF DeviceInv, DeviceType
<1>7. SubmitsItsLog'
  BY <1>1, <1>2, <1>4, <1>5 DEF DeviceInv, SubmitsItsLog
<1> QED
  BY <1>1, <1>6, <1>7, SameRest DEF DeviceInv

-----------------------------------------------------------------------------
(* commit_at.  The component takes a record only beside the state it       *)
(* anchored and after the record before it, so the records are one chain;  *)
(* and where the remembered store is the log, a new record is a prefix of  *)
(* the anchored log, and so is one it already knew.                        *)

(* What a commit does to the component and what its caller hears.          *)
Entry(p) == Hash(prim[p].log, sub[p].next)

Known(p) ==
  /\ comp' = comp
  /\ sub[p].next <= Len(comp.records) /\ comp.records[sub[p].next] = Entry(p)

Extends(p) ==
  /\ sub[p].next = Len(comp.records) + 1
  /\ Len(comp.records) > 0 =>
       comp.records[sub[p].next - 1] = Hash(prim[p].log, sub[p].next - 1)
  /\ comp.state = Compose(prim[p].last, p)
  /\ comp' = [comp EXCEPT !.records = Append(SubSeq(comp.records, 1, sub[p].next - 1), Entry(p))]

GivesUp(p) == sub' = [sub EXCEPT ![p] = NoSubmission] /\ told' = told

Acknowledged(p) ==
  /\ sub' = [sub EXCEPT ![p] = Continue(p)]
  /\ told' = [told EXCEPT !.acked = IF Len(told.acked) > sub[p].next THEN told.acked ELSE Entry(p)]

(* The ways a commit ends.                                                 *)
LEMMA CommitEnds ==
  ASSUME NEW p \in Primaries, NEW fault \in {"ok", "before", "after", "clock"},
         Commit(p, fault)
  PROVE  /\ sub[p].pc = "commit"
         /\ UNCHANGED <<prim, setup, overlapped, thread, uploaded>>
         /\ \/ GivesUp(p) /\ (comp' = comp \/ comp' = [comp EXCEPT !.frozen = TRUE] \/ Extends(p))
            \/ Acknowledged(p) /\ (Known(p) \/ Extends(p))
<1> DEFINE n == sub[p].next
           result == CommitResult(prim[p].log, n, Compose(prim[p].last, p))
<1>1. result = "known" => n <= Len(comp.records) /\ comp.records[n] = Hash(prim[p].log, n)
  BY DEF CommitResult
<1>2. result = "next" =>
        /\ n = Len(comp.records) + 1 /\ comp.state = Compose(prim[p].last, p)
        /\ Len(comp.records) > 0 => comp.records[n - 1] = Hash(prim[p].log, n - 1)
  BY DEF CommitResult
<1> HIDE DEF result
<1>4. /\ sub[p].pc = "commit" /\ UNCHANGED <<prim, setup, overlapped, thread, uploaded>>
  BY DEF Commit
<1>5. CASE result = "known"
  <2>1. Acknowledged(p) /\ comp' = comp
    BY <1>5 DEF Commit, Acknowledged, Entry, result
  <2> QED
    BY <1>1, <1>4, <1>5, <2>1 DEF Known, Entry
<1>6. CASE result = "next"
  <2>1. \/ Acknowledged(p) /\ fault = "ok"
        \/ GivesUp(p) /\ fault # "ok"
    BY <1>6 DEF Commit, Acknowledged, GivesUp, Entry, result
  <2>2. \/ comp' = comp /\ fault \in {"before", "clock"}
        \/ Extends(p)
    BY <1>2, <1>6 DEF Commit, Extends, Entry, result
  <2> QED
    BY <1>4, <2>1, <2>2
<1>7. CASE result \notin {"known", "next"}
  <2>1. GivesUp(p)
    BY <1>7 DEF Commit, GivesUp, result
  <2>2. comp' = comp \/ comp' = [comp EXCEPT !.frozen = TRUE]
    BY <1>7 DEF Commit, result
  <2> QED
    BY <1>4, <2>1, <2>2
<1> QED
  BY <1>5, <1>6, <1>7

(* The hash of an entry contains the hash of the entry before it.          *)
LEMMA HashBefore ==
  ASSUME NEW S, NEW log \in Seq(S), NEW n \in 1..Len(log)
  PROVE  Hash(Hash(log, n), n - 1) = Hash(log, n - 1)
BY DEF Hash

(* A commit keeps the records one chain, and covered by the anchored log   *)
(* where the remembered store is the log.                                  *)
LEMMA CommitInv ==
  ASSUME DeviceInv, NEW p \in Primaries,
         NEW fault \in {"ok", "before", "after", "clock"}, Commit(p, fault)
  PROVE  DeviceInv'
<1> DEFINE n == sub[p].next
           log == prim[p].log
<1>1. /\ sub[p].pc = "commit" /\ UNCHANGED <<prim, setup, overlapped, thread, uploaded>>
      /\ \/ GivesUp(p) /\ (comp' = comp \/ comp' = [comp EXCEPT !.frozen = TRUE] \/ Extends(p))
         \/ Acknowledged(p) /\ (Known(p) \/ Extends(p))
  BY CommitEnds
<1>2. /\ prim[p] \in Records /\ log \in Seq(Bodies) /\ Len(log) \in Nat
      /\ sub[p] \in Submissions
      /\ prim[p].hooked /\ n \in 1..Len(log)
  BY <1>1 DEF DeviceInv, DeviceType, SubmitsItsLog, NoSubmission, Records
<1>3. /\ comp.state \in States /\ comp.records \in Seq(Seq(Bodies)) /\ comp.frozen \in BOOLEAN
      /\ comp.state.log \in Seq(Bodies) /\ Len(comp.records) \in Nat /\ Len(comp.state.log) \in Nat
  BY DEF DeviceInv, DeviceType, States
<1>4. Entry(p) \in Seq(Bodies) /\ Len(Entry(p)) = n
  BY <1>2, HashType DEF Entry
<1>5. Extends(p) /\ ~overlapped => comp.state.log = log
  <2>1. ~overlapped => prim[p].last = [claims |-> prim[p].claims, log |-> log]
    BY <1>2 DEF DeviceInv, SetupInOrder, StoreRemembered, StoreOf
  <2>2. ~overlapped => Compose(prim[p].last, p).log = log
    BY <2>1 DEF Compose
  <2> QED
    BY <2>2 DEF Extends
<1>6. /\ comp'.state = comp.state
      /\ comp' \in [state : States, records : Seq(Seq(Bodies)), frozen : BOOLEAN]
  <2>1. comp \in [state : States, records : Seq(Seq(Bodies)), frozen : BOOLEAN]
    BY DEF DeviceInv, DeviceType
  <2>2. CASE Extends(p)
    <3>1. Append(SubSeq(comp.records, 1, n - 1), Entry(p)) \in Seq(Seq(Bodies))
      BY <1>2, <1>3, <1>4, <2>2 DEF Extends
    <3> QED
      BY <2>1, <2>2, <3>1 DEF Extends
  <2> QED
    BY <1>1, <2>1, <2>2 DEF Known
<1>7. Extends(p) =>
        /\ n = Len(comp.records) + 1
        /\ comp'.records \in Seq(Seq(Bodies)) /\ Len(comp'.records) = n
        /\ comp'.records[n] = Entry(p)
        /\ \A m \in 1..(n - 1) : comp'.records[m] = comp.records[m] /\ m \in DOMAIN comp.records
  <2>1. SUFFICES ASSUME Extends(p)
                 PROVE  /\ n = Len(comp.records) + 1
                        /\ comp'.records \in Seq(Seq(Bodies)) /\ Len(comp'.records) = n
                        /\ comp'.records[n] = Entry(p)
                        /\ \A m \in 1..(n - 1) : /\ comp'.records[m] = comp.records[m]
                                                 /\ m \in DOMAIN comp.records
    OBVIOUS
  <2>2. comp'.records = Append(SubSeq(comp.records, 1, n - 1), Entry(p))
    BY <2>1 DEF Extends, DeviceInv, DeviceType
  <2> QED
    BY <1>2, <1>3, <1>4, <2>1, <2>2 DEF Extends
<1>8. Known(p) \/ Extends(p) \/ (told' = told /\ comp'.records = comp.records)
  BY <1>1 DEF GivesUp, DeviceInv, DeviceType
<1>9. comp'.records = comp.records \/ Extends(p)
  BY <1>1 DEF Known, DeviceInv, DeviceType
<1>10. /\ told' \in [claims : Nat, log : Seq(Bodies), journal : Nat, issued : SUBSET Challenges,
                     acked : Seq(Bodies)]
       /\ told'.claims = told.claims /\ told'.log = told.log
       /\ told'.journal = told.journal /\ told'.issued = told.issued
       /\ told'.acked = told.acked \/ (told'.acked = Entry(p) /\ (Known(p) \/ Extends(p)))
  <2>1. CASE told' = told
    BY <2>1 DEF DeviceInv, DeviceType
  <2>2. CASE Acknowledged(p) /\ (Known(p) \/ Extends(p))
    <3>1. PICK acked : /\ told' = [told EXCEPT !.acked = acked]
                       /\ acked = told.acked \/ acked = Entry(p)
      BY <2>2 DEF Acknowledged
    <3>2. acked \in Seq(Bodies)
      BY <1>4, <3>1 DEF DeviceInv, DeviceType
    <3> QED
      BY <2>2, <3>1, <3>2 DEF DeviceInv, DeviceType
  <2> QED
    BY <1>1, <2>1, <2>2 DEF GivesUp
<1>11. \A m \in DOMAIN comp.records : m \in DOMAIN comp'.records /\ comp'.records[m] = comp.records[m]
  <2>1. CASE comp'.records = comp.records
    BY <2>1
  <2>2. CASE Extends(p)
    <3>1. DOMAIN comp.records = 1..(n - 1) /\ DOMAIN comp'.records = 1..n
      BY <1>2, <1>3, <1>7, <2>2
    <3> QED
      BY <1>2, <1>7, <2>2, <3>1
  <2> QED
    BY <1>9, <2>1, <2>2
<1>12. RecordsOneChain'
  <2>1. ASSUME NEW m \in DOMAIN comp'.records
        PROVE  /\ Len(comp'.records[m]) = m
               /\ m > 1 => comp'.records[m - 1] = Hash(comp'.records[m], m - 1)
    <3>1. CASE comp'.records = comp.records
      BY <2>1, <3>1 DEF DeviceInv, RecordsSound, RecordsOneChain
    <3>2. CASE Extends(p) /\ m # n
      <4>1. m \in 1..(n - 1) /\ m \in DOMAIN comp.records
        BY <1>2, <1>7, <2>1, <3>2
      <4>2. comp'.records[m] = comp.records[m]
        BY <1>11, <4>1
      <4>3. ASSUME m > 1
            PROVE  comp'.records[m - 1] = comp.records[m - 1]
        <5>1. m - 1 \in 1..(n - 1)
          BY <1>2, <4>1, <4>3
        <5> QED
          BY <1>7, <3>2, <5>1
      <4> QED
        BY <4>1, <4>2, <4>3 DEF DeviceInv, RecordsSound, RecordsOneChain
    <3>3. CASE Extends(p) /\ m = n
      <4>1. comp'.records[m] = Entry(p) /\ Len(Entry(p)) = m
        BY <1>4, <1>7, <3>3
      <4>2. ASSUME m > 1
            PROVE  comp'.records[m - 1] = Hash(Entry(p), m - 1)
        <5>0. m - 1 \in 1..(n - 1) /\ Len(comp.records) = n - 1
          BY <1>2, <1>7, <3>3, <4>2
        <5>1. comp'.records[m - 1] = comp.records[m - 1] /\ Len(comp.records) > 0
          <6>1. comp'.records[m - 1] = comp.records[m - 1]
            BY <1>7, <3>3, <5>0
          <6>2. n - 1 > 0
            BY <1>2, <3>3, <4>2
          <6> QED
            BY <5>0, <6>1, <6>2
        <5>2. comp.records[m - 1] = Hash(log, m - 1)
          BY <3>3, <5>1 DEF Extends
        <5>3. Hash(Entry(p), m - 1) = Hash(log, m - 1)
          BY <1>2, <3>3, HashBefore DEF Entry
        <5> QED
          BY <5>1, <5>2, <5>3
      <4> QED
        BY <4>1, <4>2
    <3> QED
      BY <1>9, <3>1, <3>2, <3>3
  <2>2. ASSUME told'.acked # <<>>
        PROVE  Len(told'.acked) <= Len(comp'.records) /\ told'.acked = comp'.records[Len(told'.acked)]
    <3>1. CASE told'.acked = told.acked
      <4>1. /\ Len(told.acked) \in DOMAIN comp.records /\ told.acked = comp.records[Len(told.acked)]
        <5>1. told.acked \in Seq(Bodies) /\ Len(told.acked) \in Nat /\ told.acked # <<>>
          BY <2>2, <3>1 DEF DeviceInv, DeviceType
        <5>2. Len(told.acked) > 0
          BY <5>1
        <5>3. Len(told.acked) <= Len(comp.records) /\ told.acked = comp.records[Len(told.acked)]
          BY <5>1 DEF DeviceInv, RecordsSound, RecordsOneChain
        <5> QED
          BY <1>3, <5>1, <5>2, <5>3
      <4>2. /\ Len(told.acked) \in DOMAIN comp'.records
            /\ comp'.records[Len(told.acked)] = comp.records[Len(told.acked)]
        BY <1>11, <4>1
      <4>3. comp'.records \in Seq(Seq(Bodies))
        BY <1>6
      <4> QED
        BY <3>1, <4>1, <4>2, <4>3
    <3>2. CASE told'.acked = Entry(p) /\ Known(p)
      BY <1>4, <3>2 DEF Known
    <3>3. CASE told'.acked = Entry(p) /\ Extends(p)
      BY <1>2, <1>4, <1>7, <3>3
    <3> QED
      BY <1>10, <3>1, <3>2, <3>3
  <2> QED
    BY <2>1, <2>2 DEF RecordsOneChain
<1>13. ~overlapped' => AnchorCoversRecords'
  <2>1. SUFFICES ASSUME ~overlapped, NEW m \in DOMAIN comp'.records
                 PROVE  m <= Len(comp'.state.log) /\ comp'.records[m] = Hash(comp'.state.log, m)
    BY <1>1 DEF AnchorCoversRecords
  <2>2. CASE m \in DOMAIN comp.records
    <3>1. comp'.records[m] = comp.records[m]
      BY <1>11, <2>2
    <3> QED
      BY <1>6, <2>1, <2>2, <3>1 DEF DeviceInv, RecordsSound, AnchorCoversRecords
  <2>3. CASE m \notin DOMAIN comp.records
    <3>1. Extends(p)
      BY <1>9, <2>1, <2>3
    <3>2. m = n
      BY <1>2, <1>7, <2>1, <2>3, <3>1
    <3> QED
      BY <1>2, <1>5, <1>6, <1>7, <2>1, <3>1, <3>2 DEF Entry
  <2> QED
    BY <2>2, <2>3
<1>14. /\ sub' \in [Primaries -> {NoSubmission} \cup Submissions]
       /\ SubmitsItsLog'
  <2>1. PICK next : sub' = [sub EXCEPT ![p] = next] /\ next \in {NoSubmission, Continue(p)}
    BY <1>1 DEF GivesUp, Acknowledged
  <2>2. Continue(p) # NoSubmission =>
          /\ Continue(p) \in Submissions /\ Continue(p).next = n + 1 /\ Continue(p).pc = "scan"
    BY <1>2 DEF Continue, Submissions
  <2>3. /\ sub' \in [Primaries -> {NoSubmission} \cup Submissions] /\ sub'[p] = next
        /\ \A q \in Primaries : q # p => sub'[q] = sub[q]
    BY <2>1, <2>2 DEF DeviceInv, DeviceType
  <2>4. NoSubmission.pc = "idle"
    BY DEF NoSubmission
  <2> QED
    BY <1>1, <1>2, <2>1, <2>2, <2>3, <2>4 DEF DeviceInv, SubmitsItsLog
<1>15. DeviceType'
  BY <1>1, <1>6, <1>10, <1>14 DEF DeviceInv, DeviceType
<1>16. SetupInOrder' /\ StoreRemembered'
  BY <1>1 DEF DeviceInv, SetupInOrder, StoreRemembered, StoreOf, Binding
<1>17. ToldIsAnchored'
  BY <1>6, <1>10 DEF DeviceInv, ToldIsAnchored
<1> QED
  BY <1>12, <1>13, <1>14, <1>15, <1>16, <1>17 DEF DeviceInv, RecordsSound

-----------------------------------------------------------------------------
(* Copies and binding, one section under a lock at a time.                 *)

(* A step that proceeds with q keeps the invariant where what q then holds *)
(* and what comes next are in order; a submission of q loses neither its   *)
(* log nor its hook.                                                       *)
LEMMA ProceedInv ==
  ASSUME DeviceInv, NEW q \in Primaries, NEW records \in Records,
         NEW next \in {NoSetup} \cup Setups, Proceed(q, records, next),
         /\ records.hooked => records.attached
         /\ records.attached => records.live /\ (records.hooked \/ next.pc = "hook")
         /\ next.pc \in {"attach", "hook"} => records.live
         /\ next.pc \in {"issuance", "store"} => ~records.live
         /\ next.pc = "hook" => records.attached,
         ~overlapped =>
           /\ records.attached => records.last = [claims |-> records.claims, log |-> records.log]
           /\ next.pc = "attach" => next.read = [claims |-> records.claims, log |-> records.log],
         sub[q].pc # "idle" => records.hooked /\ records.log = prim[q].log
  PROVE  DeviceInv'
<1>1. /\ UNCHANGED <<comp, overlapped, thread, sub, uploaded, told, faults>>
      /\ prim'[q] = records /\ setup'[q] = next
      /\ \A r \in Primaries : r # q => prim'[r] = prim[r] /\ setup'[r] = setup[r]
      /\ prim' \in [Primaries -> Records] /\ setup' \in [Primaries -> {NoSetup} \cup Setups]
  BY DEF Proceed, DeviceInv, DeviceType
<1>2. DeviceType'
  BY <1>1 DEF DeviceInv, DeviceType
<1>3. SetupInOrder'
  BY <1>1 DEF DeviceInv, SetupInOrder, Binding
<1>4. StoreRemembered'
  BY <1>1 DEF DeviceInv, StoreRemembered, StoreOf
<1>5. SubmitsItsLog'
  BY <1>1 DEF DeviceInv, SubmitsItsLog
<1>6. ToldIsAnchored' /\ RecordsSound'
  BY <1>1 DEF DeviceInv, ToldIsAnchored, RecordsSound, RecordsOneChain, AnchorCoversRecords
<1> QED
  BY <1>2, <1>3, <1>4, <1>5, <1>6 DEF DeviceInv

(* A copy under way: its primary does not live yet, so nothing of it is    *)
(* bound or submitted (clone_primary).                                     *)
LEMMA CopyInv ==
  ASSUME DeviceInv, NEW q \in Primaries,
         (\E p \in Primaries : CopyJournal(p, q)) \/ CopyIssuance(q) \/ CopyStore(q)
  PROVE  DeviceInv'
<1>1. /\ prim[q] \in Records /\ ~prim[q].live
      /\ ~prim[q].attached /\ ~prim[q].hooked /\ sub[q].pc = "idle"
  <2>1. ~prim[q].live
    BY DEF CopyJournal, CopyIssuance, CopyStore, DeviceInv, SetupInOrder
  <2> QED
    BY <2>1 DEF DeviceInv, DeviceType, SetupInOrder, SubmitsItsLog
<1>2. ASSUME NEW p \in Primaries, CopyJournal(p, q)
      PROVE  DeviceInv'
  <2> DEFINE records == [prim[q] EXCEPT !.journal = prim[p].journal]
             next == [pc |-> "issuance", from |-> p]
  <2>1. records \in Records /\ ~records.live /\ ~records.attached /\ ~records.hooked
    BY <1>1 DEF Records, DeviceInv, DeviceType
  <2>2. next \in Setups /\ next.pc = "issuance"
    BY DEF Setups
  <2>3. Proceed(q, records, next)
    BY <1>2 DEF CopyJournal
  <2> HIDE DEF records, next
  <2> QED
    BY <1>1, <2>1, <2>2, <2>3, ProceedInv
<1>3. setup[q].pc \in {"issuance", "store"} => setup[q] \in [pc : {"issuance", "store"}, from : Primaries]
  BY DEF DeviceInv, DeviceType, NoSetup, Setups
<1>4. CASE CopyIssuance(q)
  <2> DEFINE records == [prim[q] EXCEPT !.issued = prim[setup[q].from].issued]
             next == [setup[q] EXCEPT !.pc = "store"]
  <2>1. setup[q] \in [pc : {"issuance", "store"}, from : Primaries]
    BY <1>3, <1>4 DEF CopyIssuance
  <2>2. records \in Records /\ ~records.live /\ ~records.attached /\ ~records.hooked
    BY <1>1, <2>1 DEF Records, DeviceInv, DeviceType
  <2>3. next \in Setups /\ next.pc = "store"
    BY <2>1 DEF Setups
  <2>4. Proceed(q, records, next)
    BY <1>4 DEF CopyIssuance
  <2> HIDE DEF records, next
  <2> QED
    BY <1>1, <2>2, <2>3, <2>4, ProceedInv
<1>5. CASE CopyStore(q)
  <2> DEFINE store == StoreOf(setup[q].from)
             records == [prim[q] EXCEPT !.claims = store.claims, !.log = store.log, !.live = TRUE]
  <2>1. setup[q].from \in Primaries
    BY <1>3, <1>5 DEF CopyStore
  <2>2. store.claims \in Nat /\ store.log \in Seq(Bodies)
    BY <2>1 DEF StoreOf, DeviceInv, DeviceType, Records
  <2>3. Proceed(q, records, NoSetup)
    BY <1>5 DEF CopyStore
  <2> HIDE DEF store
  <2>4. records \in Records /\ records.live /\ ~records.attached /\ ~records.hooked
    BY <1>1, <2>2 DEF Records
  <2> HIDE DEF records
  <2> QED
    BY <1>1, <2>3, <2>4, ProceedInv DEF NoSetup
<1> QED
  BY <1>2, <1>4, <1>5

(* A bind under way: what it read of the store is what the store holds as  *)
(* long as the store does not change before the hook is there (bind).      *)
LEMMA BindInv ==
  ASSUME DeviceInv, NEW p \in Primaries, BindRead(p) \/ BindAttach(p) \/ BindHook(p)
  PROVE  DeviceInv'
<1>1. /\ prim[p] \in Records /\ prim[p].live /\ StoreOf(p) \in Stores
      /\ prim[p].hooked => prim[p].attached
      /\ sub[p].pc # "idle" => prim[p].hooked
      /\ ~overlapped /\ prim[p].attached => prim[p].last = StoreOf(p)
  <2>1. prim[p].live
    BY DEF BindRead, BindAttach, BindHook, DeviceInv, SetupInOrder, Binding
  <2>2. prim[p] \in Records
    BY DEF DeviceInv, DeviceType
  <2>3. StoreOf(p) \in Stores
    BY <2>2 DEF StoreOf, Stores, Records
  <2> QED
    BY <2>1, <2>2, <2>3 DEF DeviceInv, SetupInOrder, StoreRemembered, SubmitsItsLog
<1>2. StoreOf(p) = [claims |-> prim[p].claims, log |-> prim[p].log]
  BY DEF StoreOf
<1>3. CASE BindRead(p)
  <2> DEFINE next == [pc |-> "attach", read |-> StoreOf(p)]
  <2>1. next \in Setups /\ next.pc = "attach" /\ next.read = StoreOf(p)
    BY <1>1 DEF Setups
  <2>2. Proceed(p, prim[p], next)
    BY <1>3 DEF BindRead
  <2>3. prim[p].attached => prim[p].hooked
    BY <1>3 DEF BindRead, DeviceInv, SetupInOrder
  <2> HIDE DEF next
  <2> QED
    BY <1>1, <1>2, <2>1, <2>2, <2>3, ProceedInv
<1>4. CASE BindAttach(p)
  <2> DEFINE records == [prim[p] EXCEPT !.attached = TRUE, !.last = setup[p].read]
             next == [pc |-> "hook"]
  <2>1. /\ setup[p].read \in Stores
        /\ ~overlapped => setup[p].read = StoreOf(p)
    <3>1. setup[p].pc = "attach"
      BY <1>4 DEF BindAttach
    <3>2. setup[p] \in {NoSetup} \cup Setups
      BY DEF DeviceInv, DeviceType
    <3>3. setup[p] \in [pc : {"attach"}, read : Stores]
      BY <3>1, <3>2 DEF NoSetup, Setups
    <3>4. ~overlapped => setup[p].read = StoreOf(p)
      BY <3>1 DEF DeviceInv, StoreRemembered
    <3> QED
      BY <3>3, <3>4
  <2>2. /\ records \in Records /\ records.live /\ records.attached
        /\ records.hooked = prim[p].hooked /\ records.last = setup[p].read
        /\ records.claims = prim[p].claims /\ records.log = prim[p].log
    BY <1>1, <2>1 DEF Records
  <2>3. next \in Setups /\ next.pc = "hook"
    BY DEF Setups
  <2>4. Proceed(p, records, next)
    BY <1>4 DEF BindAttach
  <2> HIDE DEF records, next
  <2> QED
    BY <1>1, <1>2, <2>1, <2>2, <2>3, <2>4, ProceedInv
<1>5. CASE BindHook(p)
  <2> DEFINE records == [prim[p] EXCEPT !.hooked = TRUE]
  <2>1. prim[p].attached
    BY <1>5 DEF BindHook, DeviceInv, SetupInOrder
  <2>2. /\ records \in Records /\ records.live /\ records.attached /\ records.hooked
        /\ records.last = prim[p].last
        /\ records.claims = prim[p].claims /\ records.log = prim[p].log
    BY <1>1, <2>1 DEF Records
  <2>3. Proceed(p, records, NoSetup)
    BY <1>5 DEF BindHook
  <2>4. NoSetup \in {NoSetup} \cup Setups /\ NoSetup.pc = "idle"
    BY DEF NoSetup
  <2>5. ~overlapped => records.last = [claims |-> records.claims, log |-> records.log]
    BY <1>1, <1>2, <2>1, <2>2
  <2>6. sub[p].pc # "idle" => records.hooked /\ records.log = prim[p].log
    BY <2>2
  <2> HIDE DEF records
  <2> QED
    BY <2>2, <2>3, <2>4, <2>5, <2>6, ProceedInv
<1> QED
  BY <1>3, <1>4, <1>5

-----------------------------------------------------------------------------
(* Every step of a primary keeps the invariant.                            *)
LEMMA PrimaryStepInv ==
  ASSUME DeviceInv, NEW p \in Primaries,
         \/ Claim(p) \/ Upload(p) \/ SetupStep(p) \/ Submission(p)
         \/ \E body \in Bodies : AppendReceipt(p, body)
  PROVE  DeviceInv'
<1>1. CASE Upload(p)
  <2>1. UNCHANGED <<prim, comp, setup, overlapped, thread, sub, told, faults>>
    BY <1>1 DEF Upload
  <2> QED
    BY <2>1, SameRest DEF DeviceInv, DeviceType, SubmitsItsLog
<1>2. CASE Submission(p)
  BY <1>2, BeginSubmissionInv, ScanInv, CommitInv DEF Submission
<1>3. CASE SetupStep(p)
  BY <1>3, CopyInv, BindInv DEF SetupStep
<1> QED
  BY <1>1, <1>2, <1>3, ClaimInv, AppendReceiptInv

(* Every step of a thread keeps the invariant.                             *)
LEMMA ThreadStepInv ==
  ASSUME DeviceInv, NEW t \in Threads,
         \/ ChangeOther(t)
         \/ \E p \in Primaries :
              \/ \E c \in Challenges : BeginChange(t, p, "issue", c, 0)
              \/ \E g \in 0..prim[p].journal :
                   prim[p].journal < MaxGeneration /\ BeginChange(t, p, "journal", 0, g)
  PROVE  DeviceInv'
<1>1. ASSUME NEW p \in Primaries, NEW c \in Challenges, BeginChange(t, p, "issue", c, 0)
      PROVE  DeviceInv'
  BY <1>1, BeginChangeInv
<1>2. ASSUME NEW p \in Primaries, NEW g \in 0..prim[p].journal, BeginChange(t, p, "journal", 0, g)
      PROVE  DeviceInv'
  <2>1. g \in Nat
    BY <1>2 DEF DeviceInv, DeviceType, Records
  <2> QED
    BY <1>2, <2>1, BeginChangeInv
<1> QED
  BY <1>1, <1>2, ChangeOtherInv

(* Every step of the device keeps the invariant.                           *)
LEMMA NextInv == DeviceInv /\ [Next]_vars => DeviceInv'
<1> SUFFICES ASSUME DeviceInv, [Next]_vars
             PROVE  DeviceInv'
  OBVIOUS
<1>1. CASE UNCHANGED vars
  BY <1>1, SameRest DEF vars, DeviceInv, DeviceType, SubmitsItsLog
<1> QED
  BY <1>1, PrimaryStepInv, ThreadStepInv DEF Next

(* The invariant the promises of the device rest on.                       *)
THEOREM DeviceInvariant == Spec => []DeviceInv
BY InitInv, NextInv, PTL DEF Spec

(* Every record of the component extends the one before it, and what a     *)
(* caller was told is acknowledged is a record; and unless a store changed *)
(* while it was being bound, every record is in the log of the state the   *)
(* component anchored (commit_at, bind).                                   *)
THEOREM RecordsHold == Spec => []RecordsSound
<1>1. DeviceInv => RecordsSound
  BY DEF DeviceInv
<1> QED
  BY <1>1, DeviceInvariant, PTL

-----------------------------------------------------------------------------
(* Startup compares the complete state with the anchored one, and that one *)
(* is what callers were told is anchored.                                  *)
LEMMA ReadyFromInv == DeviceInv => ReadyHasAll
<1> SUFFICES ASSUME DeviceInv, NEW p \in Primaries, prim[p].live, Startup(p) = "ready"
             PROVE  /\ prim[p].claims = told.claims /\ prim[p].log = told.log
                    /\ prim[p].journal = told.journal /\ prim[p].issued = told.issued
                    /\ ~overlapped =>
                         /\ IsPrefix(told.acked, prim[p].log)
                         /\ \A n \in DOMAIN comp.records : comp.records[n] = Hash(prim[p].log, n)
  BY DEF ReadyHasAll
<1>1. comp.state = Digest(p)
  BY DEF Startup
<1>2. /\ comp.state.claims = prim[p].claims /\ comp.state.log = prim[p].log
      /\ comp.state.journal = prim[p].journal /\ comp.state.issued = prim[p].issued
  BY <1>1, AnchoredPrimary
<1>3. ASSUME ~overlapped, told.acked # <<>>
      PROVE  IsPrefix(told.acked, prim[p].log)
  <2>1. /\ told.acked \in Seq(Bodies) /\ prim[p].log \in Seq(Bodies)
        /\ Len(comp.records) \in Nat /\ DOMAIN comp.records = 1..Len(comp.records)
    BY DEF DeviceInv, DeviceType, Records
  <2>2. /\ Len(told.acked) <= Len(comp.records)
        /\ told.acked = comp.records[Len(told.acked)]
    BY <1>3 DEF DeviceInv, RecordsSound, RecordsOneChain
  <2>3. Len(told.acked) \in DOMAIN comp.records
    BY <1>3, <2>1, <2>2
  <2>4. /\ Len(told.acked) <= Len(prim[p].log)
        /\ told.acked = Hash(prim[p].log, Len(told.acked))
    BY <1>2, <1>3, <2>2, <2>3 DEF DeviceInv, RecordsSound, AnchorCoversRecords
  <2>5. SubSeq(told.acked, 1, Len(told.acked)) = told.acked
    BY <2>1
  <2> QED
    BY <2>1, <2>4, <2>5 DEF IsPrefix, Hash
<1>4. IsPrefix(<<>>, prim[p].log)
  <2>1. prim[p].log \in Seq(Bodies)
    BY DEF DeviceInv, DeviceType, Records
  <2> QED
    BY <2>1 DEF IsPrefix
<1> QED
  BY <1>2, <1>3, <1>4 DEF DeviceInv, ToldIsAnchored, RecordsSound, AnchorCoversRecords

(* A primary that startup finds ready has lost nothing its callers were    *)
(* ever told is anchored: no claim, log entry, journal generation or       *)
(* issued challenge; and, unless a store changed while it was being bound, *)
(* nothing that was acknowledged (startup, complete_state_digest, bind).   *)
THEOREM ReadyHolds == Spec => []ReadyHasAll
BY DeviceInvariant, ReadyFromInv, PTL

-----------------------------------------------------------------------------
(* The approval ledger, for any sets, registries, bundles, scopes and      *)
(* claims.                                                                 *)

(* An open set: its request and what its slots hold.                       *)
OpenSets == [set : Sets, approvals : [Slots -> released \cup {Empty}], executed : BOOLEAN]

(* One decision was released for a claim, and an allow has a root that the *)
(* registry trusts without doubt.                                          *)
ReleasedSound ==
  /\ \A d, e \in released : d.claim = e.claim => d = e
  /\ \A d \in released : /\ d.deadline \in Nat
                         /\ d.decision = "allow" => Resolve(d.bundle.root) = "trusted"

(* An identifier is opened once, for two roots, and what fills a slot was  *)
(* released, allows this action for the root of the slot and is recorded.  *)
SlotsSound ==
  /\ sets \subseteq OpenSets
  /\ \A s, t \in sets : s.set.id = t.set.id => s = t
  /\ \A s \in sets : s.set.roots[1] # s.set.roots[2]
  /\ \A s \in sets, k \in Slots : s.approvals[k] # Empty =>
       /\ s.approvals[k] \in released
       /\ s.approvals[k].decision = "allow"
       /\ ActionMatches(s, s.approvals[k])
       /\ RootMatches(s, k, s.approvals[k])
       /\ [claim |-> s.approvals[k].claim, set |-> s.set.id] \in recorded

(* No claim fills two slots.                                               *)
SlotsApart ==
  \A s, t \in sets, j, k \in Slots :
    (s.approvals[j] # Empty /\ s.approvals[j] = t.approvals[k]) => s = t /\ j = k

(* What was executed is the complete content of a set that is still open,  *)
(* marked executed, and it was allowed at the moment recorded.             *)
Executed(e, open) ==
  \E t \in open : t = [set |-> e.state.set, approvals |-> e.state.approvals, executed |-> TRUE]

ExecutionsSound ==
  /\ executions \in Seq([state : [set : Sets, approvals : [Slots -> released \cup {Empty}], executed : {FALSE}],
                         at : Nat])
  /\ \A n \in DOMAIN executions :
       /\ Executed(executions[n], sets)
       /\ Complete(executions[n].state)
       /\ \A k \in Slots : executions[n].at < executions[n].state.approvals[k].deadline
  /\ \A m, n \in DOMAIN executions :
       executions[m].state.set.id = executions[n].state.set.id => m = n

LedgerInv ==
  /\ now \in Nat /\ registry \in Registries
  /\ ReleasedSound
  /\ SlotsSound
  /\ SlotsApart
  /\ ExecutionsSound

LEMMA ApprovalInitInv == ApprovalInit => LedgerInv
BY DEF ApprovalInit, LedgerInv, ReleasedSound, SlotsSound, SlotsApart, ExecutionsSound

(* Nothing the application reads of the ledger changed.                    *)
LEMMA LedgerSame ==
  ASSUME LedgerInv, UNCHANGED <<registry, released, sets, recorded, executions>>, now' \in Nat
  PROVE  LedgerInv'
<1>1. \A r : Resolve(r)' = Resolve(r)
  BY DEF Resolve, Candidates
<1>2. ReleasedSound'
  BY <1>1 DEF LedgerInv, ReleasedSound
<1>3. SlotsSound' /\ SlotsApart'
  BY DEF LedgerInv, SlotsSound, SlotsApart, OpenSets, ActionMatches, RootMatches
<1>4. ExecutionsSound'
  BY DEF LedgerInv, ExecutionsSound, Executed, Complete
<1> QED
  BY <1>2, <1>3, <1>4 DEF LedgerInv

(* A released decision is new for its claim and was resolved when made.    *)
LEMMA ReleaseInv ==
  ASSUME LedgerInv, NEW c \in Claims, NEW b \in Bundles, NEW s \in Scopes, NEW t \in 1..MaxTime,
         ReleaseDecision(c, b, s, t)
  PROVE  LedgerInv'
<1> DEFINE d == [claim |-> c, bundle |-> b, scope |-> s, deadline |-> t,
                 decision |-> IF Resolve(b.root) = "trusted" THEN "allow" ELSE "deny"]
<1>1. /\ released' = released \cup {d}
      /\ UNCHANGED <<registry, sets, recorded, executions, now>>
      /\ \A e \in released : e.claim # c
  BY DEF ReleaseDecision
<1>2. \A r : Resolve(r)' = Resolve(r)
  BY <1>1 DEF Resolve, Candidates
<1>3. ReleasedSound'
  <2>1. d.claim = c /\ d.deadline \in Nat
    BY TimeAssumption
  <2>2. d.decision = "allow" => Resolve(d.bundle.root) = "trusted"
    OBVIOUS
  <2> HIDE DEF d
  <2> QED
    BY <1>1, <1>2, <2>1, <2>2 DEF LedgerInv, ReleasedSound
<1> HIDE DEF d
<1>4. OpenSets \subseteq OpenSets'
  BY <1>1 DEF OpenSets
<1>5. SlotsSound'
  BY <1>1, <1>4 DEF LedgerInv, SlotsSound, ActionMatches, RootMatches
<1>6. SlotsApart'
  BY <1>1 DEF LedgerInv, SlotsApart
<1>7. ExecutionsSound'
  <2> DEFINE E(R) == [state : [set : Sets, approvals : [Slots -> R \cup {Empty}], executed : {FALSE}],
                      at : Nat]
  <2>1. E(released) \subseteq E(released')
    BY <1>1
  <2>2. executions \in Seq(E(released'))
    <3> HIDE DEF E
    <3>1. executions \in Seq(E(released))
      BY DEF LedgerInv, ExecutionsSound, E
    <3> QED
      BY <2>1, <3>1
  <2> QED
    BY <1>1, <2>2 DEF LedgerInv, ExecutionsSound, Executed, Complete
<1> QED
  BY <1>1, <1>3, <1>5, <1>6, <1>7 DEF LedgerInv

LEMMA OpenInv ==
  ASSUME LedgerInv, NEW s \in Sets, Open(s)
  PROVE  LedgerInv'
<1> DEFINE new == [set |-> s, approvals |-> [k \in Slots |-> Empty], executed |-> FALSE]
<1>1. /\ s.roots[1] # s.roots[2]
      /\ \A t \in sets : t.set.id # s.id
      /\ sets' = sets \cup {new}
      /\ UNCHANGED <<registry, released, recorded, executions, now>>
  BY DEF Open, OpenResult, Opened
<1>2. \A r : Resolve(r)' = Resolve(r)
  BY <1>1 DEF Resolve, Candidates
<1>3. ReleasedSound'
  BY <1>1, <1>2 DEF LedgerInv, ReleasedSound
<1>4. new \in OpenSets /\ new.set = s /\ \A k \in Slots : new.approvals[k] = Empty
  BY DEF OpenSets
<1> HIDE DEF new
<1>5. SlotsSound'
  BY <1>1, <1>4 DEF LedgerInv, SlotsSound, ActionMatches, RootMatches, OpenSets
<1>6. SlotsApart'
  BY <1>1, <1>4 DEF LedgerInv, SlotsApart
<1>7. ExecutionsSound'
  BY <1>1 DEF LedgerInv, ExecutionsSound, Executed, Complete
<1> QED
  BY <1>1, <1>3, <1>5, <1>6, <1>7 DEF LedgerInv

(* A slot is filled once, with a decision no other slot holds: of another  *)
(* set it would be recorded, of the same set it would have another root.   *)
LEMMA RecordInv ==
  ASSUME LedgerInv, NEW state \in sets, NEW k \in Slots, NEW d \in released, NEW b \in Bundles,
         RecordApproval(state, k, d, b)
  PROVE  LedgerInv'
<1> DEFINE new == [state EXCEPT !.approvals[k] = d]
           index == [claim |-> d.claim, set |-> state.set.id]
<1>1. /\ sets' = (sets \ {state}) \cup {new}
      /\ recorded' = recorded \cup {index}
      /\ UNCHANGED <<registry, released, executions, now>>
  BY DEF RecordApproval
<1>2. /\ d.decision = "allow"
      /\ \A r \in recorded : r.claim = d.claim => r.set = state.set.id
      /\ ActionMatches(state, d) /\ RootMatches(state, k, d)
      /\ state.approvals[k] = Empty
  BY DEF RecordApproval, RecordResult
<1>3. state \in OpenSets
  BY DEF LedgerInv, SlotsSound
<1>4. /\ new \in OpenSets
      /\ new.set = state.set /\ new.executed = state.executed
      /\ new.approvals = [state.approvals EXCEPT ![k] = d]
      /\ new.approvals[k] = d
      /\ \A j \in Slots \ {k} : new.approvals[j] = state.approvals[j]
  BY <1>3 DEF OpenSets
<1> HIDE DEF new
<1>5. \A r : Resolve(r)' = Resolve(r)
  BY <1>1 DEF Resolve, Candidates
<1>6. ReleasedSound'
  BY <1>1, <1>5 DEF LedgerInv, ReleasedSound
<1>7. OpenSets' = OpenSets
  BY <1>1 DEF OpenSets
<1>8. SlotsSound'
  <2>1. sets' \subseteq OpenSets'
    BY <1>1, <1>4, <1>7 DEF LedgerInv, SlotsSound
  <2>2. \A s, t \in sets' : s.set.id = t.set.id => s = t
    BY <1>1, <1>4 DEF LedgerInv, SlotsSound
  <2>3. \A s \in sets' : s.set.roots[1] # s.set.roots[2]
    BY <1>1, <1>4 DEF LedgerInv, SlotsSound
  <2>4. ASSUME NEW s \in sets', NEW j \in Slots, s.approvals[j] # Empty
        PROVE  /\ s.approvals[j] \in released'
               /\ s.approvals[j].decision = "allow"
               /\ ActionMatches(s, s.approvals[j])
               /\ RootMatches(s, j, s.approvals[j])
               /\ [claim |-> s.approvals[j].claim, set |-> s.set.id] \in recorded'
    <3>1. CASE s \in sets
      BY <1>1, <2>4, <3>1 DEF LedgerInv, SlotsSound
    <3>2. CASE s = new /\ j = k
      BY <1>1, <1>2, <1>4, <3>2 DEF ActionMatches, RootMatches
    <3>3. CASE s = new /\ j # k
      <4>1. s.approvals[j] = state.approvals[j] /\ s.set = state.set
        BY <1>4, <3>3
      <4>2. /\ state.approvals[j] \in released
            /\ state.approvals[j].decision = "allow"
            /\ ActionMatches(state, state.approvals[j])
            /\ RootMatches(state, j, state.approvals[j])
            /\ [claim |-> state.approvals[j].claim, set |-> state.set.id] \in recorded
        BY <2>4, <4>1 DEF LedgerInv, SlotsSound
      <4> QED
        BY <1>1, <4>1, <4>2 DEF ActionMatches, RootMatches
    <3> QED
      BY <1>1, <3>1, <3>2, <3>3
  <2>5. \A s, j, e : ActionMatches(s, e)' = ActionMatches(s, e) /\ RootMatches(s, j, e)' = RootMatches(s, j, e)
    BY DEF ActionMatches, RootMatches
  <2> QED
    BY <2>1, <2>2, <2>3, <2>4, <2>5 DEF SlotsSound
<1>9. ASSUME NEW t \in sets, NEW j \in Slots, t.approvals[j] = d, d # Empty
      PROVE  t = state /\ j = k /\ FALSE
  <2>1. [claim |-> d.claim, set |-> t.set.id] \in recorded
    BY <1>9 DEF LedgerInv, SlotsSound
  <2>2. t = state
    BY <1>2, <2>1 DEF LedgerInv, SlotsSound
  <2>3. RootMatches(state, j, d)
    BY <1>9, <2>2 DEF LedgerInv, SlotsSound
  <2>4. j = k
    <3>1. state.set.roots[1] # state.set.roots[2]
      BY DEF LedgerInv, SlotsSound
    <3>2. state.set.roots[j] = state.set.roots[k]
      BY <1>2, <2>3 DEF RootMatches
    <3> QED
      BY <3>1, <3>2 DEF Slots
  <2> QED
    BY <1>2, <1>9, <2>2, <2>4
<1>10. SlotsApart'
  <2>1. SUFFICES ASSUME NEW s \in sets', NEW t \in sets', NEW i \in Slots, NEW j \in Slots,
                        s.approvals[i] # Empty, s.approvals[i] = t.approvals[j]
                 PROVE  s = t /\ i = j
    BY DEF SlotsApart
  <2>2. CASE s \in sets /\ t \in sets
    BY <2>1, <2>2 DEF LedgerInv, SlotsApart
  <2>3. CASE s = new /\ t = new
    <3>1. CASE i # k /\ j # k
      <4>1. state.approvals[i] # Empty /\ state.approvals[i] = state.approvals[j]
        BY <1>4, <2>1, <2>3, <3>1
      <4> QED
        BY <2>3, <4>1 DEF LedgerInv, SlotsApart
    <3>2. CASE (i = k /\ j # k) \/ (i # k /\ j = k)
      BY <1>4, <1>9, <2>1, <2>3, <3>2
    <3> QED
      BY <2>3, <3>1, <3>2
  <2>4. CASE s = new /\ t \in sets /\ t # state
    <3>1. i # k
      BY <1>4, <1>9, <2>1, <2>4
    <3>2. state.approvals[i] # Empty /\ state.approvals[i] = t.approvals[j]
      BY <1>4, <2>1, <2>4, <3>1
    <3> QED
      BY <2>4, <3>2 DEF LedgerInv, SlotsApart
  <2>5. CASE t = new /\ s \in sets /\ s # state
    <3>1. j # k
      BY <1>4, <1>9, <2>1, <2>5
    <3>2. s.approvals[i] # Empty /\ s.approvals[i] = state.approvals[j]
      BY <1>4, <2>1, <2>5, <3>1
    <3> QED
      BY <2>5, <3>2 DEF LedgerInv, SlotsApart
  <2> QED
    BY <1>1, <2>2, <2>3, <2>4, <2>5
<1>11. \A n \in DOMAIN executions : Executed(executions[n], sets')
  <2>1. SUFFICES ASSUME NEW n \in DOMAIN executions
                 PROVE  Executed(executions[n], sets')
    OBVIOUS
  <2>2. PICK t \in sets : t = [set |-> executions[n].state.set,
                               approvals |-> executions[n].state.approvals, executed |-> TRUE]
    BY DEF LedgerInv, ExecutionsSound, Executed
  <2>3. t.approvals = executions[n].state.approvals
    BY <2>2
  <2>4. t # state
    BY <1>2, <2>3 DEF LedgerInv, ExecutionsSound, Complete
  <2>5. t \in sets'
    BY <1>1, <2>4
  <2> QED
    BY <1>1, <2>2, <2>5 DEF Executed
<1>12. ExecutionsSound'
  BY <1>1, <1>11 DEF LedgerInv, ExecutionsSound, Complete
<1> QED
  BY <1>1, <1>6, <1>8, <1>10, <1>12 DEF LedgerInv

(* What is executed is marked executed in the same step, and its slots are *)
(* full, so nothing changes it afterwards.                                 *)
LEMMA ExecuteInv ==
  ASSUME LedgerInv, NEW state \in sets, NEW t2 \in now..MaxTime, Execute(state, t2)
  PROVE  LedgerInv'
<1> DEFINE new == [state EXCEPT !.executed = TRUE]
           entry == [state |-> state, at |-> now]
<1>1. /\ sets' = (sets \ {state}) \cup {new}
      /\ executions' = Append(executions, entry)
      /\ now' = t2
      /\ UNCHANGED <<registry, released, recorded>>
  BY DEF Execute
<1>2. /\ state.executed = FALSE
      /\ Complete(state)
      /\ Allowed(state.approvals[1], now) /\ Allowed(state.approvals[2], t2)
  <2>1. state.executed \in BOOLEAN
    BY DEF LedgerInv, SlotsSound, OpenSets
  <2> QED
    BY <2>1 DEF Execute, ExecuteResult
<1>3. now \in Nat /\ now' \in Nat /\ now <= t2
  BY <1>1, TimeAssumption DEF LedgerInv
<1>4. state \in OpenSets
  BY DEF LedgerInv, SlotsSound
<1>5. /\ new \in OpenSets
      /\ new.set = state.set /\ new.approvals = state.approvals /\ new.executed = TRUE
      /\ new = [set |-> state.set, approvals |-> state.approvals, executed |-> TRUE]
  <2>1. /\ new \in OpenSets
        /\ new.set = state.set /\ new.approvals = state.approvals /\ new.executed = TRUE
    BY <1>4 DEF OpenSets
  <2> HIDE DEF new
  <2>2. new = [set |-> new.set, approvals |-> new.approvals, executed |-> new.executed]
    BY <2>1 DEF OpenSets
  <2> QED
    BY <2>1, <2>2
<1> HIDE DEF new
<1>6. \A r : Resolve(r)' = Resolve(r)
  BY <1>1 DEF Resolve, Candidates
<1>7. ReleasedSound'
  BY <1>1, <1>6 DEF LedgerInv, ReleasedSound
<1>8. OpenSets' = OpenSets
  BY <1>1 DEF OpenSets
<1>9. SlotsSound'
  <2>1. sets' \subseteq OpenSets'
    BY <1>1, <1>5, <1>8 DEF LedgerInv, SlotsSound
  <2>2. \A s, t \in sets' : s.set.id = t.set.id => s = t
    <3>1. \A s, t \in sets : s.set.id = t.set.id => s = t
      BY DEF LedgerInv, SlotsSound
    <3>2. new.set.id = state.set.id
      BY <1>5
    <3> QED
      BY <1>1, <3>1, <3>2
  <2>3. \A s \in sets' : s.set.roots[1] # s.set.roots[2]
    BY <1>1, <1>5 DEF LedgerInv, SlotsSound
  <2>4. \A s \in sets' : \E t \in sets : s.set = t.set /\ s.approvals = t.approvals
    BY <1>1, <1>5
  <2>5. \A s, j, e : ActionMatches(s, e)' = ActionMatches(s, e) /\ RootMatches(s, j, e)' = RootMatches(s, j, e)
    BY DEF ActionMatches, RootMatches
  <2>6. ASSUME NEW s \in sets', NEW j \in Slots, s.approvals[j] # Empty
        PROVE  /\ s.approvals[j] \in released'
               /\ s.approvals[j].decision = "allow"
               /\ ActionMatches(s, s.approvals[j])
               /\ RootMatches(s, j, s.approvals[j])
               /\ [claim |-> s.approvals[j].claim, set |-> s.set.id] \in recorded'
    <3>1. PICK t \in sets : s.set = t.set /\ s.approvals = t.approvals
      BY <2>4
    <3> QED
      BY <1>1, <2>6, <3>1 DEF LedgerInv, SlotsSound, ActionMatches, RootMatches
  <2> QED
    BY <2>1, <2>2, <2>3, <2>5, <2>6 DEF SlotsSound
<1>10. SlotsApart'
  <2>1. SUFFICES ASSUME NEW s \in sets', NEW t \in sets', NEW i \in Slots, NEW j \in Slots,
                        s.approvals[i] # Empty, s.approvals[i] = t.approvals[j]
                 PROVE  s = t /\ i = j
    BY DEF SlotsApart
  <2>2. PICK u \in sets : u.approvals = s.approvals /\ (s = u \/ (s = new /\ u = state))
    BY <1>1, <1>5
  <2>3. PICK v \in sets : v.approvals = t.approvals /\ (t = v \/ (t = new /\ v = state))
    BY <1>1, <1>5
  <2>4. u = v /\ i = j
    BY <2>1, <2>2, <2>3 DEF LedgerInv, SlotsApart
  <2> QED
    BY <1>1, <1>5, <2>2, <2>3, <2>4, <1>2
<1>11. entry \in [state : [set : Sets, approvals : [Slots -> released' \cup {Empty}], executed : {FALSE}],
                  at : Nat]
  BY <1>1, <1>2, <1>3, <1>4 DEF OpenSets
<1>12. ASSUME NEW n \in DOMAIN executions
       PROVE  Executed(executions[n], sets') /\ executions[n].state.set.id # state.set.id
  <2>1. PICK t \in sets : t = [set |-> executions[n].state.set,
                               approvals |-> executions[n].state.approvals, executed |-> TRUE]
    BY DEF LedgerInv, ExecutionsSound, Executed
  <2>2. t.set = executions[n].state.set /\ t.executed = TRUE
    BY <2>1
  <2>3. t # state
    BY <1>2, <2>2
  <2> QED
    BY <1>1, <2>1, <2>2, <2>3 DEF Executed, LedgerInv, SlotsSound
<1>13. Executed(entry, sets')
  BY <1>1, <1>5 DEF Executed
<1>14. Complete(entry.state) /\ \A k \in Slots : entry.at < entry.state.approvals[k].deadline
  <2>1. \A k \in Slots : state.approvals[k].deadline \in Nat
    BY <1>2 DEF Complete, LedgerInv, SlotsSound, ReleasedSound
  <2>2. now < state.approvals[1].deadline /\ t2 < state.approvals[2].deadline
    BY <1>2 DEF Allowed
  <2>3. \A k \in Slots : now < state.approvals[k].deadline
    BY <1>3, <2>1, <2>2 DEF Slots
  <2> QED
    BY <1>2, <2>3 DEF Complete
<1>15. ExecutionsSound'
  <2> DEFINE E == [state : [set : Sets, approvals : [Slots -> released' \cup {Empty}], executed : {FALSE}],
                   at : Nat]
  <2>1. executions \in Seq(E)
    BY <1>1 DEF LedgerInv, ExecutionsSound
  <2>2. entry \in E
    BY <1>11
  <2> HIDE DEF E, entry
  <2>3. /\ executions' \in Seq(E)
        /\ DOMAIN executions' = DOMAIN executions \cup {Len(executions) + 1}
        /\ executions'[Len(executions) + 1] = entry
        /\ \A n \in DOMAIN executions : executions'[n] = executions[n]
    BY <1>1, <2>1, <2>2, AppendProperties
  <2>4. Executed(executions'[Len(executions) + 1], sets')
    BY <1>13, <2>3 DEF Executed
  <2>5. \A n \in DOMAIN executions : Executed(executions'[n], sets')
    BY <1>12, <2>3 DEF Executed
  <2>6. \A n \in DOMAIN executions' :
          /\ Complete(executions'[n].state)
          /\ \A k \in Slots : executions'[n].at < executions'[n].state.approvals[k].deadline
    <3>1. \A n \in DOMAIN executions :
            /\ Complete(executions[n].state)
            /\ \A k \in Slots : executions[n].at < executions[n].state.approvals[k].deadline
      BY DEF LedgerInv, ExecutionsSound
    <3> QED
      BY <1>14, <2>3, <3>1
  <2>7. entry.state.set.id = state.set.id
    BY DEF entry
  <2>8. \A m, n \in DOMAIN executions' :
          executions'[m].state.set.id = executions'[n].state.set.id => m = n
    BY <1>12, <2>3, <2>7 DEF LedgerInv, ExecutionsSound
  <2> QED
    <3>1. \A n \in DOMAIN executions' : Executed(executions'[n], sets')
      BY <2>3, <2>4, <2>5
    <3> QED
      BY <2>3, <2>6, <2>8, <3>1 DEF ExecutionsSound, Complete, E
<1> QED
  BY <1>1, <1>3, <1>7, <1>9, <1>10, <1>15 DEF LedgerInv

LEMMA ApprovalNextInv == LedgerInv /\ [ApprovalNext]_approvalVars => LedgerInv'
<1> SUFFICES ASSUME LedgerInv, [ApprovalNext]_approvalVars
             PROVE  LedgerInv'
  OBVIOUS
<1>1. CASE \E c \in Claims, b \in Bundles, s \in Scopes, t \in 1..MaxTime : ReleaseDecision(c, b, s, t)
  BY <1>1, ReleaseInv
<1>2. CASE \E s \in Sets : Open(s)
  BY <1>2, OpenInv
<1>3. CASE \E state \in sets, k \in Slots, d \in released, b \in Bundles : RecordApproval(state, k, d, b)
  BY <1>3, RecordInv
<1>4. CASE \E state \in sets, t \in now..MaxTime : Execute(state, t)
  BY <1>4, ExecuteInv
<1>5. CASE ClockTick
  BY <1>5, LedgerSame DEF ClockTick, LedgerInv
<1>6. CASE UNCHANGED approvalVars
  BY <1>6, LedgerSame DEF approvalVars, LedgerInv
<1> QED
  BY <1>1, <1>2, <1>3, <1>4, <1>5, <1>6 DEF ApprovalNext

(* A root the registry trusts is one record, and no other record shares a  *)
(* component of its key.                                                   *)
LEMMA TrustedRoot ==
  ASSUME registry \in Registries, NEW root, Resolve(root) = "trusted"
  PROVE  \E i \in DOMAIN registry : registry[i] = root /\ Candidates(root) = {i}
<1>1. PICK i \in Candidates(root) : registry[i] = root
  BY DEF Resolve
<1>2. IsFiniteSet(DOMAIN registry)
  <2>1. Len(registry) \in Nat /\ DOMAIN registry = 1..Len(registry)
    BY RegistryAssumption
  <2> QED
    BY <2>1, FS_Interval
<1>3. Candidates(root) \subseteq DOMAIN registry
  BY DEF Candidates
<1>4. IsFiniteSet(Candidates(root))
  BY <1>2, <1>3, FS_Subset
<1>5. Cardinality(Candidates(root)) \in Nat /\ ~(Cardinality(Candidates(root)) > 1)
  BY <1>4, FS_CardinalityType DEF Resolve
<1>6. Candidates(root) = {i}
  <2>1. IsFiniteSet({i}) /\ Cardinality({i}) = 1
    BY FS_Singleton
  <2>2. {i} \subseteq Candidates(root)
    BY <1>1
  <2>3. Cardinality({i}) = Cardinality(Candidates(root))
    BY <1>4, <1>5, <2>1, <2>2, FS_Subset
  <2> QED
    BY <1>4, <2>2, <2>3, FS_Subset
<1> QED
  BY <1>1, <1>3, <1>6

LEMMA ExecutedFromInv == LedgerInv => ExecutedOnceByTwoRoots
<1> SUFFICES ASSUME LedgerInv PROVE ExecutedOnceByTwoRoots
  OBVIOUS
<1>1. ASSUME NEW n \in DOMAIN executions
      PROVE  \E t \in sets : /\ t.set = executions[n].state.set
                             /\ t.approvals = executions[n].state.approvals
                             /\ \A k \in Slots : t.approvals[k] # Empty
  BY DEF LedgerInv, ExecutionsSound, Executed, Complete
<1>2. ExecutedByTwoRoots
  <2>1. SUFFICES ASSUME NEW n \in DOMAIN executions,
                        NEW a, a = executions[n].state.approvals[1],
                        NEW b, b = executions[n].state.approvals[2]
                 PROVE  /\ a.bundle.root # b.bundle.root
                        /\ \A d \in {a, b} :
                             /\ d.decision = "allow" /\ executions[n].at < d.deadline
                             /\ \E i \in DOMAIN registry : /\ registry[i] = d.bundle.root
                                                           /\ Candidates(d.bundle.root) = {i}
    BY DEF ExecutedByTwoRoots
  <2>2. PICK t \in sets : /\ t.set = executions[n].state.set
                          /\ t.approvals = executions[n].state.approvals
                          /\ \A k \in Slots : t.approvals[k] # Empty
    BY <1>1
  <2>3. t.approvals[1] = a /\ t.approvals[2] = b
    BY <2>1, <2>2
  <2>4. /\ t.set.roots[1] # t.set.roots[2]
        /\ \A d \in {a, b} : d \in released /\ d.decision = "allow"
        /\ a.bundle.root = t.set.roots[1] /\ b.bundle.root = t.set.roots[2]
    <3>1. \A k \in Slots : /\ t.approvals[k] \in released /\ t.approvals[k].decision = "allow"
                           /\ t.approvals[k].bundle.root = t.set.roots[k]
      BY <2>2 DEF LedgerInv, SlotsSound, RootMatches
    <3>2. t.set.roots[1] # t.set.roots[2]
      BY DEF LedgerInv, SlotsSound
    <3>3. 1 \in Slots /\ 2 \in Slots
      BY DEF Slots
    <3> QED
      BY <2>3, <3>1, <3>2, <3>3
  <2>5. \A d \in {a, b} : executions[n].at < d.deadline
    BY <2>1 DEF LedgerInv, ExecutionsSound, Slots
  <2>6. \A d \in {a, b} : \E i \in DOMAIN registry : /\ registry[i] = d.bundle.root
                                                     /\ Candidates(d.bundle.root) = {i}
    BY <2>4, TrustedRoot DEF LedgerInv, ReleasedSound
  <2> QED
    BY <2>4, <2>5, <2>6
<1>3. ExecutedAsApproved
  <2>1. SUFFICES ASSUME NEW n \in DOMAIN executions, NEW k \in Slots
                 PROVE  /\ executions[n].state.approvals[k].scope = executions[n].state.set.scope
                        /\ executions[n].state.approvals[k].bundle.context = ContextOf(executions[n].state.set)
    BY DEF ExecutedAsApproved
  <2>2. PICK t \in sets : /\ t.set = executions[n].state.set
                          /\ t.approvals = executions[n].state.approvals
                          /\ \A j \in Slots : t.approvals[j] # Empty
    BY <1>1
  <2>3. ActionMatches(t, t.approvals[k])
    BY <2>2 DEF LedgerInv, SlotsSound
  <2> QED
    BY <2>2, <2>3 DEF ActionMatches
<1>4. CountedOnce
  BY DEF CountedOnce, LedgerInv, SlotsApart, ExecutionsSound
<1> QED
  BY <1>2, <1>3, <1>4 DEF ExecutedOnceByTwoRoots

(* An action is executed once, for two released allows of two roots the    *)
(* registry trusts without doubt, both made for exactly this action and    *)
(* open at one moment, and no released decision counts twice:              *)
(* record_approval and execute of the approval ledger, for any sets,       *)
(* registries and claims and whatever is submitted to whichever slot.      *)
THEOREM ApprovalHolds == ApprovalSpec => []ExecutedOnceByTwoRoots
<1>1. ApprovalSpec => []LedgerInv
  BY ApprovalInitInv, ApprovalNextInv, PTL DEF ApprovalSpec
<1> QED
  BY <1>1, ExecutedFromInv, PTL
=============================================================================
