---------------------------- MODULE OfflineDevice ----------------------------
(***************************************************************************)
(* The single-device offline profile: v2/reference/offline_device.rs and   *)
(* device_state.rs.                                                        *)
(*                                                                         *)
(* A primary holds the durable security records: claims, the receipt log,  *)
(* the security journal and the issuance records.  A copy of it may be     *)
(* taken at any time (a backup) and bound in place of, or beside, the      *)
(* first, and a primary may be bound again.  The component is the one      *)
(* independent part: it holds the anchored digest of the complete state    *)
(* and one signed record per acknowledged log entry.                       *)
(*                                                                         *)
(* Copying and binding take one lock after another and keep none: each     *)
(* section under a lock is a step, and the primary goes on in between.     *)
(*                                                                         *)
(* Digests are injective: a complete-state digest is the state itself, and *)
(* the hash of a log entry is the log up to and including it.  The lock of *)
(* the anchor makes "compose, then commit" one step; what a thread reads   *)
(* before it takes that lock is a step of its own.                         *)
(***************************************************************************)
EXTENDS Integers, Sequences, FiniteSets, SequencesExt

CONSTANTS Primaries,      \* primaries; the first is the device's, others are copies
          First,          \* the primary the device is provisioned with
          Bindable,       \* primaries that callers bind while the device runs
          Threads,        \* threads that change the journal or the issuance records
          Challenges,     \* challenges a thread may persist
          Bodies,         \* receipt bodies
          Capacity,       \* records the component has room for
          MaxClaims,      \* bound of the claims of a primary
          MaxLog,         \* bound of the entries of a log
          MaxGeneration,  \* bound of the journal's generation
          MaxFaults       \* bound of power losses and clock failures

ASSUME ProvisionedPrimary == First \in Primaries /\ Bindable \subseteq Primaries

VARIABLES prim,      \* [Primaries -> the durable records and the binding]
          comp,      \* the component: anchored state, records, frozen
          setup,     \* the copy that makes each primary, or the bind of it, under way
          overlapped,  \* a store changed while a bind of it was under way
          thread,    \* journal and issuance changes under way
          sub,       \* the submission under way at each primary
          uploaded,  \* what each primary's uplink has sent
          told,      \* what callers were told the component has anchored
          faults

vars == <<prim, comp, setup, overlapped, thread, sub, uploaded, told, faults>>

-----------------------------------------------------------------------------
(* The complete state.                                                     *)

StoreOf(p) == [claims |-> prim[p].claims, log |-> prim[p].log]

(* compose: last_store with the current journal and issuance records.      *)
Compose(store, p) ==
  [claims |-> store.claims, log |-> store.log,
   journal |-> prim[p].journal, issued |-> prim[p].issued]

(* complete_state_digest, from the current records.                        *)
Digest(p) == Compose(StoreOf(p), p)

Hash(log, n) == SubSeq(log, 1, n)

-----------------------------------------------------------------------------
(* The component.                                                          *)

(* anchor_state.                                                           *)
AnchorAccepts(previous) == ~comp.frozen /\ comp.state = previous

(* Faulty variant: the submitted state is not compared.                    *)
CommitResultAnyState(log, n, state) ==
  IF comp.frozen THEN "frozen"
  ELSE IF n <= Len(comp.records)
       THEN IF comp.records[n] = Hash(log, n) THEN "known" ELSE "forked"
  ELSE IF \/ n # Len(comp.records) + 1
          \/ Len(comp.records) > 0 /\ comp.records[n - 1] # Hash(log, n - 1) THEN "state_mismatch"
  ELSE IF Len(comp.records) >= Capacity THEN "storage_full" ELSE "next"

(* Faulty variant: a retry of an acknowledged entry counts as a conflict.  *)
CommitResultRetryForks(log, n, state) ==
  IF comp.frozen THEN "frozen"
  ELSE IF n <= Len(comp.records) THEN "forked"
  ELSE IF n # Len(comp.records) + 1 \/ comp.state # state THEN "state_mismatch"
  ELSE IF Len(comp.records) >= Capacity THEN "storage_full" ELSE "next"

(* commit_at up to the power loss, for the n-th entry of log.              *)
CommitResult(log, n, state) ==
  IF comp.frozen THEN "frozen"
  ELSE IF n <= Len(comp.records)
       THEN IF comp.records[n] = Hash(log, n) THEN "known" ELSE "forked"
  ELSE IF \/ n # Len(comp.records) + 1
          \/ Len(comp.records) > 0 /\ comp.records[n - 1] # Hash(log, n - 1)
          \/ comp.state # state THEN "state_mismatch"
  ELSE IF Len(comp.records) >= Capacity THEN "storage_full" ELSE "next"

-----------------------------------------------------------------------------
(* Changes of the claim store.                                             *)

(* A bind has read the digests of the store that it will remember, or has  *)
(* set them and not installed the hook.                                    *)
Binding(p) == setup[p].pc \in {"attach", "hook"}

(* A change the component must anchor first (change_locked with the hook   *)
(* that bind installed); without a hook the store just changes.            *)
StoreChange(p, next) ==
  LET store == [claims |-> next.claims, log |-> next.log]
      refused == prim[p].hooked /\ ~AnchorAccepts(Digest(p))
  IN  /\ \/ refused /\ UNCHANGED <<comp, prim, told>>
         \/ /\ prim[p].hooked /\ ~refused
            /\ comp' = [comp EXCEPT !.state = Compose(store, p)]
            /\ prim' = [prim EXCEPT ![p] = [next EXCEPT !.last = store]]
            /\ told' = [told EXCEPT !.claims = store.claims, !.log = store.log]
         \/ ~prim[p].hooked /\ prim' = [prim EXCEPT ![p] = next] /\ UNCHANGED <<comp, told>>
      /\ overlapped' = (overlapped \/ (Binding(p) /\ ~refused))
      /\ UNCHANGED <<setup, thread, sub, uploaded, faults>>

Claim(p) ==
  /\ prim[p].live /\ prim[p].claims < MaxClaims
  /\ StoreChange(p, [prim[p] EXCEPT !.claims = @ + 1])

AppendReceipt(p, body) ==
  /\ prim[p].live /\ Len(prim[p].log) < MaxLog
  /\ StoreChange(p, [prim[p] EXCEPT !.log = Append(@, body)])

-----------------------------------------------------------------------------
(* Changes of the journal and of the issuance records.                     *)

NoThread == [pc |-> "idle"]

(* compare_and_swap and persist_v2_challenge copy what an undo would       *)
(* restore before change_other takes the anchor lock.  expected is a head  *)
(* the caller loaded earlier.                                              *)
BeginChange(t, p, kind, x, expected) ==
  /\ thread[t].pc = "idle" /\ prim[p].live
  /\ thread' = [thread EXCEPT ![t] =
       [pc |-> "change", prim |-> p, kind |-> kind, x |-> x, expected |-> expected,
        saved |-> [journal |-> prim[p].journal, issued |-> prim[p].issued]]]
  /\ UNCHANGED <<prim, comp, setup, overlapped, sub, uploaded, told, faults>>

(* apply: the inner store's own answer, and its records after it.          *)
Applies(v) ==
  IF v.kind = "journal" THEN prim[v.prim].journal = v.expected
  ELSE v.x \notin prim[v.prim].issued

Applied(v) ==
  IF v.kind = "journal" THEN [prim[v.prim] EXCEPT !.journal = @ + 1]
  ELSE [prim[v.prim] EXCEPT !.issued = @ \cup {v.x}]

(* undo.                                                                   *)
Undone(v) ==
  IF v.kind = "journal" THEN [prim[v.prim] EXCEPT !.journal = v.saved.journal]
  ELSE [prim[v.prim] EXCEPT !.issued = v.saved.issued]

(* change_other, under the anchor lock.                                    *)
ChangeOther(t) ==
  LET v == thread[t]
      p == v.prim
      before == Compose(prim[p].last, p)
      after == [before EXCEPT !.journal = Applied(v).journal, !.issued = Applied(v).issued]
  IN  /\ v.pc = "change"
      /\ thread' = [thread EXCEPT ![t] = NoThread]
      /\ IF ~Applies(v) THEN UNCHANGED <<prim, comp, told>>
         ELSE IF ~prim[p].attached
         THEN prim' = [prim EXCEPT ![p] = Applied(v)] /\ UNCHANGED <<comp, told>>
         ELSE IF AnchorAccepts(before)
         THEN /\ comp' = [comp EXCEPT !.state = after]
              /\ prim' = [prim EXCEPT ![p] = Applied(v)]
              /\ told' = [told EXCEPT !.journal = after.journal, !.issued = after.issued]
         ELSE prim' = [prim EXCEPT ![p] = Undone(v)] /\ UNCHANGED <<comp, told>>
      /\ UNCHANGED <<setup, overlapped, sub, uploaded, faults>>

-----------------------------------------------------------------------------
(* Acknowledging log entries.                                              *)

NoSubmission == [pc |-> "idle", next |-> 0]

(* submit_pending, and acknowledge of one entry when only is TRUE.         *)
BeginSubmission(p, n, only) ==
  /\ sub[p].pc = "idle" /\ prim[p].hooked
  /\ n \in 1..Len(prim[p].log)
  /\ only \/ n = 1
  /\ sub' = [sub EXCEPT ![p] =
       [pc |-> IF only THEN "commit" ELSE "scan", next |-> n, only |-> only]]
  /\ UNCHANGED <<prim, comp, setup, overlapped, thread, uploaded, told, faults>>

(* The loop of submit_pending looks for the next entry the component does  *)
(* not hold with the same hash.                                            *)
Scan(p) ==
  LET n == sub[p].next
      known == n <= Len(comp.records) /\ comp.records[n] = Hash(prim[p].log, n)
  IN  /\ sub[p].pc = "scan"
      /\ sub' = [sub EXCEPT ![p] = IF n > Len(prim[p].log) THEN NoSubmission
                                   ELSE IF known THEN [@ EXCEPT !.next = n + 1]
                                   ELSE [@ EXCEPT !.pc = "commit"]]
      /\ UNCHANGED <<prim, comp, setup, overlapped, thread, uploaded, told, faults>>

Continue(p) == IF sub[p].only THEN NoSubmission
               ELSE [pc |-> "scan", next |-> sub[p].next + 1, only |-> FALSE]

(* commit_at with fault "ok", "before", "after" (power loss) or "clock".   *)
Commit(p, fault) ==
  LET n == sub[p].next
      result == CommitResult(prim[p].log, n, Compose(prim[p].last, p))
      records == Append(SubSeq(comp.records, 1, n - 1), Hash(prim[p].log, n))
      lost == result = "next" /\ fault # "ok"
  IN  /\ sub[p].pc = "commit"
      /\ fault # "ok" => faults < MaxFaults /\ result = "next"
      /\ faults' = IF lost THEN faults + 1 ELSE faults
      /\ comp' = IF result = "forked" THEN [comp EXCEPT !.frozen = TRUE]
                 ELSE IF result = "next" /\ fault \in {"ok", "after"}
                 THEN [comp EXCEPT !.records = records] ELSE comp
      /\ sub' = [sub EXCEPT ![p] =
           IF result = "known" \/ (result = "next" /\ ~lost) THEN Continue(p) ELSE NoSubmission]
      /\ told' = IF result = "known" \/ (result = "next" /\ ~lost)
                 THEN [told EXCEPT !.acked = IF Len(@) > n THEN @ ELSE Hash(prim[p].log, n)]
                 ELSE told
      /\ UNCHANGED <<prim, setup, overlapped, thread, uploaded>>

-----------------------------------------------------------------------------
(* Faulty variant: only the length of the log is compared.                 *)
StartupLengthOnly(p) ==
  IF comp.frozen THEN "checkpoint_frozen"
  ELSE IF Len(prim[p].log) < Len(comp.records) THEN "primary_behind" ELSE "ready"

(* startup.                                                                *)
Startup(p) ==
  IF comp.frozen THEN "checkpoint_frozen"
  ELSE IF Len(prim[p].log) < Len(comp.records) THEN "primary_behind"
  ELSE IF comp.state # Digest(p) THEN "state_digest_mismatch" ELSE "ready"

(* The receipts upload may send: the acknowledged sequences the primary    *)
(* has a receipt for.                                                      *)
Uploadable(p) ==
  IF Len(comp.records) <= Len(prim[p].log) THEN Len(comp.records) ELSE Len(prim[p].log)

(* upload.                                                                 *)
Upload(p) ==
  /\ prim[p].hooked
  /\ Len(uploaded[p]) < Uploadable(p)
  /\ uploaded' = [uploaded EXCEPT ![p] = @ \o SubSeq(prim[p].log, Len(@) + 1, Uploadable(p))]
  /\ UNCHANGED <<prim, comp, setup, overlapped, thread, sub, told, faults>>

-----------------------------------------------------------------------------
(* Copies and binding.                                                     *)

NoSetup == [pc |-> "idle"]

(* A step of the copy or bind of q: what q then holds, and what is next.   *)
Proceed(q, records, next) ==
  /\ prim' = [prim EXCEPT ![q] = records]
  /\ setup' = [setup EXCEPT ![q] = next]
  /\ UNCHANGED <<comp, overlapped, thread, sub, uploaded, told, faults>>

(* clone_primary: a backup, not bound to the component; the journal, the   *)
(* issuance records and the store are copied under a lock each.            *)
CopyJournal(p, q) ==
  /\ prim[p].live /\ ~prim[q].live /\ setup[q].pc = "idle"
  /\ Proceed(q, [prim[q] EXCEPT !.journal = prim[p].journal], [pc |-> "issuance", from |-> p])

CopyIssuance(q) ==
  /\ setup[q].pc = "issuance"
  /\ Proceed(q, [prim[q] EXCEPT !.issued = prim[setup[q].from].issued],
             [setup[q] EXCEPT !.pc = "store"])

CopyStore(q) ==
  LET store == StoreOf(setup[q].from)
  IN  /\ setup[q].pc = "store"
      /\ Proceed(q, [prim[q] EXCEPT !.claims = store.claims, !.log = store.log, !.live = TRUE],
                 NoSetup)

(* bind, of DeviceCheckpointTestOnly::new without provisioning: it reads   *)
(* the digests of the store, attaches the component with them, and only    *)
(* then installs the hook that anchors the changes of the store.           *)
BindRead(p) ==
  /\ p \in Bindable /\ prim[p].live /\ setup[p].pc = "idle"
  /\ Proceed(p, prim[p], [pc |-> "attach", read |-> StoreOf(p)])

BindAttach(p) ==
  /\ setup[p].pc = "attach"
  /\ Proceed(p, [prim[p] EXCEPT !.attached = TRUE, !.last = setup[p].read], [pc |-> "hook"])

BindHook(p) ==
  /\ setup[p].pc = "hook"
  /\ Proceed(p, [prim[p] EXCEPT !.hooked = TRUE], NoSetup)

SetupStep(p) ==
  \/ \E q \in Primaries : CopyJournal(q, p)
  \/ CopyIssuance(p) \/ CopyStore(p) \/ BindRead(p) \/ BindAttach(p) \/ BindHook(p)

-----------------------------------------------------------------------------
Fresh == [claims |-> 0, log |-> <<>>, journal |-> 0, issued |-> {}, live |-> TRUE,
          attached |-> FALSE, hooked |-> FALSE,
          last |-> [claims |-> 0, log |-> <<>>]]

(* The first primary is bound and provisioned.                             *)
Init ==
  /\ prim = [p \in Primaries |->
                IF p = First THEN [Fresh EXCEPT !.attached = TRUE, !.hooked = TRUE]
                ELSE [Fresh EXCEPT !.live = FALSE]]
  /\ comp = [state |-> Digest(First), records |-> <<>>, frozen |-> FALSE]
  /\ setup = [p \in Primaries |-> NoSetup] /\ overlapped = FALSE
  /\ thread = [t \in Threads |-> NoThread]
  /\ sub = [p \in Primaries |-> NoSubmission]
  /\ uploaded = [p \in Primaries |-> <<>>]
  /\ told = [claims |-> 0, log |-> <<>>, journal |-> 0, issued |-> {}, acked |-> <<>>]
  /\ faults = 0

Submission(p) ==
  \/ \E n \in 1..MaxLog, only \in BOOLEAN : BeginSubmission(p, n, only)
  \/ Scan(p)
  \/ \E fault \in {"ok", "before", "after", "clock"} : Commit(p, fault)

Next ==
  \/ \E p \in Primaries :
       \/ Claim(p) \/ Upload(p) \/ SetupStep(p) \/ Submission(p)
       \/ \E body \in Bodies : AppendReceipt(p, body)
  \/ \E t \in Threads :
       \/ ChangeOther(t)
       \/ \E p \in Primaries :
            \/ \E c \in Challenges : BeginChange(t, p, "issue", c, 0)
            \/ \E g \in 0..prim[p].journal :
                 prim[p].journal < MaxGeneration /\ BeginChange(t, p, "journal", 0, g)

Spec == Init /\ [][Next]_vars

(* The device calls submit_pending again and again, also between single    *)
(* acknowledgements, and each call runs to its end.                        *)
Live ==
  \A p \in Primaries : /\ SF_vars(BeginSubmission(p, 1, FALSE))
                       /\ WF_vars(Scan(p))
                       /\ WF_vars(\E fault \in {"ok", "before", "after", "clock"} : Commit(p, fault))

FairSpec == Spec /\ Live

-----------------------------------------------------------------------------
TypeOK ==
  /\ \A p \in Primaries :
       /\ prim[p].claims \in 0..MaxClaims /\ prim[p].journal \in 0..MaxGeneration
       /\ prim[p].log \in Seq(Bodies) /\ prim[p].issued \subseteq Challenges
       /\ sub[p].pc \in {"idle", "scan", "commit"}
       /\ setup[p].pc \in {"idle", "issuance", "store", "attach", "hook"}
  /\ Len(comp.records) <= Capacity /\ comp.frozen \in BOOLEAN
  /\ overlapped \in BOOLEAN
  /\ faults \in 0..MaxFaults

(* Every record extends the one before it by one entry, and what a caller  *)
(* was told is acknowledged is a record: no fork, copy, power loss or race *)
(* with a bind rewrites or skips an acknowledged entry.                    *)
RecordsOneChain ==
  /\ \A n \in DOMAIN comp.records : /\ Len(comp.records[n]) = n
                                    /\ n > 1 => comp.records[n - 1] = Hash(comp.records[n], n - 1)
  /\ told.acked # <<>> =>
       Len(told.acked) <= Len(comp.records) /\ told.acked = comp.records[Len(told.acked)]

(* Everything the component acknowledged is in the log of the state it has *)
(* anchored, entry for entry: the anchored digest an entry is submitted    *)
(* with "already covers the append" (acknowledge).                         *)
AnchorCoversRecords ==
  \A n \in DOMAIN comp.records : /\ n <= Len(comp.state.log)
                                 /\ comp.records[n] = Hash(comp.state.log, n)

(* The records are one chain; and unless a store changed while it was      *)
(* being bound they are in the anchored log, so that a copy altered while  *)
(* it was unbound can neither extend nor replace a record.                 *)
RecordsSound == RecordsOneChain /\ (~overlapped => AnchorCoversRecords)

(* A primary that startup finds ready has lost nothing its callers were    *)
(* ever told is anchored: no claim, log entry, journal generation or       *)
(* issued challenge, across copies, power losses, refused changes and      *)
(* races with a bind; and, unless a store changed while it was being       *)
(* bound, nothing that was acknowledged.                                   *)
ReadyHasAll ==
  \A p \in Primaries : prim[p].live /\ Startup(p) = "ready" =>
    /\ prim[p].claims = told.claims /\ prim[p].log = told.log
    /\ prim[p].journal = told.journal /\ prim[p].issued = told.issued
    /\ ~overlapped => /\ IsPrefix(told.acked, prim[p].log)
                      /\ \A n \in DOMAIN comp.records : comp.records[n] = Hash(prim[p].log, n)

(* A change the component refuses is undone, and nothing else with it.     *)
RefusedChangeUndoneStep ==
  \A t \in Threads :
    LET p == thread[t].prim
    IN  thread[t].pc = "change" /\ thread'[t].pc = "idle" /\ prim[p].attached /\ comp' = comp
          => prim'[p] = prim[p]
RefusedChangeUndone == [][RefusedChangeUndoneStep]_vars

(* Every appended entry of the device is acknowledged in the end, although *)
(* power may be lost before or after the component commits and the clock   *)
(* may fail.                                                               *)
EventuallyAcknowledged ==
  \A n \in 1..MaxLog : Len(prim[First].log) >= n ~> Len(comp.records) >= n
=============================================================================
