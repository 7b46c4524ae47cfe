--------------------------- MODULE ApprovalLedger ---------------------------
(***************************************************************************)
(* Dual-root approval (sdks/rust/src/v2/reference/approval_ledger.rs) over *)
(* released decisions, with the root of every decision resolved by the     *)
(* reference trust registry (reference/trust_registry.rs).                 *)
(*                                                                         *)
(* A key is the pair of its two components and its ID is the whole pair.   *)
(* A bundle is [agent, context, root]: the agent's key, the session        *)
(* context and the terminal issuer's key.  A decision is what a verifier   *)
(* released for one claim.  Presenters submit any released decision with   *)
(* any bundle to any slot of any set.                                      *)
(***************************************************************************)
EXTENDS Integers, Sequences, FiniteSets

CONSTANTS Sets,        \* approval sets an application may open: [id, agent, scope, request, roots]
          Registries,  \* configurations of the trust registry
          Bundles,     \* proof bundles
          Scopes,      \* required scopes
          Claims,      \* claims; one decision each
          MaxTime      \* bound of the clock

(* A registry is a finite list of records.                                 *)
ASSUME RegistryAssumption == \A r \in Registries : Len(r) \in Nat /\ DOMAIN r = 1..Len(r)
ASSUME TimeAssumption == MaxTime \in Nat

VARIABLES registry,    \* the trust records, a sequence of keys
          released,    \* the decisions released so far
          sets,        \* the open sets and their approvals
          recorded,    \* claim and owning set of every recorded approval
          executions,  \* the sets executed, in order, with the clock readings
          now

approvalVars == <<registry, released, sets, recorded, executions, now>>

Slots == 1..2
Empty == [claim |-> "none"]
Ids == {s.id : s \in Sets}

(* build_session_context_v2 with invocation_id = approval_set_id: the      *)
(* digest of the agent, the set and the request.                           *)
ContextOf(s) == [agent |-> s.agent, id |-> s.id, request |-> s.request]

-----------------------------------------------------------------------------
(* The trust registry.                                                     *)

(* A record that shares the ID or one component of the root's key.         *)
Candidates(root) ==
  {i \in DOMAIN registry : registry[i] = root \/ registry[i].ed = root.ed \/ registry[i].ml = root.ml}

(* TrustRegistry::resolve, and the verifier's comparison of the complete   *)
(* key: several candidates, or a partial match, leave trust unavailable.   *)
Resolve(root) ==
  IF Candidates(root) = {} THEN "untrusted"
  ELSE IF Cardinality(Candidates(root)) > 1 THEN "unavailable"
  ELSE IF \E i \in Candidates(root) : registry[i] = root THEN "trusted" ELSE "unavailable"

(* A verifier decides a claim and releases the decision; the deadline is   *)
(* the earlier of the challenge's expiry and the allow horizon.            *)
ReleaseDecision(c, b, scope, deadline) ==
  /\ c \notin {d.claim : d \in released}
  /\ deadline > now
  /\ released' = released \cup
       {[claim |-> c, bundle |-> b, scope |-> scope, deadline |-> deadline,
         decision |-> IF Resolve(b.root) = "trusted" THEN "allow" ELSE "deny"]}
  /\ UNCHANGED <<registry, sets, recorded, executions, now>>

(* V2ReleasedDecision::allowed at one reading of the clock.                *)
Allowed(d, t) == d.decision = "allow" /\ t < d.deadline

-----------------------------------------------------------------------------
(* The ledger; each operation is one atomic step.                          *)

Opened(id) == {s \in sets : s.set.id = id}

(* open.                                                                   *)
OpenResult(s) ==
  IF s.roots[1] = s.roots[2] THEN "set_invalid"
  ELSE IF Opened(s.id) # {} THEN "set_already_exists" ELSE "ok"

Open(s) ==
  /\ OpenResult(s) = "ok"
  /\ sets' = (sets \ Opened(s.id)) \cup
               {[set |-> s, approvals |-> [k \in Slots |-> Empty], executed |-> FALSE]}
  /\ UNCHANGED <<registry, released, recorded, executions, now>>

RootMatches(state, slot, d) == d.bundle.root = state.set.roots[slot]

(* Faulty variant: the session context is not compared.                    *)
ActionMatchesNoContext(state, d) == d.scope = state.set.scope /\ d.bundle.agent = state.set.agent

ActionMatches(state, d) ==
  /\ d.scope = state.set.scope
  /\ d.bundle.agent = state.set.agent
  /\ d.bundle.context = ContextOf(state.set)

(* record_approval, in the order of its checks.                            *)
RecordResult(state, slot, d, b) ==
  IF d.decision # "allow" THEN "not_released"
  ELSE IF b # d.bundle THEN "action_mismatch"
  ELSE IF \E r \in recorded : r.claim = d.claim /\ r.set # state.set.id THEN "approval_reused"
  ELSE IF ~ActionMatches(state, d) THEN "action_mismatch"
  ELSE IF ~RootMatches(state, slot, d) THEN "root_mismatch"
  ELSE IF state.approvals[slot] \notin {Empty, d} THEN "slot_filled"
  ELSE IF state.approvals[slot] = d THEN "ok" ELSE "recorded"

RecordApproval(state, slot, d, b) ==
  /\ RecordResult(state, slot, d, b) = "recorded"
  /\ sets' = (sets \ {state}) \cup {[state EXCEPT !.approvals[slot] = d]}
  /\ recorded' = recorded \cup {[claim |-> d.claim, set |-> state.set.id]}
  /\ UNCHANGED <<registry, released, executions, now>>

Complete(state) == \A k \in Slots : state.approvals[k] # Empty

(* execute.                                                                *)
ExecuteResult(state, t1, t2) ==
  IF state.executed THEN "already_executed"
  ELSE IF ~Complete(state) THEN "incomplete"
  ELSE IF Allowed(state.approvals[1], t1) /\ Allowed(state.approvals[2], t2) THEN "ok"
  ELSE "expired"

(* The clock is read once for each approval and may advance in between.    *)
Execute(state, t2) ==
  /\ ExecuteResult(state, now, t2) = "ok"
  /\ sets' = (sets \ {state}) \cup {[state EXCEPT !.executed = TRUE]}
  /\ executions' = Append(executions, [state |-> state, at |-> now])
  /\ now' = t2
  /\ UNCHANGED <<registry, released, recorded>>

ClockTick ==
  /\ now < MaxTime /\ now' = now + 1
  /\ UNCHANGED <<registry, released, sets, recorded, executions>>

-----------------------------------------------------------------------------
ApprovalInit ==
  /\ registry \in Registries
  /\ released = {} /\ sets = {} /\ recorded = {}
  /\ executions = <<>>
  /\ now = 0

ApprovalNext ==
  \/ \E c \in Claims, b \in Bundles, s \in Scopes, t \in 1..MaxTime : ReleaseDecision(c, b, s, t)
  \/ \E s \in Sets : Open(s)
  \/ \E state \in sets, k \in Slots, d \in released, b \in Bundles : RecordApproval(state, k, d, b)
  \/ \E state \in sets, t \in now..MaxTime : Execute(state, t)
  \/ ClockTick

ApprovalSpec == ApprovalInit /\ [][ApprovalNext]_approvalVars

-----------------------------------------------------------------------------
(* Every open set has one entry, its slots hold released decisions, and    *)
(* the index of recorded claims agrees with the slots.                     *)
ApprovalTypeOK ==
  /\ now \in 0..MaxTime
  /\ \A s \in sets : /\ s.set \in Sets /\ s.executed \in BOOLEAN
                     /\ \A k \in Slots : s.approvals[k] \in released \cup {Empty}
  /\ \A id \in Ids : Cardinality(Opened(id)) <= 1
  /\ recorded = {[claim |-> p[1].approvals[p[2]].claim, set |-> p[1].set.id] :
                   p \in {q \in sets \X Slots : q[1].approvals[q[2]] # Empty}}

(* An executed action was approved by two released allows of two different *)
(* complete root keys, each configured exactly once with no other record   *)
(* sharing a component, and both still open at one common moment.          *)
ExecutedByTwoRoots ==
  \A n \in DOMAIN executions :
    LET e == executions[n]  a == e.state.approvals[1]  b == e.state.approvals[2]
    IN  /\ a.bundle.root # b.bundle.root
        /\ \A d \in {a, b} : /\ d.decision = "allow" /\ e.at < d.deadline
                             /\ \E i \in DOMAIN registry : /\ registry[i] = d.bundle.root
                                                           /\ Candidates(d.bundle.root) = {i}

(* Both decisions of an executed action were made for exactly this set:    *)
(* its agent, its scope and the context that names it.                     *)
ExecutedAsApproved ==
  \A n \in DOMAIN executions :
    LET s == executions[n].state
    IN  \A k \in Slots : /\ s.approvals[k].scope = s.set.scope
                         /\ s.approvals[k].bundle.context = ContextOf(s.set)

(* Released decisions are spent once: no claim fills two slots, of one set *)
(* or of two, and no set executes twice.                                   *)
CountedOnce ==
  /\ \A s, t \in sets, j, k \in Slots :
       (s.approvals[j] # Empty /\ s.approvals[j] = t.approvals[k]) => s = t /\ j = k
  /\ \A m, n \in DOMAIN executions : executions[m].state.set.id = executions[n].state.set.id => m = n

(* An executed action has two allows of two unambiguously trusted roots,   *)
(* made for exactly this action; no released decision counts twice.        *)
ExecutedOnceByTwoRoots == ExecutedByTwoRoots /\ ExecutedAsApproved /\ CountedOnce
=============================================================================
