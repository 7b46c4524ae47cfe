------------------------------- MODULE CAbiV2 -------------------------------
(***************************************************************************)
(* The v2 C ABI (sdks/c/src/v2): the effects of one call, and the opaque    *)
(* handles that a sequence of calls shares.  Any step of an exported        *)
(* function (CExportsV2) may fail with the statuses it has, or panic, and   *)
(* what earlier steps did stays done: the guard (run_h) undoes nothing on   *)
(* an error, and on a panic clears the outputs and poisons the handles.     *)
(***************************************************************************)
EXTENDS CExportsV2

VARIABLES family,    \* which of Families the caller works with
          held,      \* the caller's variable of each kind of handle
          reply      \* what the last call did, or NoReply

abiVars == <<family, held, reply>>

HandleKinds ==
  {"keypair", "status_state", "rotation_journal", "committed", "released", "store", "trust_registry",
   "journal", "issuance", "device", "primary", "ledger"}

-----------------------------------------------------------------------------
ModExports ==
  {ratify_v2_abi_version, ratify_v2_protocol_version, ratify_v2_library_version, ratify_v2_tzdb_version,
   ratify_v2_error_class_str, ratify_v2_last_error_message, ratify_v2_buffer_free, ratify_v2_string_free}

(* What one caller works with: exports that share handles go together.     *)
StateExports ==
  {ratify_v2_status_state_new, ratify_v2_status_state_free, ratify_v2_status_state_apply,
   ratify_v2_status_state_transition_epoch, ratify_v2_status_state_query, ratify_v2_status_state_json,
   ratify_v2_status_publish, ratify_v2_rotation_journal_new, ratify_v2_rotation_journal_free,
   ratify_v2_rotation_journal_accept, ratify_v2_rotation_journal_recover, ratify_v2_rotation_journal_state}
JournalExports ==
  {ratify_v2_journal_record_key_role, ratify_v2_journal_configure_status_key, ratify_v2_journal_apply,
   ratify_v2_journal_status, ratify_v2_journal_genesis, ratify_v2_journal_import,
   ratify_v2_journal_validate_transition, ratify_v2_journal_migrate, ratify_v2_journal_legacy_encode,
   ratify_v2_witness_entry_append, ratify_v2_verification_receipt_append, ratify_v2_archival_verify,
   ratify_v2_ref_journal_new, ratify_v2_ref_journal_free, ratify_v2_ref_journal_callbacks,
   ratify_v2_ref_trust_registry_new, ratify_v2_ref_trust_registry_free,
   ratify_v2_ref_trust_registry_callbacks, ratify_v2_ref_issuance_new, ratify_v2_ref_issuance_free,
   ratify_v2_ref_issuance_control}
VerifierExports ==
  {ratify_v2_verify_proof_bundle, ratify_v2_claim_proof_bundle, ratify_v2_recover_interrupted_claim,
   ratify_v2_resume_committed_claim, ratify_v2_committed_free, ratify_v2_committed_claim_id,
   ratify_v2_committed_receipt_body, ratify_v2_committed_receipt_body_digest,
   ratify_v2_committed_challenge_expires_at, ratify_v2_committed_allow_horizon,
   ratify_v2_release_decision, ratify_v2_release_status_str, ratify_v2_released_free,
   ratify_v2_released_string, ratify_v2_released_granted_scope, ratify_v2_released_receipt,
   ratify_v2_released_times, ratify_v2_released_allowed, ratify_v2_issue_challenge,
   ratify_v2_load_expected_challenge, ratify_v2_verify_transaction_receipt}
KeyExports ==
  {ratify_v2_keypair_from_seeds, ratify_v2_keypair_generate, ratify_v2_keypair_free,
   ratify_v2_keypair_public_key, ratify_v2_keypair_key_id, ratify_v2_public_key_id,
   ratify_v2_public_key_to_json, ratify_v2_key_id, ratify_v2_key_id_check, ratify_v2_verify_object,
   ratify_v2_proof_bundle_verify_signatures, ratify_v2_verification_receipt_verify,
   ratify_v2_receipt_bundle_binding_check, ratify_v2_sign_delegation_certificate,
   ratify_v2_sign_proof_bundle, ratify_v2_sign_revocation_list, ratify_v2_sign_revocation_push,
   ratify_v2_sign_key_rotation_statement, ratify_v2_sign_witness_entry,
   ratify_v2_sign_verification_receipt, ratify_v2_sign_prepared_verification_receipt,
   ratify_v2_sign_transaction_receipt_party}
CodecExports ==
  {ratify_v2_object_decode, ratify_v2_signable_bytes, ratify_v2_signing_message, ratify_v2_mldsa_context,
   ratify_v2_external_mu, ratify_v2_verify_statement, ratify_v2_delegation_digest, ratify_v2_bundle_hash,
   ratify_v2_challenge_claim_digest, ratify_v2_claim_id, ratify_v2_claim_id_from_digest,
   ratify_v2_status_evidence_digest, ratify_v2_statement_body_digest, ratify_v2_object_body_digest,
   ratify_v2_revoked_set_digest, ratify_v2_receipt_outbox_digest, ratify_v2_security_journal_digest,
   ratify_v2_verification_receipt_body, ratify_v2_transaction_context_hash,
   ratify_v2_transaction_party_request_hash, ratify_v2_operation_context_hash, ratify_v2_session_context,
   ratify_v2_payload_digest_decode, ratify_v2_context_policy_digest, ratify_v2_constraint_profile_digest,
   ratify_v2_canonical_json, ratify_v2_validate_scopes, ratify_v2_validate_required_scope,
   ratify_v2_validate_request_context, ratify_v2_evaluate_standard_profile,
   ratify_v2_check_stream_sequence, ratify_v2_validate_finalization_payload,
   ratify_v2_cross_sdk_fixture_verify, ratify_v2_challenge_time_current,
   ratify_v2_valid_release_record_outcome, ratify_v2_valid_evaluation_progress,
   ratify_v2_claim_id_matches_key}
StoreExports ==
  {ratify_v2_keypair_generate, ratify_v2_keypair_free, ratify_v2_ref_store_new, ratify_v2_ref_store_free,
   ratify_v2_ref_store_clone, ratify_v2_ref_store_control, ratify_v2_ref_store_time,
   ratify_v2_ref_store_tamper, ratify_v2_ref_store_abandon, ratify_v2_ref_store_publish,
   ratify_v2_ref_store_callbacks, ratify_v2_ref_store_committed_callbacks}
DeviceExports ==
  {ratify_v2_keypair_generate, ratify_v2_keypair_free, ratify_v2_ref_store_new, ratify_v2_ref_store_free,
   ratify_v2_ref_device_new, ratify_v2_ref_device_free, ratify_v2_ref_primary_free,
   ratify_v2_ref_device_callbacks, ratify_v2_ref_device_op, ratify_v2_ref_device_snapshot,
   ratify_v2_ref_device_restore, ratify_v2_ref_device_state_projection}
LedgerExports ==
  {ratify_v2_ref_ledger_new, ratify_v2_ref_ledger_free, ratify_v2_ref_ledger_open,
   ratify_v2_ref_ledger_record, ratify_v2_ref_ledger_execute, ratify_v2_verify_proof_bundle,
   ratify_v2_committed_free, ratify_v2_release_decision, ratify_v2_released_free}
Families ==
  <<StateExports, JournalExports, VerifierExports, KeyExports, CodecExports \cup ModExports, StoreExports,
    DeviceExports, LedgerExports>>

-----------------------------------------------------------------------------
(* One call.  The caller passes its handle variables, or NULL, and may     *)
(* spoil any argument; the core may refuse or panic.                       *)
On(f, does) == {f.steps[i].on : i \in {j \in DOMAIN f.steps : f.steps[j].does \in does}}
Gives(f) == On(f, {"write", "may write"}) \cap HandleKinds

NoReply == [status |-> "none", panicked |-> FALSE, used |-> {}, handed |-> {}, nulls |-> {}, changed |-> FALSE]

(* The steps before n have taken effect.                                   *)
Affect(h, s, gives) ==
  CASE s.does = "clear" -> [h EXCEPT ![s.on] = "null"]
    [] s.does \in {"write", "may write"} /\ s.on \in gives -> [h EXCEPT ![s.on] = "live"]
    [] s.does = "take" -> [h EXCEPT ![s.on] = "unbound"]
    [] s.does = "bind" -> [h EXCEPT ![s.on] = "live"]
    [] OTHER -> h
After(f, n, gives) == FoldLeft(LAMBDA h, s : Affect(h, s, gives), held, SubSeq(f.steps, 1, n - 1))
Handed(f, n, gives) == {k \in gives : \E i \in 1..(n - 1) : f.steps[i].on = k /\ f.steps[i].does \in {"write", "may write"}}
Changed(f, n) == \E i \in 1..(n - 1) : f.steps[i].does \in {"change", "may change", "take"}

(* handle refuses NULL, RatifyV2RefDevice::with a device without parts;    *)
(* any other argument may be sound or spoiled.                             *)
Passes(s) ==
  CASE s.does \in {"use", "peek"} -> held[s.on] # "null"
    [] s.does \in {"with", "take"} -> held[s.on] # "unbound"
    [] OTHER -> TRUE
Refuses(s) == s.does \in {"with", "take"} => held[s.on] = "unbound"
Reaches(f, n) == \A i \in 1..(n - 1) : Passes(f.steps[i])

Reply(f, n, status, panicked, used, gives) ==
  [status |-> status, panicked |-> panicked, used |-> {<<k, held[k]>> : k \in used}, nulls |-> f.nulls,
   handed |-> IF panicked THEN {} ELSE Handed(f, n, gives), changed |-> Changed(f, n)]

(* run_h and run_value: a poisoned handle fails the call before its body.  *)
run_h(f, used) ==
  /\ \E k \in used : held[k] = "poisoned"
  /\ reply' = Reply(f, 1, f.onPanic, FALSE, used, {})
  /\ UNCHANGED held

(* Step n returns an error: it is reported, and nothing is undone.         *)
Fail(f, n, status, used, gives) ==
  /\ status \in f.steps[n].fails /\ Refuses(f.steps[n])
  /\ held' = After(f, n, gives)
  /\ reply' = Reply(f, n, IF f.onPanic = "0" THEN "0" ELSE status, FALSE, used, gives)

(* A caught panic poisons the handles in use and clears the outputs.       *)
ffi_guard(f, n, used, gives) ==
  /\ held' = [k \in HandleKinds |->
                 IF k \in used /\ held[k] # "null" THEN "poisoned"
                 ELSE IF k \in Gives(f) THEN "null" ELSE After(f, n, gives)[k]]
  /\ reply' = Reply(f, n, f.onPanic, TRUE, used, gives)

Complete(f, used, gives) ==
  /\ held' = After(f, Len(f.steps) + 1, gives)
  /\ reply' = Reply(f, Len(f.steps) + 1, "Ok", FALSE, used, gives)

Call(f) ==
  /\ f.frees = "" /\ reply = NoReply
  /\ \E used \in {On(f, {"use"}) \cup o : o \in SUBSET {k \in On(f, {"use?"}) : held[k] # "null"}},
        gives \in SUBSET Gives(f) :
       \/ run_h(f, used)
       \/ /\ \A k \in used : held[k] # "poisoned"
          /\ \E n \in {m \in 1..(Len(f.steps) + 1) : Reaches(f, m)} :
               IF n > Len(f.steps) THEN Complete(f, used, gives)
               ELSE \/ \E status \in f.steps[n].fails : Fail(f, n, status, used, gives)
                    \/ ffi_guard(f, n, used, gives)

(* A *_free function consumes a handle, poisoned or not.                   *)
Release(f) ==
  /\ f.frees \in HandleKinds /\ held[f.frees] # "null" /\ reply = NoReply
  /\ held' = [held EXCEPT ![f.frees] = "null"]
  /\ UNCHANGED reply

(* The caller looks at the reply and goes on.                              *)
GoOn == reply # NoReply /\ reply' = NoReply /\ UNCHANGED held

Init == family \in DOMAIN Families /\ held = [k \in HandleKinds |-> "null"] /\ reply = NoReply
Next == /\ UNCHANGED family
        /\ GoOn \/ \E f \in Families[family] : Call(f) \/ Release(f)
Spec == Init /\ [][Next]_abiVars

-----------------------------------------------------------------------------
(* A handle that a panic poisoned takes no part in a call that answers     *)
(* (SPEC-v2 1.3), and a panic leaves every handle the call used poisoned.  *)
PoisonContained ==
  /\ reply.status = "Ok" => \A u \in reply.used : u[2] \notin {"null", "poisoned"}
  /\ reply.panicked => \A u \in reply.used : u[2] # "null" => held[u[1]] = "poisoned"

(* A caller receives a handle only from a call that answers Ok: one that   *)
(* fails late, in an output or in the core, has not given it yet.          *)
HandlesEarned == reply.status # "Ok" => reply.handed = {}

(* A call refused for a bad argument has changed nothing: every argument   *)
(* is read before the state is replaced or a store is called.              *)
RefusedUnchanged == reply.status = "BadArgument" => ~reply.changed

(* recover_interrupted_claim and resume_committed_claim leave the caller's *)
(* committed handle NULL whenever they do not hand one out.                *)
CommittedNull ==
  reply.status # "Ok" /\ "committed" \in reply.nulls => held["committed"] = "null"

AbiSound == PoisonContained /\ HandlesEarned /\ RefusedUnchanged /\ CommittedNull

(* The comment of ratify_v2_release_decision: *released_out "is set to     *)
(* NULL on entry, so it is NULL after every call that does not release".   *)
ReleasedNull ==
  "released" \in reply.nulls /\ "released" \notin reply.handed => held["released"] = "null"
=============================================================================
