----------------------------- MODULE CExportsV2 ------------------------------
(***************************************************************************)
(* The exported functions of the v2 C ABI (sdks/c/src/v2), each as its body *)
(* in steps: the arguments in the order they are read, the call of the Rust *)
(* core, the state it replaces and the outputs it writes, with the statuses *)
(* a step can fail with.                                                    *)
(***************************************************************************)
EXTENDS Naturals, Sequences, FiniteSets, SequencesExt

-----------------------------------------------------------------------------
(* Steps: the statuses a step can fail with, the handle or output it is on *)
(* and whether it changes state that outlives the call.                    *)
Step(does, on, fails) == [does |-> does, on |-> on, fails |-> fails]
Argument(fails) == Step("read", "none", fails)

Pointer == Argument({"NullPointer"})
Text == Argument({"NullPointer", "BadArgument"})
Json == Argument({"NullPointer", "BadArgument"})
Bytes == Argument({"NullPointer", "BadArgument"})
Wire == Argument({"NullPointer"})              \* oversize input is left to the decoder
Slice == Argument({"BadArgument"})
Code == Argument({"BadArgument"})              \* a number outside its enumeration or size
TypeCode == Argument({"Protocol"})             \* unsupported_object_type
Core == Argument({"Protocol"})
CoreOr(status) == Argument({"Protocol", status})

Handle(kind) == Step("use", kind, {"NullPointer"})
Unflagged(kind) == Step("peek", kind, {"NullPointer"})
Optional(kind) == Step("use?", kind, {})              \* NULL says there is none
Signer == Step("use?", "keypair", {"NullPointer", "BadArgument", "Protocol"})

Change == Step("change", "none", {})
MayChange == Step("may change", "none", {})

Out(kind) == Step("write", kind, {"NullPointer"})     \* NULL fails here, not earlier
OptOut(kind) == Step("may write", kind, {})           \* NULL is allowed
Some(kind) == Step("may write", kind, {})             \* the core has none to give
Clear(kind) == Step("clear", kind, {})

(* A function's own record: "nulls" are the handle outputs its comment     *)
(* states to be NULL after every call that does not hand one out.          *)
Export(steps) == [steps |-> steps, onPanic |-> "Internal", frees |-> "", nulls |-> {}]
Answer(steps) == [Export(steps) EXCEPT !.onPanic = "0"]
Free(kind) == [Export(<<>>) EXCEPT !.frees = kind]
New(kind, steps) == Export(<<Pointer>> \o steps \o <<Some(kind)>>)

-----------------------------------------------------------------------------
(* state.rs: the status reducer and the anchored security journal.         *)
ratify_v2_status_state_new == New("status_state", <<>>)
ratify_v2_status_state_free == Free("status_state")
ratify_v2_status_state_apply ==
  Export(<<Handle("status_state"), Wire, Text, Pointer, Pointer, Code, Core, Change>>)
ratify_v2_status_state_transition_epoch == Export(<<Handle("status_state"), Text, Pointer, Core, Change>>)
ratify_v2_status_state_query ==
  Export(<<Handle("status_state"), Text, Text, Pointer, Pointer, Core, Out("buffer")>>)
ratify_v2_status_state_json == Export(<<Handle("status_state"), Out("buffer")>>)

(* The journal lives behind the caller's callbacks: the load, the import   *)
(* and the compare-and-swap are the core's.                                *)
ratify_v2_journal_record_key_role == Export(<<Pointer, Text, Pointer, Core, MayChange, Core>>)
ratify_v2_journal_configure_status_key == Export(<<Pointer, Text, Pointer, Core, MayChange, Core>>)
ratify_v2_journal_apply ==
  Export(<<Pointer, Wire, Text, Pointer, Pointer, Code, Core, MayChange, Core>>)
ratify_v2_journal_status == Export(<<Pointer, Text, Text, Pointer, Pointer, Core, Out("buffer")>>)
ratify_v2_journal_genesis == Export(<<Out("number"), Out("string"), Core, Out("buffer")>>)
ratify_v2_journal_import == Export(<<Text, Wire, Core, OptOut("buffer")>>)
ratify_v2_journal_validate_transition == Export(<<Text, Wire, Core, Text, Wire, Core>>)
ratify_v2_journal_migrate == Export(<<Bytes, Core, Out("buffer"), Out("buffer")>>)
ratify_v2_journal_legacy_encode == Export(<<Bytes, Core, Out("buffer")>>)

(* The publisher keeps nothing: the next state is the last output.         *)
ratify_v2_status_publish ==
  Export(<<Pointer, Pointer, Json, Json, Code, Signer, Core, Out("list"), Out("push"), Out("state")>>)

(* state.rs: rotation journal, log heads and archival verification.        *)
(* accept takes the returned state before it looks at the result.          *)
ratify_v2_rotation_journal_new == New("rotation_journal", <<Text, Text, Pointer, Core>>)
ratify_v2_rotation_journal_free == Free("rotation_journal")
ratify_v2_rotation_journal_accept ==
  Export(<<Handle("rotation_journal"), Wire, Core, Change, Argument({"RotationRefused"}), Out("number")>>)
ratify_v2_rotation_journal_recover == Export(<<Handle("rotation_journal"), Pointer, Core, Change>>)
ratify_v2_rotation_journal_state == Export(<<Handle("rotation_journal"), Out("buffer")>>)
ratify_v2_witness_entry_append == Export(<<Wire, Core, Json, Pointer, Core, Out("number"), OptOut("buffer")>>)
ratify_v2_verification_receipt_append == ratify_v2_witness_entry_append
ratify_v2_archival_verify == Export(<<Wire, Text, Pointer, Code, Core, Out("buffer")>>)

-----------------------------------------------------------------------------
(* verifier.rs: the live path, recovery, resumption and the handoff.  The  *)
(* claim and the commit happen in the caller's store during the core step. *)
ratify_v2_verify_proof_bundle ==
  Export(<<Pointer, Pointer, Clear("committed"), Json, Wire,
           Argument({"NullPointer", "BadArgument", "Protocol"}), MayChange, Out("outcome"),
           OptOut("buffer"), Some("committed")>>)
ratify_v2_claim_proof_bundle ==
  Export(<<Pointer, Json, Wire, Core, MayChange, Core, Out("number"), Out("string")>>)
ratify_v2_recover_interrupted_claim ==
  [Export(<<Clear("committed"), Pointer, Pointer, Text, MayChange, Core, Some("committed")>>)
   EXCEPT !.nulls = {"committed"}]
ratify_v2_resume_committed_claim ==
  [Export(<<Clear("committed"), Pointer, Pointer, Text, Core, Some("committed")>>)
   EXCEPT !.nulls = {"committed"}]
ratify_v2_committed_free == Free("committed")
ratify_v2_committed_claim_id == Export(<<Handle("committed"), Out("string")>>)
ratify_v2_committed_receipt_body == Export(<<Handle("committed"), Out("buffer")>>)
ratify_v2_committed_receipt_body_digest == Export(<<Handle("committed"), Out("string")>>)
ratify_v2_committed_challenge_expires_at == Export(<<Handle("committed"), Out("number")>>)
ratify_v2_committed_allow_horizon == Export(<<Handle("committed"), Out("flag"), Out("number")>>)

(* The release record is written in the caller's store during the core     *)
(* step; the handle is given last and only for a released decision.        *)
ratify_v2_release_decision ==
  [Export(<<Clear("released"), Handle("committed"), Pointer, Text, Pointer, Pointer, Pointer, Slice,
            MayChange, Out("string"), Out("number"), Some("released")>>)
   EXCEPT !.nulls = {"released"}]
ratify_v2_release_status_str == Answer(<<>>)
ratify_v2_released_free == Free("released")
ratify_v2_released_string == Export(<<Handle("released"), Code, Out("string")>>)
ratify_v2_released_granted_scope == Export(<<Handle("released"), Out("buffer")>>)
ratify_v2_released_receipt == Export(<<Handle("released"), Out("buffer")>>)
ratify_v2_released_times ==
  Export(<<Handle("released"), OptOut("release_time"), OptOut("number"), OptOut("flag"), OptOut("horizon")>>)
ratify_v2_released_allowed == Answer(<<Handle("released"), Pointer, Core>>)

(* verifier.rs: challenge issuance and composed receipt verification.      *)
ratify_v2_issue_challenge == Export(<<Json, Pointer, Pointer, Core, MayChange, Core, Out("buffer")>>)
ratify_v2_load_expected_challenge == Export(<<Pointer, Text, Bytes, Core, Out("buffer")>>)
ratify_v2_verify_transaction_receipt == Export(<<Json, Wire, Core, Out("buffer")>>)

-----------------------------------------------------------------------------
(* keys.rs: key pairs held by the library.  The seeds are written before   *)
(* the handle, and key_id's buffer must have room for the identifier.      *)
ratify_v2_keypair_from_seeds == New("keypair", <<Pointer, Pointer, Core>>)
ratify_v2_keypair_generate ==
  New("keypair", <<Argument({"Internal", "Protocol"}), OptOut("ed seed"), OptOut("ml seed")>>)
ratify_v2_keypair_free == Free("keypair")
ratify_v2_keypair_public_key == Export(<<Handle("keypair"), Core, Out("public key")>>)
ratify_v2_keypair_key_id == Export(<<Handle("keypair"), Code, Out("identifier")>>)
ratify_v2_public_key_id == Export(<<Pointer, Core, Code, Out("identifier")>>)
ratify_v2_public_key_to_json == Export(<<Pointer, Out("string")>>)

(* objects.rs: identifiers and signatures of one object.  A NULL context   *)
(* is refused only by the kinds that need one.                             *)
ratify_v2_key_id == Export(<<Bytes, Bytes, Core, Code, Out("identifier")>>)
ratify_v2_key_id_check == Export(<<Pointer, Core>>)
verify_kind == <<Pointer, Argument({"BadArgument", "Protocol"})>>
ratify_v2_verify_object == Export(<<Wire, Text>> \o verify_kind)
ratify_v2_proof_bundle_verify_signatures == Export(<<Wire, Core, Code, OptOut("identifier")>>)
ratify_v2_verification_receipt_verify == Export(<<Wire, Core, Bytes, Bytes, Json, Core>>)
ratify_v2_receipt_bundle_binding_check == Export(<<Wire, Core, Wire, Core>>)

-----------------------------------------------------------------------------
(* codec.rs: encodings, messages and digests.                              *)
DigestOfWire == Export(<<Wire, Core, Out("buffer")>>)
DigestOfBytes == Export(<<Bytes, Core, Out("buffer")>>)
DigestOfJson == Export(<<Json, Core, Out("buffer")>>)
StringOfBytes == Export(<<Bytes, Out("string")>>)

canonicalize == <<Wire, TypeCode, Core>>
signable == <<TypeCode, Core>>
ratify_v2_object_decode == Export(canonicalize \o <<OptOut("buffer")>>)
ratify_v2_signable_bytes == Export(<<Wire>> \o signable \o <<Out("buffer")>>)
ratify_v2_signing_message == Export(<<TypeCode, Bytes, Out("buffer")>>)
ratify_v2_mldsa_context == Export(<<TypeCode, Out("buffer")>>)
ratify_v2_external_mu == Export(<<Pointer, TypeCode, Bytes, Out("buffer")>>)
ratify_v2_verify_statement == Export(<<Pointer, TypeCode, Slice, Slice, Bytes, Core>>)
ratify_v2_delegation_digest == DigestOfWire
ratify_v2_bundle_hash == Export(<<Wire, Core, Out("string")>>)
ratify_v2_challenge_claim_digest == DigestOfBytes
namespace == <<Bytes, Core>>                   \* not UTF-8: configuration_invalid
ratify_v2_claim_id == Export(namespace \o <<Bytes, Core, Out("string")>>)
ratify_v2_claim_id_from_digest == ratify_v2_claim_id
ratify_v2_status_evidence_digest == Export(<<Wire, TypeCode, Core, Out("buffer")>>)
ratify_v2_statement_body_digest == Export(<<TypeCode, Bytes, Core, Out("buffer")>>)
ratify_v2_object_body_digest == ratify_v2_status_evidence_digest
ratify_v2_revoked_set_digest == DigestOfJson
ratify_v2_receipt_outbox_digest == StringOfBytes
ratify_v2_security_journal_digest == StringOfBytes
ratify_v2_verification_receipt_body == DigestOfWire
ratify_v2_transaction_context_hash == Export(<<Text, Text, Bytes, Out("buffer")>>)
ratify_v2_transaction_party_request_hash == Export(<<Bytes, Text, Out("buffer")>>)
ratify_v2_operation_context_hash == DigestOfJson
ratify_v2_session_context == DigestOfJson
ratify_v2_payload_digest_decode ==             \* a NULL argument is an absent digest
  Export(<<Code, Core, Out("flag"), Out("buffer")>>)
ratify_v2_context_policy_digest == Export(<<Json, Core, Out("string")>>)
ratify_v2_constraint_profile_digest == Export(<<Text, Text, Core, Out("string")>>)
ratify_v2_canonical_json == DigestOfBytes
ratify_v2_validate_scopes == Export(<<Json, Core>>)
ratify_v2_validate_required_scope == Export(<<Text, Core>>)
ratify_v2_validate_request_context == Export(<<Json, Core>>)
ratify_v2_evaluate_standard_profile ==
  Export(<<Text, Json, CoreOr("BadArgument"), Out("outcome"), Out("number"), OptOut("string")>>)
ratify_v2_check_stream_sequence == Export(<<Core>>)
ratify_v2_validate_finalization_payload == Export(<<Bytes, CoreOr("BadArgument"), Bytes, Bytes, Core>>)
ratify_v2_cross_sdk_fixture_verify == Export(<<Bytes, Text, Core>>)

(* Predicates: anything that cannot be read is answered with 0.            *)
ratify_v2_challenge_time_current == Answer(<<Code, Core>>)
ratify_v2_valid_release_record_outcome == Answer(<<Pointer, Text, Core>>)
ratify_v2_valid_evaluation_progress == Answer(<<Bytes, Core>>)
view_fields_match == <<Text, Slice, Core, Pointer, Slice, Text>>
ratify_v2_claim_id_matches_key == Answer(<<Pointer, Text, Text, Slice, Core>> \o view_fields_match)

-----------------------------------------------------------------------------
(* sign.rs: the object with a placeholder signature is decoded, the signer *)
(* slot holds exactly one of a key pair and an external signer, and the    *)
(* signed object is encoded last.                                          *)
signing_input == <<Json, CoreOr("BadArgument")>>
with_signer == <<Signer, Core>>
with_two_signers == <<Signer, Signer, Core>>
Signs(arguments) == Export(signing_input \o arguments \o with_signer \o <<Out("buffer")>>)
ratify_v2_sign_delegation_certificate == Signs(<<>>)
ratify_v2_sign_proof_bundle == Signs(<<>>)
ratify_v2_sign_revocation_list == Signs(<<Text, Pointer>>)
ratify_v2_sign_revocation_push == Signs(<<Text, Pointer>>)
ratify_v2_sign_key_rotation_statement ==
  Export(signing_input \o with_two_signers \o <<Out("buffer")>>)
ratify_v2_sign_witness_entry == Signs(<<>>)
ratify_v2_sign_verification_receipt == Signs(<<>>)
ratify_v2_sign_prepared_verification_receipt ==
  Export(<<Bytes, Json>> \o with_signer \o <<Out("buffer")>>)
transaction_template == CoreOr("BadArgument")
ratify_v2_sign_transaction_receipt_party ==
  Export(<<Json, transaction_template, Text>> \o with_signer \o <<Core, Out("buffer")>>)

-----------------------------------------------------------------------------
(* reference.rs: the reference stores, the device and the approval ledger, *)
(* and the callback records that connect them to the verifier.             *)
ratify_v2_ref_store_new ==
  Export(<<Unflagged("keypair"), Pointer, Text, Core, Some("store")>>)
ratify_v2_ref_store_free == Free("store")
ratify_v2_ref_store_clone == Export(<<Handle("store"), Pointer, Some("store")>>)
ratify_v2_ref_store_control == Export(<<Handle("store"), Code, Change>>)
ratify_v2_ref_store_time == Export(<<Handle("store"), Out("number")>>)
ratify_v2_ref_store_tamper == Export(<<Handle("store"), Text, Change>>)
ratify_v2_ref_store_abandon == Export(<<Handle("store"), Change, Out("buffer")>>)
ratify_v2_ref_store_publish ==
  Export(<<Handle("store"), Text, Bytes, CoreOr("StoreUnavailable"), MayChange, Out("buffer")>>)
ratify_v2_ref_store_callbacks == Export(<<Handle("store"), MayChange, OptOut("callbacks")>>)
ratify_v2_ref_store_committed_callbacks == Export(<<Handle("store"), Out("callbacks")>>)
ratify_v2_ref_journal_new == New("journal", <<Core>>)
ratify_v2_ref_journal_free == Free("journal")
ratify_v2_ref_journal_callbacks ==
  Export(<<Handle("journal"), OptOut("callbacks"), OptOut("generation"), OptOut("digest")>>)
ratify_v2_ref_trust_registry_new ==
  New("trust_registry", <<Argument({"NullPointer", "BadArgument", "Protocol"})>>)
ratify_v2_ref_trust_registry_free == Free("trust_registry")
ratify_v2_ref_trust_registry_callbacks == Export(<<Handle("trust_registry"), Out("callbacks")>>)
ratify_v2_ref_issuance_new == New("issuance", <<>>)
ratify_v2_ref_issuance_free == Free("issuance")
ratify_v2_ref_issuance_control ==
  Export(<<Handle("issuance"), Code, Change, OptOut("callbacks"), OptOut("number")>>)

(* The device's parts: a restore takes them from the device, and only a    *)
(* successful binding puts them back.                                      *)
Bound == Step("with", "device", {"BadArgument"})
TakeParts == Step("take", "device", {"BadArgument"})
bind_device == <<Core, Step("bind", "device", {})>>
ratify_v2_ref_device_new == Export(<<Handle("store"), Pointer, Bytes, Core, Some("device")>>)
ratify_v2_ref_device_free == Free("device")
ratify_v2_ref_primary_free == Free("primary")
ratify_v2_ref_device_callbacks == Export(<<Handle("device"), OptOut("callbacks")>>)
ratify_v2_ref_device_op ==
  Export(<<Handle("device"), Bound, Code, MayChange, OptOut("json"), OptOut("value"), OptOut("name")>>)
ratify_v2_ref_device_snapshot == Export(<<Handle("device"), Pointer, Bound, Some("primary")>>)
ratify_v2_ref_device_restore ==
  Export(<<Handle("device"), Handle("primary"), Pointer, TakeParts>> \o bind_device \o <<Some("store")>>)
ratify_v2_ref_device_state_projection == DigestOfBytes

ratify_v2_ref_ledger_new == New("ledger", <<>>)
ratify_v2_ref_ledger_free == Free("ledger")
ratify_v2_ref_ledger_open == Export(<<Handle("ledger"), Json, Code, Change, Out("name")>>)
ratify_v2_ref_ledger_record ==
  Export(<<Handle("ledger"), Optional("released"), Text, Bytes, MayChange, Out("number"), Out("name")>>)
ratify_v2_ref_ledger_execute == Export(<<Handle("ledger"), Pointer, Text, MayChange, Out("name")>>)

-----------------------------------------------------------------------------
(* mod.rs: constants and diagnostics that cannot fail, and the frees of    *)
(* what the library allocates, which the caller owns outright.             *)
ratify_v2_abi_version == Answer(<<>>)
ratify_v2_protocol_version == Answer(<<>>)
ratify_v2_library_version == Answer(<<>>)
ratify_v2_tzdb_version == Answer(<<>>)
ratify_v2_error_class_str == Answer(<<>>)
ratify_v2_last_error_message == Answer(<<>>)
ratify_v2_buffer_free == Free("buffer")
ratify_v2_string_free == Free("string")

=============================================================================
