------------------------------ MODULE CExports -------------------------------
(***************************************************************************)
(* The exported functions of the v1 C ABI (sdks/c/src: lib.rs,              *)
(* advanced.rs), each as a contract: its arguments, the checks of its body  *)
(* in their order with the status each one returns, the status of a refusal *)
(* by the Rust core, and what it hands out, answers or frees.               *)
(***************************************************************************)
EXTENDS Naturals, Sequences, FiniteSets, SequencesExt

(* Argument types, and how a caller spoils one.  A handle argument has the *)
(* kind of the handle as its type.                                         *)
Faults(type) ==
  CASE type = "text"    -> {"null", "utf8"}
    [] type = "json"    -> {"null", "utf8", "syntax"}
    [] type = "bundle"  -> {"null", "utf8", "oversize", "deep", "syntax"}
    [] type = "buffer"  -> {"null", "length"}
    [] type = "text?"   -> {"utf8"}
    [] type = "buffer?" -> {"length"}
    [] type = "span?"   -> {"length", "absent"}     \* absent: NULL with a length
    [] type = "label"   -> {"null", "utf8", "length"}
    [] type = "number"  -> {"range"}
    [] OTHER            -> {"null"}

Values == {"text", "json", "bundle", "buffer", "text?", "buffer?", "span?", "label", "number", "pointer"}
HandleArgs(f) == {a \in DOMAIN f.args : f.args[a] \notin Values}

Check(on, faults, status) == [on |-> on, faults |-> faults, status |-> status, told |-> TRUE]
Null(on) == Check(on, {"null"}, "NullPointer")
NullUntold(on) == [Null(on) EXCEPT !.told = FALSE]
Text(a, status) == Check({a}, {"null", "utf8"}, status)
Utf8(on) == Check(on, {"utf8"}, "Encoding")
JsonText(on) == Check(on, {"null", "utf8", "syntax"}, "Json")
Sized(on) == Check(on, {"length"}, "BadArgument")
Buffer(a) == Check({a}, {"null", "length"}, "BadArgument")

(* optional_32 and exact_buf of an absent buffer; NULL with a length.      *)
Optional32(on) == Check(on, {"absent", "length"}, "BadArgument")
SpanOption(on) == <<Sized(on), Check(on, {"absent"}, "NullPointer")>>

-----------------------------------------------------------------------------
(* The shapes of exported functions.  "fails" is the status of a refusal   *)
(* by the core; "makes" lists the outputs written, in order, on success.   *)
Function ==
  [returns |-> "status", args |-> [a \in {} |-> "text"], absent |-> {}, checks |-> <<>>, fails |-> "none",
   makes |-> <<>>, judges |-> "nothing", asks |-> FALSE, tells |-> TRUE, clears |-> FALSE,
   frees |-> "none", onPanic |-> "Internal"]
Status(args, checks, fails, makes) ==
  [Function EXCEPT !.args = args, !.checks = checks, !.fails = fails, !.makes = makes]
Pointer(args, checks, makes) ==
  [Status(args, checks, "NULL", makes) EXCEPT !.returns = "ptr", !.onPanic = "NULL"]
Query(args, checks, judges, onPanic) ==
  [Status(args, checks, "0", <<>>) EXCEPT
     !.returns = "int", !.judges = judges, !.tells = FALSE, !.onPanic = onPanic]
Untold(f) == [f EXCEPT !.tells = FALSE]
Infallible(f) == [f EXCEPT !.fails = "none"]
Judging(f, how) == [f EXCEPT !.judges = how]

Free(kind) == [Status([handle |-> kind], <<>>, "none", <<>>) EXCEPT
                 !.returns = "void", !.frees = kind, !.absent = {"handle"}, !.tells = FALSE]
ToJson(kind) == Pointer([handle |-> kind], <<Null({"handle"})>>, <<"string">>)
FieldOf(kind) == Untold(Infallible(ToJson(kind)))
FromJson(kind) == Status([json |-> "json", out |-> "pointer"],
                         <<Null({"out"}), JsonText({"json"})>>, "none", <<kind>>)
HexOfJson == Infallible(Pointer([json |-> "json"], <<JsonText({"json"})>>, <<"string">>))
Hash(kind) == Status([handle |-> kind, out_32 |-> "pointer"], <<Null({"handle", "out_32"})>>,
                     "Crypto", <<"bytes">>)
SignedBy(kind) ==          \* statement and public key, both JSON
  Judging(Status([statement |-> kind, public_key |-> "json"],
                 <<Null({"statement", "public_key"}), JsonText({"statement"}),
                   JsonText({"public_key"})>>, "Crypto", <<>>), "status")

-----------------------------------------------------------------------------
(* lib.rs: identities, certificates, bundles.                              *)
ratify_human_root_generate == Untold(Status([out |-> "pointer"], <<Null({"out"})>>, "none", <<"human_root">>))
ratify_human_root_free == Free("human_root")
ratify_human_root_to_json == ToJson("human_root")
ratify_human_root_id == FieldOf("human_root")
ratify_human_root_pub_key_json == ToJson("human_root")
ratify_agent_generate ==
  Untold(Status([name |-> "text", agent_type |-> "text", out |-> "pointer"],
                <<Null({"name", "agent_type", "out"}), Utf8({"name"}), Utf8({"agent_type"})>>,
                "BadArgument", <<"agent">>))
ratify_agent_free == Free("agent")
ratify_agent_id == FieldOf("agent")
ratify_delegation_issue ==
  Status([issuer |-> "human_root", subject |-> "agent", scopes_json |-> "json", out |-> "pointer"],
         <<Null({"issuer", "subject", "scopes_json", "out"}), JsonText({"scopes_json"})>>,
         "BadArgument", <<"delegation_cert">>)
ratify_delegation_cert_to_json == ToJson("delegation_cert")
ratify_delegation_cert_free == Free("delegation_cert")
ratify_challenge_generate ==
  Untold(Status([buf |-> "buffer"], <<Null({"buf"}), Sized({"buf"})>>, "Crypto", <<"bytes">>))
ratify_proof_bundle_create ==
  Status([agent |-> "agent", cert_json |-> "json", challenge |-> "buffer", out |-> "pointer"],
         <<Null({"agent", "cert_json", "challenge", "out"}), Sized({"challenge"}),
           JsonText({"cert_json"})>>, "none", <<"proof_bundle">>)
ratify_proof_bundle_create_with_context ==
  Status([agent |-> "agent", cert_json |-> "json", challenge |-> "buffer",
          session_context |-> "buffer", out |-> "pointer"],
         <<Null({"agent", "cert_json", "challenge", "session_context", "out"}),
           Sized({"challenge", "session_context"}), JsonText({"cert_json"})>>,
         "none", <<"proof_bundle">>)
ratify_proof_bundle_to_json == ToJson("proof_bundle")
ratify_proof_bundle_free == Free("proof_bundle")

(* lib.rs: verification.  An oversized or too deeply nested bundle is an   *)
(* answer, not an error: the result is invalid.                            *)
checked_build_opts ==
  SpanOption({"session_context"}) \o SpanOption({"stream_id"}) \o <<Utf8({"required_scope"})>>
OptionArgs == [session_context |-> "span?", stream_id |-> "span?", required_scope |-> "text?"]
Verifies(args, checks) ==
  [Status(args, checks, "none", <<"verify_result">>) EXCEPT !.judges = "result"]
ratify_verify_bundle_opts_v2 ==
  [Verifies(OptionArgs @@ [bundle_json |-> "bundle", resource_id |-> "text?",
                           path |-> "text?", out |-> "pointer"],
            <<Null({"bundle_json", "out"})>> \o checked_build_opts
            \o <<Utf8({"resource_id"}), Utf8({"path"}), Text("bundle_json", "Json"),
                 Check({"bundle_json"}, {"oversize"}, "Invalid"),
                 Check({"bundle_json"}, {"deep"}, "Invalid"), JsonText({"bundle_json"})>>)
   EXCEPT !.asks = TRUE]
ratify_verify_bundle_opts ==
  [ratify_verify_bundle_opts_v2 EXCEPT !.args = OptionArgs @@ [bundle_json |-> "bundle", out |-> "pointer"]]
ratify_verify_bundle ==
  [ratify_verify_bundle_opts EXCEPT
     !.args = [bundle_json |-> "bundle", required_scope |-> "text?", out |-> "pointer"],
     !.checks = <<Utf8({"required_scope"})>> \o @, !.asks = FALSE]
ratify_verify_result_is_valid ==
  Query([handle |-> "verify_result"], <<Null({"handle"})>>, "verdict", "0")
ratify_verify_result_identity_status == FieldOf("verify_result")
ratify_verify_result_human_id == FieldOf("verify_result")
ratify_verify_result_agent_id == FieldOf("verify_result")
ratify_verify_result_error_reason == FieldOf("verify_result")
ratify_verify_result_free == Free("verify_result")
ratify_string_free == Free("string")
ratify_error_free == Free("error")

-----------------------------------------------------------------------------
(* advanced.rs: session tokens and receipts.                               *)
ratify_session_token_issue ==
  Status([bundle |-> "proof_bundle", result |-> "verify_result", session_id |-> "text",
          session_secret |-> "buffer", out |-> "pointer"],
         <<Null({"bundle", "result", "out"}), Text("session_id", "Encoding"),
           Buffer("session_secret")>>, "Crypto", <<"session_token">>)
ratify_session_token_verify ==
  Judging(Status([token_json |-> "json", session_secret |-> "buffer"],
                 <<Null({"token_json"}), JsonText({"token_json"}), Buffer("session_secret")>>,
                 "Crypto", <<>>), "status")
ratify_session_token_to_json == ToJson("session_token")
ratify_session_token_from_json == FromJson("session_token")
ratify_session_token_free == Free("session_token")
ratify_receipt_issue ==
  Status([bundle |-> "proof_bundle", result |-> "verify_result", verifier |-> "human_root",
          prev_hash |-> "buffer?", out |-> "pointer"],
         <<Null({"bundle", "result", "verifier", "out"}), Sized({"prev_hash"})>>,
         "Crypto", <<"receipt">>)
ratify_receipt_verify ==
  Judging(Status([receipt_json |-> "json"], <<Null({"receipt_json"}), JsonText({"receipt_json"})>>,
                 "Crypto", <<>>), "status")
ratify_bundle_hash == Hash("proof_bundle")
ratify_receipt_hash == Hash("receipt")
ratify_receipt_to_json == ToJson("receipt")
ratify_receipt_from_json ==          \* check_receipt_structure may refuse what parses
  [FromJson("receipt") EXCEPT !.fails = "Json"]
ratify_receipt_free == Free("receipt")

(* advanced.rs: revocation, witness entries, key rotation.                 *)
SignsList(kind) ==
  Status([issuer |-> "human_root", entries_json |-> "json", out |-> "pointer"],
         <<Null({"issuer", "out"}), JsonText({"entries_json"})>>, "none", <<kind>>)
ratify_revocation_list_issue == SignsList("revocation_list")
ratify_revocation_list_verify == SignedBy("json")
ratify_revocation_list_contains ==
  Query([handle |-> "revocation_list", cert_id |-> "text"],
        <<Null({"handle", "cert_id"}), Utf8({"cert_id"})>>, "absence", "1")
ratify_revocation_list_to_json == ToJson("revocation_list")
ratify_revocation_list_from_json == FromJson("revocation_list")
ratify_revocation_list_free == Free("revocation_list")
ratify_revocation_push_issue == SignsList("revocation_push")
ratify_revocation_push_verify == SignedBy("json")
ratify_revocation_push_to_json == ToJson("revocation_push")
ratify_revocation_push_from_json == FromJson("revocation_push")
ratify_revocation_push_free == Free("revocation_push")
ratify_witness_entry_issue ==
  Status([witness |-> "human_root", entry_data |-> "buffer", prev_hash |-> "buffer?", out |-> "pointer"],
         <<Null({"witness", "entry_data", "out"}), Sized({"entry_data"}), Sized({"prev_hash"})>>,
         "none", <<"witness_entry">>)
ratify_witness_entry_verify == SignedBy("json")
ratify_witness_entry_to_json == ToJson("witness_entry")
ratify_witness_entry_from_json == FromJson("witness_entry")
ratify_witness_entry_free == Free("witness_entry")
ratify_key_rotation_issue ==
  Status([old_root |-> "human_root", new_root |-> "human_root", reason |-> "text", out |-> "pointer"],
         <<Null({"old_root", "new_root", "out"}), Text("reason", "Encoding")>>,
         "none", <<"key_rotation">>)
ratify_key_rotation_verify ==
  Judging(Status([stmt_json |-> "json"], <<Null({"stmt_json"}), JsonText({"stmt_json"})>>,
                 "Crypto", <<>>), "status")
ratify_key_rotation_to_json == ToJson("key_rotation")
ratify_key_rotation_from_json == FromJson("key_rotation")
ratify_key_rotation_free == Free("key_rotation")

(* advanced.rs: scopes.  ratify_scopes_validate answers NULL for "valid"   *)
(* and a fresh string for everything else.                                 *)
ratify_scope_has ==
  Query([granted_json |-> "json", required |-> "text"],
        <<Null({"granted_json", "required"}), Utf8({"granted_json"}), Utf8({"required"}),
          JsonText({"granted_json"})>>, "answer", "0")
ratify_scope_is_sensitive ==
  Query([scope |-> "text"], <<Null({"scope"}), Utf8({"scope"})>>, "absence", "1")
ratify_scopes_expand == Pointer([scopes_json |-> "json"], <<JsonText({"scopes_json"})>>, <<"string">>)
ratify_scopes_intersect ==
  Pointer([arrays |-> "buffer", array |-> "json"],
          <<Null({"arrays"}), Sized({"arrays"}), JsonText({"array"})>>, <<"string">>)
ratify_scopes_validate ==
  [Pointer([scopes_json |-> "json"], <<JsonText({"scopes_json"})>>, <<>>) EXCEPT
     !.judges = "objection", !.tells = FALSE]
ratify_scope_vocabulary == Untold(Pointer([a \in {} |-> "text"], <<>>, <<"string">>))

-----------------------------------------------------------------------------
(* advanced.rs: policy verdicts and transactions.                          *)
ratify_policy_verdict_issue ==
  Status([verdict_id |-> "text", agent_id |-> "text", scope |-> "text", context_hash |-> "buffer",
          policy_secret |-> "buffer", out |-> "pointer"],
         <<Null({"out"}), Text("verdict_id", "Encoding"), Text("agent_id", "Encoding"),
           Text("scope", "Encoding"), Null({"context_hash"}), Sized({"context_hash"}),
           Buffer("policy_secret")>>, "Crypto", <<"policy_verdict">>)
ratify_policy_verdict_verify ==
  Judging(Status([verdict_json |-> "json", agent_id |-> "text", scope |-> "text",
                  policy_secret |-> "buffer", context_hash |-> "buffer"],
                 <<Text("verdict_json", "Json"), Text("agent_id", "Encoding"),
                   Text("scope", "Encoding"), JsonText({"verdict_json"}), Buffer("policy_secret"),
                   Null({"context_hash"}), Sized({"context_hash"})>>, "Crypto", <<>>), "status")
ratify_policy_verdict_to_json == ToJson("policy_verdict")
ratify_policy_verdict_from_json == FromJson("policy_verdict")
ratify_policy_verdict_free == Free("policy_verdict")
ratify_transaction_receipt_verify ==
  Judging(Status([receipt_json |-> "json"], <<Null({"receipt_json"}), JsonText({"receipt_json"})>>,
                 "Crypto", <<>>), "status")
ratify_transaction_receipt_sign_party ==
  Pointer([receipt_json |-> "json", party_id |-> "text", agent |-> "agent"],
          <<Null({"agent"}), Text("receipt_json", "NULL"), Text("party_id", "NULL"),
            JsonText({"receipt_json"})>>, <<"string">>)
ratify_transaction_receipt_from_json == FromJson("transaction_receipt")
ratify_transaction_receipt_to_json == ToJson("transaction_receipt")
ratify_transaction_receipt_free == Free("transaction_receipt")
ratify_transaction_receipt_verify_full ==
  Judging(Status([receipt_json |-> "json", valid_out |-> "pointer"],
                 <<Null({"valid_out"}), JsonText({"receipt_json"})>>, "none", <<"flag">>), "explained flag")

(* advanced.rs: hashes and signed bytes.                                   *)
ratify_chain_hash == [Hash("proof_bundle") EXCEPT !.fails = "Internal"]
ratify_verifier_context_hash ==
  Status([ctx |-> "pointer", out_32 |-> "pointer"], <<Null({"ctx", "out_32"})>>, "Crypto", <<"bytes">>)
ratify_revocation_list_sign_bytes_hex == HexOfJson
ratify_revocation_push_sign_bytes_hex == HexOfJson
ratify_revocation_push_sig_ed25519_hex == HexOfJson
ratify_revocation_push_sig_ml_dsa_65_hex == HexOfJson
ratify_key_rotation_sign_bytes_hex == HexOfJson
ratify_session_token_sign_bytes_hex == HexOfJson
ratify_session_token_mac_hex == HexOfJson
ratify_transaction_receipt_sign_bytes_hex == HexOfJson
ratify_witness_entry_sign_bytes_hex == HexOfJson
ratify_witness_entry_sig_ed25519_hex == HexOfJson
ratify_witness_entry_sig_ml_dsa_65_hex == HexOfJson
ratify_delegation_sign_bytes_hex == HexOfJson
ratify_derive_id == HexOfJson
ratify_derive_key_id_v2 == [HexOfJson EXCEPT !.fails = "NULL"]
ratify_canonical_json == [HexOfJson EXCEPT !.fails = "NULL"]
ratify_challenge_sign_bytes_hex ==
  Infallible(Pointer([challenge |-> "buffer", session_context |-> "span?", stream_id |-> "span?"],
                     <<Null({"challenge"}), Sized({"challenge"}), Optional32({"session_context"}),
                       Optional32({"stream_id"})>>, <<"string">>))
ratify_agent_sign_challenge ==
  Pointer([agent |-> "agent"] @@ ratify_challenge_sign_bytes_hex.args,
          <<Null({"agent"})>> \o ratify_challenge_sign_bytes_hex.checks, <<"string">>)
ratify_agent_pub_key_json == ToJson("agent")

(* advanced.rs: streamed turns.                                            *)
checked_build_streamed_opts ==
  SpanOption({"opt_session"}) \o SpanOption({"opt_stream"}) \o <<Utf8({"required_scope"})>>
TurnArgs == [token_json |-> "json", session_secret |-> "buffer", challenge |-> "buffer",
             sig_json |-> "json", session_context |-> "span?", stream_id |-> "span?"]
TurnChecks == <<JsonText({"token_json"}), Buffer("session_secret"), Buffer("challenge"),
                JsonText({"sig_json"})>>
ratify_verify_streamed_turn ==
  [Judging(Infallible(Pointer(TurnArgs, TurnChecks \o <<Optional32({"session_context"}),
                              Optional32({"stream_id"})>>, <<"verify_result">>)), "result")
   EXCEPT !.onPanic = "NULL"]
ratify_verify_streamed_turn_opts ==
  [Verifies(TurnArgs @@ [opt_session |-> "span?", opt_stream |-> "span?", required_scope |-> "text?",
                         store |-> "challenge_store", out |-> "pointer"],
            <<Null({"token_json", "out"})>> \o TurnChecks
            \o <<Check({"session_context"}, {"absent"}, "NullPointer"), Sized({"session_context"}),
                 Check({"stream_id"}, {"absent"}, "NullPointer"), Sized({"stream_id"})>>
            \o checked_build_streamed_opts)
   EXCEPT !.absent = {"store"}]

(* advanced.rs: operation and session contexts.                            *)
OperationArgs == [required_scope |-> "text?", operation |-> "text?", resource_id |-> "text?",
                  requested_path |-> "text?", payload_digest |-> "span?"]
OperationTexts == <<Utf8({"required_scope"}), Utf8({"operation"}), Utf8({"resource_id"}),
                    Utf8({"requested_path"})>>
OptionalSpan(a) == <<Check({a}, {"absent"}, "NullPointer"), Sized({a})>>
ratify_operation_context_hash ==
  Status(OperationArgs @@ [out_hash |-> "pointer"],
         <<Null({"out_hash"})>> \o OptionalSpan("payload_digest") \o OperationTexts,
         "BadArgument", <<"bytes">>)
ratify_operation_context_v2_hash ==
  Status([a \in DOMAIN OperationArgs \ {"payload_digest"} |-> "text?"]
         @@ [payload_digest |-> "text?", out_hash |-> "pointer"],
         <<Null({"out_hash"}), Utf8({"payload_digest"})>> \o OperationTexts,
         "BadArgument", <<"bytes">>)
ratify_operation_context_bytes_hex ==
  Pointer(OperationArgs, OptionalSpan("payload_digest") \o OperationTexts, <<"string">>)
SessionArgs == [verifier_id |-> "text?", workspace_id |-> "text?", agent_id |-> "text?",
                session_id |-> "text?", invocation_id |-> "text?", request_hash |-> "buffer"]
SessionTexts == <<Utf8({"verifier_id"}), Utf8({"workspace_id"}), Utf8({"agent_id"}),
                  Utf8({"session_id"}), Utf8({"invocation_id"})>>
ratify_session_context_build ==
  Status(SessionArgs @@ [out_context |-> "pointer"],
         <<Null({"out_context"}), Buffer("request_hash")>> \o SessionTexts, "BadArgument", <<"bytes">>)
ratify_session_context_v2_build ==
  Status([verifier_id |-> "text", workspace_id |-> "text", agent_id |-> "text", out_context |-> "pointer"]
         @@ SessionArgs,
         <<Null({"out_context"}), Null({"verifier_id", "workspace_id", "agent_id"}),
           Buffer("request_hash")>> \o SessionTexts, "BadArgument", <<"bytes">>)
ratify_session_context_bytes_hex ==
  Pointer(SessionArgs, <<Buffer("request_hash")>> \o SessionTexts, <<"string">>)

(* advanced.rs: the challenge store, the one handle with state.            *)
ratify_challenge_store_new ==
  [Infallible(Pointer([max_size |-> "number"], <<Check({"max_size"}, {"range"}, "NULL")>>,
                      <<"challenge_store">>)) EXCEPT !.tells = FALSE]
ratify_challenge_store_free == Free("challenge_store")
ratify_challenge_store_issue ==
  Status([store |-> "challenge_store", session_context |-> "span?", out_challenge |-> "pointer"],
         <<Null({"store", "out_challenge"})>> \o OptionalSpan("session_context"),
         "BadArgument", <<"bytes">>)
challenge_store_op ==
  Judging(Status([store |-> "challenge_store", challenge |-> "buffer", session_context |-> "span?"],
                 <<Null({"store", "challenge"}), Sized({"challenge"})>>
                 \o OptionalSpan("session_context"), "BadArgument", <<>>), "status")
ratify_challenge_store_check == challenge_store_op
ratify_challenge_store_consume == challenge_store_op
ratify_verify_bundle_opts_with_challenge_store ==
  [Verifies(OptionArgs @@ [bundle_json |-> "json", store |-> "challenge_store", out |-> "pointer"],
            <<Null({"bundle_json", "store", "out"})>> \o checked_build_opts
            \o <<JsonText({"bundle_json"})>>) EXCEPT !.asks = TRUE]

(* advanced.rs: claim identifiers; the output is emptied on every error    *)
(* once its capacity is known.                                             *)
Clearing(f) == [f EXCEPT !.clears = TRUE]
ratify_challenge_claim_digest_v2 ==
  Clearing(Status([challenge |-> "buffer", out_digest |-> "buffer"],
                  <<Null({"out_digest", "challenge"}), Sized({"out_digest"}), Sized({"challenge"})>>,
                  "BadArgument", <<"bytes">>))
claim_id_v2_ffi ==
  Clearing(Status([namespace |-> "label", input |-> "buffer", out_id |-> "buffer"],
                  <<Null({"namespace", "input", "out_id"}), Sized({"namespace", "input", "out_id"}),
                    Utf8({"namespace"})>>, "BadArgument", <<"bytes">>))
ratify_protocol_claim_id_v2 == claim_id_v2_ffi
ratify_protocol_claim_id_from_digest_v2 == claim_id_v2_ffi

(* advanced.rs: signatures checked into a flag, and keys from seeds.       *)
ratify_verify_delegation_signature ==
  Judging(Status([cert_json |-> "json", valid_out |-> "pointer"],
                 <<Null({"valid_out"}), Text("cert_json", "NullPointer"), JsonText({"cert_json"})>>,
                 "none", <<"flag">>), "flag")
ratify_verify_delegation_signature_v2 ==
  Clearing(Judging(Status([signable |-> "buffer", signature_json |-> "json",
                           public_key_json |-> "json", valid_out |-> "pointer"],
                 <<Null({"valid_out"}), Null({"signable"}), Sized({"signable"}),
                   Null({"signature_json"}), Utf8({"signature_json"}), Null({"public_key_json"}),
                   Utf8({"public_key_json"}), JsonText({"signature_json"}),
                   JsonText({"public_key_json"})>>, "none", <<"flag">>), "flag"))
ratify_verify_challenge_signature ==
  Judging(Status(ratify_challenge_sign_bytes_hex.args
                 @@ [sig_json |-> "json", pub_json |-> "json", valid_out |-> "pointer"],
                 <<Null({"valid_out", "challenge"}), Text("sig_json", "NullPointer"),
                   Text("pub_json", "NullPointer"), JsonText({"sig_json"}), JsonText({"pub_json"}),
                   Sized({"challenge"}), Optional32({"session_context"}), Optional32({"stream_id"})>>,
                 "none", <<"flag">>), "flag")
SeedPair == Check({"ed_seed", "ml_seed"}, {"null", "length"}, "BadArgument")
ratify_human_root_from_seeds ==
  Status([ed_seed |-> "buffer", ml_seed |-> "buffer", out |-> "pointer"],
         <<NullUntold({"out"}), SeedPair>>, "none", <<"human_root">>)
ratify_agent_from_seeds ==
  Status([name |-> "text", agent_type |-> "text", ed_seed |-> "buffer", ml_seed |-> "buffer",
          out |-> "pointer"],
         <<NullUntold({"out"}), Text("name", "NullPointer"), Text("agent_type", "NullPointer"),
           SeedPair>>, "none", <<"agent">>)
ratify_generate_hybrid_keypair ==
  Status([out_pub_json |-> "pointer", out_ed_seed |-> "pointer", out_ml_seed |-> "pointer"],
         <<Null({"out_pub_json", "out_ed_seed", "out_ml_seed"})>>, "Crypto",
         <<"string", "bytes", "bytes">>)

=============================================================================
