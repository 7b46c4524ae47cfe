------------------------------- MODULE CAbi ---------------------------------
(***************************************************************************)
(* The v1 C ABI (sdks/c/src: lib.rs, advanced.rs, guard.rs): what crosses   *)
(* the boundary in one call.  A C caller makes any sequence of calls of the *)
(* exported functions (CExports) with any argument spoiled, and the Rust    *)
(* core may refuse or panic.                                                *)
(*                                                                          *)
(* Objects are the boxed handles and C strings the library gives away; an   *)
(* object is known by its kind, its address and, for a verification result  *)
(* and a challenge store, what it says.                                     *)
(***************************************************************************)
EXTENDS CExports

CONSTANTS MaxHeld,      \* objects the caller of each family holds at most
          ChainLength   \* certificates a revocation callback is asked about

VARIABLES family,       \* which of Families the caller works with
          held,         \* the caller's handle and string variables
          poisoned,     \* challenge stores whose mutex a panic poisoned
          reply         \* what the last call returned, or NoReply

abiVars == <<family, held, poisoned, reply>>

-----------------------------------------------------------------------------
(* The exported functions, in groups that share their handles: a caller    *)
(* works with one group.                                                   *)
IdentityExports ==
  {ratify_human_root_generate, ratify_human_root_free, ratify_human_root_to_json,
   ratify_human_root_id, ratify_human_root_pub_key_json, ratify_agent_generate, ratify_agent_free,
   ratify_agent_id, ratify_delegation_issue, ratify_delegation_cert_to_json,
   ratify_delegation_cert_free, ratify_challenge_generate, ratify_agent_sign_challenge,
   ratify_agent_pub_key_json, ratify_human_root_from_seeds, ratify_agent_from_seeds,
   ratify_generate_hybrid_keypair, ratify_string_free, ratify_error_free}
BundleExports ==
  {ratify_agent_generate, ratify_agent_free, ratify_proof_bundle_create,
   ratify_proof_bundle_create_with_context, ratify_proof_bundle_to_json, ratify_proof_bundle_free,
   ratify_bundle_hash, ratify_chain_hash, ratify_string_free, ratify_error_free}
VerificationExports ==
  {ratify_verify_bundle_opts_v2, ratify_verify_bundle_opts, ratify_verify_bundle,
   ratify_verify_result_is_valid, ratify_verify_result_identity_status,
   ratify_verify_result_human_id, ratify_verify_result_agent_id,
   ratify_verify_result_error_reason, ratify_verify_result_free, ratify_verify_streamed_turn,
   ratify_verify_streamed_turn_opts, ratify_challenge_store_new, ratify_challenge_store_free,
   ratify_challenge_store_issue, ratify_challenge_store_check, ratify_challenge_store_consume,
   ratify_verify_bundle_opts_with_challenge_store, ratify_string_free, ratify_error_free}
EvidenceExports ==
  {ratify_agent_generate, ratify_human_root_generate, ratify_proof_bundle_create,
   ratify_verify_bundle, ratify_session_token_issue, ratify_session_token_verify,
   ratify_session_token_to_json, ratify_session_token_from_json, ratify_session_token_free,
   ratify_receipt_issue, ratify_receipt_verify, ratify_receipt_hash, ratify_receipt_to_json,
   ratify_receipt_from_json, ratify_receipt_free, ratify_session_token_sign_bytes_hex,
   ratify_session_token_mac_hex, ratify_agent_free, ratify_human_root_free,
   ratify_proof_bundle_free, ratify_verify_result_free, ratify_string_free, ratify_error_free}
RevocationExports ==
  {ratify_human_root_generate, ratify_human_root_free, ratify_revocation_list_issue,
   ratify_revocation_list_verify, ratify_revocation_list_contains, ratify_revocation_list_to_json,
   ratify_revocation_list_from_json, ratify_revocation_list_free, ratify_revocation_push_issue,
   ratify_revocation_push_verify, ratify_revocation_push_to_json,
   ratify_revocation_push_from_json, ratify_revocation_push_free,
   ratify_revocation_list_sign_bytes_hex, ratify_revocation_push_sign_bytes_hex,
   ratify_revocation_push_sig_ed25519_hex, ratify_revocation_push_sig_ml_dsa_65_hex,
   ratify_string_free, ratify_error_free}
LogExports ==
  {ratify_human_root_generate, ratify_human_root_free, ratify_witness_entry_issue,
   ratify_witness_entry_verify, ratify_witness_entry_to_json, ratify_witness_entry_from_json,
   ratify_witness_entry_free, ratify_key_rotation_issue, ratify_key_rotation_verify,
   ratify_key_rotation_to_json, ratify_key_rotation_from_json, ratify_key_rotation_free,
   ratify_key_rotation_sign_bytes_hex, ratify_witness_entry_sign_bytes_hex,
   ratify_witness_entry_sig_ed25519_hex, ratify_witness_entry_sig_ml_dsa_65_hex,
   ratify_string_free, ratify_error_free}
StatementExports ==
  {ratify_agent_generate, ratify_agent_free, ratify_scope_has, ratify_scope_is_sensitive,
   ratify_scopes_expand, ratify_scopes_intersect, ratify_scopes_validate, ratify_scope_vocabulary,
   ratify_policy_verdict_issue, ratify_policy_verdict_verify, ratify_policy_verdict_to_json,
   ratify_policy_verdict_from_json, ratify_policy_verdict_free, ratify_transaction_receipt_verify,
   ratify_transaction_receipt_sign_party, ratify_transaction_receipt_from_json,
   ratify_transaction_receipt_to_json, ratify_transaction_receipt_free,
   ratify_transaction_receipt_verify_full, ratify_verifier_context_hash,
   ratify_transaction_receipt_sign_bytes_hex, ratify_delegation_sign_bytes_hex, ratify_derive_id,
   ratify_derive_key_id_v2, ratify_canonical_json, ratify_challenge_sign_bytes_hex,
   ratify_operation_context_hash, ratify_operation_context_v2_hash,
   ratify_operation_context_bytes_hex, ratify_session_context_build,
   ratify_session_context_v2_build, ratify_session_context_bytes_hex,
   ratify_challenge_claim_digest_v2, ratify_protocol_claim_id_v2,
   ratify_protocol_claim_id_from_digest_v2, ratify_verify_delegation_signature,
   ratify_verify_delegation_signature_v2, ratify_verify_challenge_signature, ratify_string_free,
   ratify_error_free}
Families == <<IdentityExports, BundleExports, VerificationExports, EvidenceExports, RevocationExports, LogExports, StatementExports>>

-----------------------------------------------------------------------------
(* One call.  At most one argument is spoiled; the core answers yes or no  *)
(* or panics, and a revocation callback answers for every certificate.     *)
NoFault == [arg |-> "none", fault |-> "none"]
FaultsOf(f) == UNION {{[arg |-> a, fault |-> x] : x \in Faults(f.args[a])} : a \in DOMAIN f.args}

FailedChecks(f, bad) == {i \in DOMAIN f.checks : bad.arg \in f.checks[i].on /\ bad.fault \in f.checks[i].faults}
FirstFailed(f, bad) == f.checks[CHOOSE i \in FailedChecks(f, bad) :
                                  \A j \in FailedChecks(f, bad) : i <= j]

(* The arguments name live handles, or one of them is the spoiled one.     *)
Supplied(f, bad) ==
  \A a \in HandleArgs(f) \ {bad.arg} : \E o \in held : o.kind = f.args[a]
Stores(f, bad) ==
  IF "challenge_store" \in {f.args[a] : a \in HandleArgs(f) \ {bad.arg}}
    THEN {o.addr : o \in {p \in held : p.kind = "challenge_store"}} ELSE {0}

(* Faulty variant: an error of the callback counts as not revoked.         *)
RevocationAnswerLenient(n) == IF n = 1 THEN "revoked" ELSE "clear"

(* CRevocationProvider::is_revoked: 1 and 0 are answers, all else an error.*)
RevocationAnswer(n) == CASE n = 1 -> "revoked" [] n = 0 -> "clear" [] OTHER -> "error"
Answers(f) == IF f.asks THEN [1..ChainLength -> {0, 1, 2}] ELSE {<<>>}   \* 2: any other integer
AllClear(answers) == \A i \in DOMAIN answers : RevocationAnswer(answers[i]) = "clear"

(* The lock of a poisoned store panics: its challenge is never confirmed.  *)
CoreOutcomes(store) == IF store \in poisoned THEN {"no", "panic"} ELSE {"yes", "no", "panic"}

KindsMade(f) == {f.makes[i] : i \in DOMAIN f.makes} \ {"bytes", "flag"}
WritesValues(f) == \E i \in DOMAIN f.makes : f.makes[i] \in {"bytes", "flag"}
Cleared(f) == IF WritesValues(f) THEN "zero" ELSE "none"
Untouched(f) == IF WritesValues(f) /\ ~f.clears THEN "untouched" ELSE Cleared(f)
Written(f) == IF WritesValues(f) THEN "written" ELSE "none"

FreshAddress(kind) == CHOOSE n \in 1..MaxHeld[family] : \A o \in held : o.kind = kind => o.addr # n
Object(kind, valid, earned) == [kind |-> kind, addr |-> FreshAddress(kind), valid |-> valid, earned |-> earned]

(* What a refusal returns in the function's return type.                   *)
Failure(f, status) == CASE f.returns = "status" -> status [] f.returns = "int" -> "0" [] OTHER -> "NULL"

Failures == {"NullPointer", "Json", "Crypto", "BadArgument", "Internal", "Encoding", "NULL", "0"}
NoReply == [value |-> "none", bad |-> NoFault, yes |-> FALSE, earned |-> FALSE,
            values |-> "none", told |-> "none", panicked |-> FALSE]
(* A spoiled argument that no check refuses reaches the core, which reads  *)
(* through it: the answer is undefined.                                    *)
Undetected(f, bad) == bad # NoFault /\ FailedChecks(f, bad) = {} /\ bad.arg \notin f.absent
Reply(f, value, bad, yes, earned, values, told, panicked) ==
  [value |-> IF Undetected(f, bad) THEN "undefined" ELSE value, bad |-> bad, yes |-> yes, earned |-> earned, values |-> values,
   told |-> IF ~f.tells THEN "mute" ELSE IF told THEN "told" ELSE "untold", panicked |-> panicked]

(* set_err and the output parameters: what the call allocates is what the  *)
(* caller's variables receive.                                             *)
Give(objects) == held' = held \cup objects
Err(told) == IF told THEN {Object("error", FALSE, FALSE)} ELSE {}

(* A check of the body refuses the spoiled argument.                       *)
Refuse(f, bad, listens) ==
  /\ FailedChecks(f, bad) # {}
  /\ LET check == FirstFailed(f, bad)
         told == check.told /\ f.tells /\ listens /\ check.status # "Invalid"
     IN /\ Give(CASE check.status = "Invalid" -> {Object("verify_result", FALSE, FALSE)}
                  [] f.judges = "objection" -> {Object("string", FALSE, FALSE)}
                  [] OTHER -> Err(told))
        /\ reply' = Reply(f, IF check.status = "Invalid" THEN "Ok"
                             ELSE IF f.judges = "objection" THEN "objects"
                             ELSE Failure(f, check.status),
                          bad, FALSE, FALSE, Untouched(f), told \/ ~listens, FALSE)
  /\ UNCHANGED poisoned

(* The core refuses: a status, or NULL.                                    *)
Decline(f, bad, listens) ==
  /\ f.fails # "none" /\ f.returns # "int"
  /\ Give(IF f.judges = "objection" THEN {Object("string", FALSE, FALSE)} ELSE Err(f.tells /\ listens))
  /\ reply' = Reply(f, IF f.judges = "objection" THEN "objects" ELSE f.fails,
                    bad, FALSE, FALSE, Untouched(f), TRUE, FALSE)
  /\ UNCHANGED poisoned

(* The core answers, and the outputs are written last.                     *)
Complete(f, bad, core, answers, result, listens) ==
  /\ core = "yes" \/ f.fails = "none" \/ f.returns = "int"
  /\ LET valid == CASE f.judges = "verdict" -> result.valid
                    [] OTHER -> core = "yes" /\ AllClear(answers)
         earned == CASE f.judges = "verdict" -> result.earned
                     [] OTHER -> core = "yes" /\ \A i \in DOMAIN answers : answers[i] = 0
         yes == valid /\ f.judges \notin {"nothing", "result"}
     IN /\ Give({Object(k, valid /\ f.judges = "result", earned /\ f.judges = "result") : k \in KindsMade(f)}
                \cup Err(f.judges = "explained flag" /\ ~valid /\ listens))
        /\ reply' = Reply(f, CASE f.returns = "status" -> "Ok"
                               [] f.returns = "int" -> IF valid = (f.judges # "absence") THEN "1" ELSE "0"
                               [] OTHER -> IF f.judges = "objection" THEN "NULL" ELSE "pointer",
                          bad, yes, earned, Written(f), TRUE, FALSE)
  /\ UNCHANGED poisoned

(* guard.rs: a panic resets the outputs, tells, and returns the function's *)
(* fail-closed value; under the lock of a store it poisons the store.      *)
Panic(f, bad, store, listens) ==
  /\ Give(Err(f.tells /\ listens))
  /\ \E locked \in BOOLEAN :
       poisoned' = IF locked /\ store # 0 THEN poisoned \cup {store} ELSE poisoned
  /\ reply' = Reply(f, f.onPanic, bad, f.judges = "objection", FALSE, Cleared(f), TRUE, TRUE)

Call(f) ==
  /\ f.returns # "void" /\ Cardinality(held) < MaxHeld[family] /\ reply = NoReply
  /\ \E bad \in FaultsOf(f) \cup {NoFault}, listens \in BOOLEAN :
       /\ Supplied(f, bad)
       /\ \/ Refuse(f, bad, listens)
          \/ /\ FailedChecks(f, bad) = {}
             /\ \E store \in Stores(f, bad) : \E core \in CoreOutcomes(store) :
                  \/ core = "panic" /\ Panic(f, bad, store, listens)
                  \/ core = "no" /\ Decline(f, bad, listens)
                  \/ /\ core # "panic"
                     /\ \E answers \in Answers(f) :
                          \E result \in {o \in held : o.kind = "verify_result"} \cup {NoReply} :
                            /\ (f.judges = "verdict") = (result # NoReply)
                            /\ Complete(f, bad, core, answers, result, listens)

(* A *_free function: NULL is a no-op, a handle is consumed.               *)
Release(f) ==
  /\ f.returns = "void" /\ reply = NoReply
  /\ \E o \in held :
       /\ o.kind = f.frees
       /\ held' = held \ {o}
       /\ poisoned' = IF o.kind = "challenge_store" THEN poisoned \ {o.addr} ELSE poisoned
  /\ UNCHANGED reply

(* The caller looks at the reply and goes on.                              *)
GoOn == reply # NoReply /\ reply' = NoReply /\ UNCHANGED <<held, poisoned>>

Init == family \in DOMAIN Families /\ held = {} /\ poisoned = {} /\ reply = NoReply
Next == /\ UNCHANGED family
        /\ GoOn \/ \E f \in Families[family] : Call(f) \/ Release(f)
Spec == Init /\ [][Next]_abiVars

-----------------------------------------------------------------------------
(* No spoiled argument reaches the core, and a call that failed or         *)
(* panicked leaves no output it had begun to write.                        *)
OutputsDefined ==
  /\ reply.value # "undefined"
  /\ reply.panicked => reply.values \in {"none", "zero"}
  /\ reply.value \in Failures => reply.values # "written"
  /\ reply.value \in Failures /\ reply.bad.arg # "out" => reply.told # "untold"

(* An affirmative answer, now or read later from a verification result, is *)
(* one the core gave on sound arguments with every certificate reported    *)
(* not revoked.  ratify_scopes_validate is left out: its NULL means valid  *)
(* and is also what a panic returns.                                       *)
AnswersEarned ==
  /\ \A o \in held : o.valid => o.earned
  /\ reply.yes /\ ~(reply.panicked /\ reply.value = "NULL") => reply.earned

ExportsSound == OutputsDefined /\ AnswersEarned
=============================================================================
