----------------------------- MODULE CCallbacks ------------------------------
(***************************************************************************)
(* One operation of the v2 C ABI and the C callbacks it makes               *)
(* (sdks/c/src/v2/callbacks.rs, sign.rs).  Every store and provider of the  *)
(* verifier is an adapter around a C function: the adapter refuses what a   *)
(* C string cannot carry, maps the returned code to an error of its trait,  *)
(* and accepts only a well-formed answer.  All adapters of one operation    *)
(* share a cancel handle: a callback that returns RatifyV2ErrCancelled      *)
(* cancels the operation, which the core notices at its next check.         *)
(*                                                                          *)
(* A callback is anything a C program can supply, or the bridge to a        *)
(* reference store (reference.rs), whose answers must reach the verifier    *)
(* exactly as the store gave them.                                          *)
(***************************************************************************)
EXTENDS Naturals, Sequences, TLC

VARIABLES stage,       \* where the operation is, or "done"
          claimed,     \* the claim callback answered created
          pending,     \* the local evaluation waits for external answers
          attempt,     \* of the journal's or the finalization's retry
          key,         \* the external signer's public key as cached
          cancelled,   \* the operation's context
          seen,        \* the last callback: adapter, callee and result
          heard,       \* the adapter whose callback asked to cancel: the first that is noted, if any
          outcome

vars == <<stage, claimed, pending, attempt, key, cancelled, seen, heard, outcome>>

-----------------------------------------------------------------------------
(* Adapters: whether an identifier crosses as a C string, whether the code *)
(* is noted for cancellation, how an error is expressed, and the malformed *)
(* forms of each answered field with the error they become.                *)
Classes == {"Malformed", "ClaimNotFound"}            \* two of the 49 classified codes
Sentinels ==
  {"ClaimProofConflict", "RateLimitExceeded", "ReleaseStateMismatch", "AcknowledgementNotFound",
   "IssuanceConflict", "IssuanceNotFound"}
Codes == Classes \cup Sentinels
         \cup {"StoreUnavailable", "JournalConflict", "ErrCancelled", "ErrInternal", "ErrNullPointer", "undefined"}

NoFields == [f \in {} |-> {}]
Store(fields) == [ids |-> TRUE, notes |-> TRUE, speaks |-> "store", lacking |-> "Unavailable", fields |-> fields]
Plain(a) == [a EXCEPT !.ids = FALSE]
Provider(fields) == [Store(fields) EXCEPT !.speaks = "provider", !.lacking = "ProviderError"]
Journal(fields) == [Store(fields) EXCEPT !.speaks = "journal", !.lacking = "StatusObjectRejected"]

Unusable == [slice |-> "Unavailable"]                \* NULL with a length, or an impossible length
NotText == [utf8 |-> "Unavailable"]
Foreign == [unknown |-> "Unavailable"]               \* a number outside its enumeration

call_now == Plain(Store(NoFields))
claim_v2 == Store([disposition |-> Foreign, owner_token |-> Unusable])
finalize_v2_claim == Store(NoFields)
record_v2_evaluation_progress == Store(NoFields)
load_v2_interrupted_claim ==
  Store([record |-> [slice |-> "Unavailable", syntax |-> "Malformed", unkeyed |-> "Malformed"],
         progress |-> [slice |-> "Unavailable", syntax |-> "Malformed"]])
recover_interrupted_v2_claim == Store(NoFields)
load_v2_committed_claim ==
  Store([record |-> [slice |-> "Unavailable", syntax |-> "Unavailable", unkeyed |-> "Unavailable"],
         terminal_result |-> Unusable, receipt_body |-> Unusable])
reserve_v2_rate_batch == Store(NoFields)
load_v2_terminal_claim ==
  Store([release_entry_hash |-> Unusable, receipt_outbox_digest |-> NotText,
         release_claim_id |-> NotText, release_reason |-> NotText])
record_v2_release == Store(NoFields)
ack_of == Store([log_id |-> NotText, entry_hash |-> Unusable])
acknowledge_v2_receipt == ack_of
get_v2_acknowledgement == ack_of
journal_load ==
  Plain(Journal([snapshot |-> [slice |-> "StatusObjectRejected", import |-> "Malformed"],
                 digest |-> [utf8 |-> "StatusObjectRejected"]]))
journal_compare_and_swap == Journal(NoFields)
persist_v2_challenge == Store(NoFields)
load_v2_challenge == Store([record |-> [slice |-> "Unavailable", syntax |-> "Unavailable"]])
trust_provider == Provider([outcome |-> [unknown |-> "ProviderError"]])
status_provider ==                                   \* bounded before an object is copied
  Provider([objects |-> [null |-> "ProviderError", count |-> "ProviderError", bytes |-> "ProviderError",
                         slice |-> "ProviderError"]])
audience_provider ==                                 \* two answers for a deferred link are copied
  Provider([memberships |-> [null |-> "ProviderError", count |-> "ProviderError"],
            trust_domain_ids |-> [null |-> "ProviderError", utf8 |-> "ProviderError"],
            receiver_id |-> [utf8 |-> "ProviderError"]])
receiver_binding_hook == Plain(Provider(NoFields))
CRandom == [Plain(Provider(NoFields)) EXCEPT !.notes = FALSE]
custom_evaluator ==                                  \* an outcome it does not know is invalid
  [Provider([outcome |-> [unknown |-> "Invalid"]]) EXCEPT !.notes = FALSE]
CSigner == [Plain(Provider([signature |-> [oversized |-> "ProviderError"]])) EXCEPT !.speaks = "signer"]

Adapters ==
  [now |-> call_now, claim |-> claim_v2, finalize |-> finalize_v2_claim,
   record_progress |-> record_v2_evaluation_progress, load_interrupted |-> load_v2_interrupted_claim,
   recover |-> recover_interrupted_v2_claim, load_committed |-> load_v2_committed_claim,
   reserve |-> reserve_v2_rate_batch, load_terminal |-> load_v2_terminal_claim,
   record_release |-> record_v2_release, acknowledge |-> acknowledge_v2_receipt,
   get_ack |-> get_v2_acknowledgement, load |-> journal_load, compare_and_swap |-> journal_compare_and_swap,
   persist |-> persist_v2_challenge, load_challenge |-> load_v2_challenge, trust |-> trust_provider,
   fetch |-> status_provider, audience |-> audience_provider, binding |-> receiver_binding_hook,
   random |-> CRandom, evaluator |-> custom_evaluator, sign |-> CSigner]

(* The error of a code in the terms of the adapter's trait.                *)
store_error(code) == IF code \in Codes \ {"StoreUnavailable", "JournalConflict", "ErrCancelled", "ErrInternal",
                                          "ErrNullPointer", "undefined"}
                       THEN code ELSE "Unavailable"
journal_error(code) == IF code \in Classes THEN code ELSE "StatusObjectRejected"
ErrorOf(name, code) ==
  CASE Adapters[name].speaks = "store" -> store_error(code)
    [] name = "compare_and_swap" /\ code = "JournalConflict" -> "Conflict"
    [] Adapters[name].speaks = "journal" -> journal_error(code)
    [] Adapters[name].speaks = "signer" /\ code = "ErrCancelled" -> "Cancelled"
    [] OTHER -> "ProviderError"

Call(name, callee, code, form, result, sound) ==
  [adapter |-> name, callee |-> callee, code |-> code, form |-> form, result |-> result, sound |-> sound]
NoCall == Call("none", "none", "none", "none", "none", TRUE)

(* A callback that is not set, and an identifier that cannot be passed.    *)
Uncalled(name) ==
  {Call(name, "missing", "none", "none", Adapters[name].lacking, FALSE)}
  \cup (IF Adapters[name].ids THEN {Call(name, "U+0000", "none", "none", Adapters[name].lacking, FALSE)} ELSE {})

(* A C function: any code, any answer.  At most one field is malformed.    *)
Supplied(name) ==
  {Call(name, "foreign", code, "none", ErrorOf(name, code), FALSE) : code \in Codes}
  \cup {Call(name, "foreign", "Ok", "sound", "Ok", TRUE)}
  \cup UNION {{Call(name, "foreign", "Ok", form, Adapters[name].fields[f][form], FALSE) :
                 form \in DOMAIN Adapters[name].fields[f]} : f \in DOMAIN Adapters[name].fields}

-----------------------------------------------------------------------------
(* reference.rs: a bridge answers with what its Rust store returned;        *)
(* store_code is the inverse of store_error, a panic and a target that does *)
(* not serve the call become codes too.                                     *)
Direct(name) ==
  CASE Adapters[name].speaks = "store" -> Classes \cup Sentinels \cup {"Unavailable"}
    [] name = "compare_and_swap" -> Classes \cup {"StatusObjectRejected", "Conflict"}
    [] Adapters[name].speaks = "journal" -> Classes \cup {"StatusObjectRejected"}
    [] OTHER -> {"ProviderError"}
store_code(error) ==
  CASE error = "Unavailable" -> "StoreUnavailable"
    [] error = "Conflict" -> "JournalConflict"
    [] error = "ProviderError" -> "StoreUnavailable"
    [] OTHER -> error
EvaluationBridge == {"now", "claim", "finalize", "record_progress"}
RecoveryBridge == {"load_interrupted", "load_committed", "recover"}
ReleaseBridge == {"load_terminal", "record_release", "acknowledge", "get_ack"}
StateBridge == {"load", "compare_and_swap", "persist", "load_challenge"}
Bridged == EvaluationBridge \cup RecoveryBridge \cup ReleaseBridge \cup StateBridge \cup {"trust"}
(* StatusObjectRejected is a class of its own, and survives as one.        *)
ThroughBridge(name, error) ==
  IF error = "StatusObjectRejected" THEN error ELSE ErrorOf(name, store_code(error))
Reference(name) ==
  {Call(name, "reference", error, "none", ThroughBridge(name, error), FALSE) : error \in Direct(name)}
  \cup {Call(name, "reference", "Ok", "sound", "Ok", TRUE)}
  \cup {Call(name, "reference panics", "none", "none", ErrorOf(name, "ErrInternal"), FALSE)}

Answers(name) == Uncalled(name) \cup Supplied(name) \cup (IF name \in Bridged THEN Reference(name) ELSE {})

(* Cancel::note: what a callback answered, and whether it cancels.         *)
Noted(call) == Adapters[call.adapter].notes /\ call.callee = "foreign" /\ call.code = "ErrCancelled"
Hear(call) ==
  /\ seen' = call
  /\ cancelled' = (cancelled \/ Noted(call))
  /\ heard' = IF ~cancelled /\ call.callee = "foreign" /\ call.code = "ErrCancelled" THEN call.adapter ELSE heard

-----------------------------------------------------------------------------
(* ratify_v2_verify_proof_bundle: the callbacks of the live path in order. *)
GoTo(s) == stage' = s /\ outcome' = outcome
End(o) == stage' = "done" /\ outcome' = o
Cancelled == "EvaluationCancelled"
EndUnlessCancelled(o) == End(IF cancelled' THEN Cancelled ELSE o)
Keep == UNCHANGED <<claimed, pending, attempt, key>>

(* A failing hook is a refusal, and its cancellation the caller's.         *)
Bind ==
  /\ stage = "binding"
  /\ \E call \in Answers("binding") :
       /\ Hear(call)
       /\ IF call.result = "Ok" THEN GoTo("claim") ELSE EndUnlessCancelled("ReceiverBindingRejected")
  /\ Keep

(* An error of the claim callback ends the operation before the claim,     *)
(* a cancellation included: the class is the store's.                      *)
Claim ==
  /\ stage = "claim"
  /\ \E call \in Answers("claim"), disposition \in {"created", "replay"} :
       /\ Hear(call)
       /\ claimed' = (call.result = "Ok" /\ disposition = "created")
       /\ IF claimed' THEN GoTo("started")
          ELSE End(CASE call.result = "Ok" -> "Replay"
                     [] call.result \in Classes -> call.result
                     [] OTHER -> "ClaimStoreUnavailable")
  /\ UNCHANGED <<pending, attempt, key>>

(* record_v2_progress_safely, before and after every external lookup.      *)
Record(from, to) ==
  /\ stage = from
  /\ \E call \in Answers("record_progress") :
       /\ Hear(call)
       /\ IF call.result = "Ok" THEN GoTo(IF pending THEN to ELSE "finalize")
          ELSE EndUnlessCancelled("ClaimStoreUnavailable")
  /\ Keep

ResolveTrust ==
  /\ stage = "trust"
  /\ \E call \in Answers("trust"), trusted \in BOOLEAN :
       /\ Hear(call)
       /\ pending' = (call.result = "Ok" /\ trusted)
       /\ IF call.result # "Ok" /\ cancelled' THEN End(Cancelled) ELSE GoTo("evaluator")
  /\ UNCHANGED <<claimed, attempt, key>>

(* The extension evaluators run in the local evaluation; one that fails    *)
(* makes its constraint unverifiable.                                      *)
RunEvaluator ==
  /\ stage = "evaluator"
  /\ \E call \in Answers("evaluator") :
       Hear(call) /\ pending' = (pending /\ call.result = "Ok")
  /\ GoTo("resolved")
  /\ UNCHANGED <<claimed, attempt, key>>

(* run_v2_status_stage for one issuer: any failure leaves the issuer       *)
(* unavailable, and a cancelled context ends the operation.  A conflict    *)
(* reloads and tries once more without asking the provider again.          *)
StatusCall(from, to) ==
  /\ stage = from
  /\ \E call \in Answers(from) :
       /\ Hear(call)
       /\ IF call.result = "Ok" THEN GoTo(IF attempt > 0 /\ from = "load" THEN "compare_and_swap" ELSE to)
          ELSE IF cancelled' THEN End(Cancelled) ELSE GoTo("assessed")
  /\ Keep
CompareAndSwap ==
  /\ stage = "compare_and_swap"
  /\ \E call \in Answers("compare_and_swap") :
       /\ Hear(call)
       /\ IF call.result = "Conflict" /\ attempt = 0 THEN GoTo("load") /\ attempt' = 1
          ELSE /\ attempt' = 0
               /\ IF cancelled' THEN End(Cancelled) ELSE GoTo("assessed")
  /\ UNCHANGED <<claimed, pending, key>>

LookUpAudience ==
  /\ stage = "audience"
  /\ \E call \in Answers("audience") :
       /\ Hear(call)
       /\ IF call.result # "Ok" /\ cancelled' THEN End(Cancelled) ELSE GoTo("rate")
  /\ attempt' = 0
  /\ UNCHANGED <<claimed, pending, key>>

(* The reservation's failure is an assessment; finalization looks at the   *)
(* context again.                                                          *)
ReserveRate ==
  /\ stage = "rate"
  /\ \E call \in Answers("reserve") : Hear(call)
  /\ GoTo("finalize")
  /\ Keep

(* Exhausted capacity at finalization is denied and finalized once more.   *)
Finalize ==
  /\ stage = "finalize"
  /\ IF cancelled THEN End(Cancelled) /\ UNCHANGED <<seen, cancelled, heard, attempt>>
     ELSE \E call \in Answers("finalize") :
            /\ Hear(call)
            /\ IF call.result = "Ok" THEN End("Committed") /\ UNCHANGED attempt
               ELSE IF call.result = "RateLimitExceeded" /\ attempt < 2
                      THEN GoTo("finalize") /\ attempt' = 2
               ELSE EndUnlessCancelled("ClaimStoreUnavailable") /\ UNCHANGED attempt
  /\ UNCHANGED <<claimed, pending, key>>

-----------------------------------------------------------------------------
(* sign.rs: an external signer is asked for its key, which is cached after *)
(* the first success, and then for a signature under that key; finish      *)
(* reports a signer's cancellation, whatever error the core made of it.    *)
SignerKey ==
  /\ stage = "public key"
  /\ IF key \in {1, 2} THEN GoTo("sign") /\ UNCHANGED <<key, seen, cancelled, heard>>
     ELSE \E call \in {c \in Answers("sign") : c.form \in {"none", "sound"}}, k \in {1, 2} :
            /\ Hear(call)
            /\ key' = IF call.result = "Ok" THEN k ELSE 0
            /\ IF call.result = "Ok" THEN GoTo("public key") ELSE EndUnlessCancelled("InvalidSignerKey")
  /\ UNCHANGED <<claimed, pending, attempt>>

(* The signer holds some key; only a signature under the cached one is     *)
(* returned.                                                               *)
Sign ==
  /\ stage = "sign"
  /\ \E call \in Answers("sign"), used \in {1, 2} :
       /\ Hear(call)
       /\ IF call.result = "Ok" THEN End(IF used = key THEN "Signed" ELSE "SignatureRejected")
          ELSE EndUnlessCancelled("ProviderError")
  /\ Keep

(* Any other operation with one callback of its own.                       *)
Others == DOMAIN Adapters \ {"binding", "claim", "record_progress", "trust", "evaluator", "load", "fetch",
                             "compare_and_swap", "audience", "reserve", "finalize", "sign"}
Single ==
  /\ stage = "single"
  /\ \E name \in Others : \E call \in Answers(name) : Hear(call) /\ End(call.result)
  /\ Keep

Init ==
  /\ stage \in {"binding", "public key", "single"} /\ outcome = "none"
  /\ claimed = FALSE /\ pending = TRUE /\ attempt = 0 /\ key = 0
  /\ cancelled = FALSE /\ seen = NoCall /\ heard = "none"
Next ==
  \/ Bind \/ Claim \/ Record("started", "trust") \/ ResolveTrust \/ RunEvaluator \/ Record("resolved", "load")
  \/ StatusCall("load", "fetch") \/ StatusCall("fetch", "compare_and_swap") \/ CompareAndSwap
  \/ Record("assessed", "audience") \/ LookUpAudience \/ ReserveRate \/ Finalize
  \/ SignerKey \/ Sign \/ Single
Spec == Init /\ [][Next]_vars

-----------------------------------------------------------------------------
(* An adapter reports success only for a callback that was called, that    *)
(* returned 0 and whose every answer is well formed.                       *)
FailsClosed == seen.result = "Ok" => seen.sound

(* The verifier hears from a reference store behind the C ABI what it      *)
(* would hear from the store itself.                                       *)
BridgeTransparent == seen.callee = "reference" => seen.result = seen.code

(* What RatifyV2ErrCancelled does, callback by callback, as its comment    *)
(* states: the hook stops before the claim, the claim callback is a store  *)
(* failure, an evaluator is a provider failure, and every other callback   *)
(* cancels an evaluation that then commits nothing.                        *)
CancellationAsDocumented ==
  /\ outcome = "Committed" => heard \in {"none", "evaluator"}
  /\ outcome = Cancelled => heard \notin {"none", "evaluator", "claim"}
  /\ stage = "done" /\ heard = "binding" => outcome = Cancelled /\ ~claimed
  /\ stage = "done" /\ heard = "claim" => outcome = "ClaimStoreUnavailable" /\ ~claimed
  /\ stage = "done" /\ heard \in {"trust", "load", "fetch", "compare_and_swap", "audience", "reserve",
                                  "record_progress", "finalize", "sign"} => outcome = Cancelled

(* An object is signed only under the key the signer first named.          *)
SignedUnderNamedKey == outcome = "Signed" => key # 0 /\ ~cancelled

CallbacksSound == FailsClosed /\ BridgeTransparent /\ CancellationAsDocumented /\ SignedUnderNamedKey
=============================================================================
