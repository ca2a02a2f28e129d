---------------------------- MODULE ModelClient -----------------------------
(***************************************************************************)
(* The worker's client of the language models (jit-worker, synthesizer.rs, *)
(* RigSynthesizer): one call at a time, made for the coder, for the        *)
(* reviewer of contracts or for the verifier of generated tests.           *)
(*                                                                         *)
(* Three loops are nested.  call_model repeats a request whose provider    *)
(* failed, and once more with feedback a request answered without a tool   *)
(* call, which starts the provider's retries anew.  complete falls back    *)
(* from the primary model, whose provider is not retried, to the           *)
(* verifier's model.  review_contract and verify_generated_test repeat the *)
(* whole call once when its answer is not valid.                           *)
(*                                                                         *)
(* An answer is what the checks look at: how many tools it calls, the      *)
(* decision, and its details -- for a review its issues (0 none, 1 up to   *)
(* three, 2 more), for a verdict the replacement (0 none, 1 half of it, 2  *)
(* stdout and exit code).                                                  *)
(***************************************************************************)
EXTENDS Integers

CONSTANTS
  MaxProviderRetries,  \* PROVIDER_RETRY_DELAYS.len()
  MaxProtocolRetries   \* MODEL_PROTOCOL_RETRIES

ASSUME ClientAssumption ==
  MaxProviderRetries \in Nat /\ MaxProtocolRetries \in Nat

Roles == {"coder", "reviewer", "verifier"}

Decisions(role) ==
  CASE role = "coder" -> {"act"}
    [] role = "reviewer" -> {"accept", "revise", "reject"}
    [] role = "verifier" -> {"implementation_wrong", "oracle_wrong", "ambiguous"}

Replies(role) ==
  [calls : 0..2, decision : Decisions(role), details : IF role = "coder" THEN {0} ELSE 0..2]

NoReply == [calls |-> 0, decision |-> "none", details |-> 0]

VARIABLE call  \* the call in flight, or the last one

Idle ==
  [state |-> "idle", role |-> "coder", model |-> "verifier", attempt |-> 0,
   provider |-> 0, protocol |-> 0, sent |-> 0, reply |-> NoReply]

-----------------------------------------------------------------------------
(* parse_contract_review_turn and parse_verifier_turn.                     *)

ValidReview(r) ==
  /\ r.calls = 1
  /\ r.details = IF r.decision = "accept" THEN 0 ELSE 1

ValidVerdict(r) ==
  /\ r.calls = 1
  /\ r.details = IF r.decision = "oracle_wrong" THEN 2 ELSE 0

\* complete returns any turn; what it calls is the agent's business.
Valid(role, r) ==
  CASE role = "coder" -> TRUE
    [] role = "reviewer" -> ValidReview(r)
    [] role = "verifier" -> ValidVerdict(r)

\* A new call_model: its own counts of retries.
Fresh(c) == [c EXCEPT !.provider = 0, !.protocol = 0]

-----------------------------------------------------------------------------
(* The steps of a call.                                                    *)

\* complete, review_contract, verify_generated_test
Begin(role) ==
  call' = [Idle EXCEPT !.state = "sending", !.role = role,
             !.model = IF role = "coder" THEN "primary" ELSE "verifier"]

Sent(c) == [c EXCEPT !.sent = c.sent + 1]

\* The feedback is given once per call_model; the provider's retries start anew.
FeedbackUncounted(c) == [c EXCEPT !.provider = 0]
Feedback(c) == [c EXCEPT !.protocol = c.protocol + 1, !.provider = 0]

\* No tool call in the answer: feedback is added and the request repeated.
RetryWithFeedback(r) ==
  /\ call.state = "sending"
  /\ r.calls = 0
  /\ call.protocol < MaxProtocolRetries
  /\ call' = Feedback(Sent(call))

\* call_model returns the turn.
TakeReply(r) ==
  /\ call.state = "sending"
  /\ r.calls > 0 \/ call.protocol = MaxProtocolRetries
  /\ call' =
       IF Valid(call.role, r)
       THEN [Sent(call) EXCEPT !.state = "done", !.reply = r]
       ELSE IF call.attempt = 0
            THEN [Fresh(Sent(call)) EXCEPT !.attempt = 1]
            ELSE [Sent(call) EXCEPT !.state = "failed"]

\* retryable_status: an error without a status, 429, 5xx, or a malformed 2xx; a
\* timed out request is repeated like one that failed.
RetryProvider ==
  /\ call.state = "sending"
  /\ call.model = "verifier"
  /\ call.provider < MaxProviderRetries
  /\ call' = [Sent(call) EXCEPT !.provider = call.provider + 1]

\* SynthesisError::Model or ModelTimeout: an error that may not be retried (any
\* other status), or the retries are used up.  Only the coder has a second model.
ProviderFails ==
  /\ call.state = "sending"
  /\ call' =
       IF call.model = "primary"
       THEN [Fresh(Sent(call)) EXCEPT !.model = "verifier"]
       ELSE [Sent(call) EXCEPT !.state = "failed"]

\* SynthesisError::ContextLimit, found before a request that is new is sent
ContextTooLarge ==
  /\ call.state = "sending"
  /\ call.provider = 0
  /\ call' = [call EXCEPT !.state = "failed"]

Answered == \E r \in Replies(call.role) : RetryWithFeedback(r) \/ TakeReply(r)

CallStep == Answered \/ RetryProvider \/ ProviderFails \/ ContextTooLarge

-----------------------------------------------------------------------------
(* Properties.                                                             *)

PerModelCall == (1 + MaxProtocolRetries) * (1 + MaxProviderRetries)

\* The requests one call may make of the providers, each of up to 90 s: the
\* three nested loops and the counts they reset add up to a known number.
MaxRequests(role) ==
  IF role = "coder" THEN (1 + MaxProtocolRetries) + PerModelCall ELSE 2 * PerModelCall

\* However failures, timeouts, answers without a tool call and invalid answers
\* come, no call makes more requests than the retry loops add up to: resetting
\* one count on another loop's retry does not let them feed each other.
RequestsBounded == call.sent <= MaxRequests(call.role)
=============================================================================
