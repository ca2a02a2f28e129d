---------------------------- MODULE AgentProofs -----------------------------
(***************************************************************************)
(* What TLAPS proves of the agent run, for every set of tests, sources,    *)
(* results, keys and lookups and for every budget: types, the questions    *)
(* and their answers, what is published, the work a crash makes uncounted, *)
(* and that the job lives as JobLife says.                                 *)
(*                                                                         *)
(* The argument is layered.  Shape says what the place of the session      *)
(* implies of its memory; SavedInv ties the checkpoint to it; QuestionInv  *)
(* ties both to the questions; EarnedInv and WorkInv rest on these.        *)
(***************************************************************************)
EXTENDS Agent, FiniteSetTheorems, TLAPS

-----------------------------------------------------------------------------
(* The call in flight.                                                     *)

CallStates == {"idle", "sending", "done", "failed"}
Models == {"primary", "verifier"}
CallAttempts == 0..1
ProviderCounts == 0..MaxProviderRetries
ProtocolCounts == 0..MaxProtocolRetries
DecisionNames == {"act", "accept", "revise", "reject", "implementation_wrong",
                  "oracle_wrong", "ambiguous", "none"}
AllReplies == [calls : 0..2, decision : DecisionNames, details : 0..2]

CallTypes ==
  [state : CallStates, role : Roles, model : Models, attempt : CallAttempts,
   provider : ProviderCounts, protocol : ProtocolCounts, sent : Nat, reply : AllReplies]

\* What one call_model may send per piece of feedback, and what the calls of the
\* models before it may have sent.
PerFeedback(c) == IF c.model = "primary" THEN 1 ELSE 1 + MaxProviderRetries
SentEarlier(c) ==
  IF c.model = "primary" THEN 0
  ELSE IF c.role = "coder" THEN 1 + MaxProtocolRetries ELSE c.attempt * PerModelCall

CallOK(c) ==
  /\ c \in CallTypes
  /\ c.role = "coder" => c.attempt = 0
  /\ c.model = "primary" => c.role = "coder" /\ c.provider = 0
  /\ c.state = "sending" =>
       c.sent <= SentEarlier(c) + c.protocol * PerFeedback(c) + c.provider
  /\ c.sent <= MaxRequests(c.role)

LEMMA Products ==
  ASSUME NEW n \in Nat, NEW k \in Nat, NEW p \in 0..n, NEW q \in 0..k
  PROVE  /\ p * (1 + k) \in Nat
         /\ p < n => p * (1 + k) + q + 1 <= (p + 1) * (1 + k)
         /\ p * (1 + k) + q + 1 <= (1 + n) * (1 + k)
         /\ (1 + n) * (1 + k) \in Nat
         /\ 1 + n <= (1 + n) * (1 + k)
<1>1. p * (1 + k) \in Nat /\ (p + 1) * (1 + k) = p * (1 + k) + 1 + k /\ (1 + n) * (1 + k) \in Nat
  OBVIOUS
<1>2. \A d \in Nat : d * (1 + k) >= 0
  OBVIOUS
<1>3. (n - p) * (1 + k) >= 0
  BY <1>2
<1>4. (1 + n) * (1 + k) = (p + 1) * (1 + k) + (n - p) * (1 + k)
  OBVIOUS
<1>5. n * k >= 0 /\ (1 + n) * (1 + k) = 1 + n + k + n * k
  OBVIOUS
<1> QED
  BY <1>1, <1>3, <1>4, <1>5

\* The fields of a call and of what the steps of the client make of it.
LEMMA CallFields ==
  ASSUME NEW c \in CallTypes
  PROVE  /\ c.protocol \in 0..MaxProtocolRetries /\ c.provider \in 0..MaxProviderRetries
         /\ c.attempt \in 0..1 /\ c.sent \in Nat
         /\ c.role \in Roles /\ c.model \in Models
  BY DEF CallTypes, ProviderCounts, ProtocolCounts, CallAttempts

\* Where a call that is being sent stands between its retries: one more request
\* fits into every bound that the next count of retries leaves.
LEMMA SendingCounts ==
  ASSUME NEW c, CallOK(c), c.state = "sending"
  PROVE  /\ c.sent + 1 <= MaxRequests(c.role)
         /\ c.protocol < MaxProtocolRetries =>
              c.sent + 1 <= SentEarlier(c) + (c.protocol + 1) * PerFeedback(c) + 0
         /\ c.sent + 1 <= SentEarlier(c) + c.protocol * PerFeedback(c) + (c.provider + 1)
         /\ c.model = "primary" => c.sent + 1 <= 1 + MaxProtocolRetries
         /\ c.role # "coder" /\ c.attempt = 0 => c.sent + 1 <= PerModelCall
<1> DEFINE p == c.protocol
           q == c.provider
<1> USE ClientAssumption
<1>1. /\ p \in 0..MaxProtocolRetries /\ q \in 0..MaxProviderRetries
      /\ c.attempt \in 0..1 /\ c.sent \in Nat
      /\ c.role \in Roles /\ c.model \in Models
  BY CallFields DEF CallOK
<1>2. /\ p * (1 + MaxProviderRetries) \in Nat
      /\ p < MaxProtocolRetries =>
           p * (1 + MaxProviderRetries) + q + 1 <= (p + 1) * (1 + MaxProviderRetries)
      /\ p * (1 + MaxProviderRetries) + q + 1 <= PerModelCall
      /\ PerModelCall \in Nat
      /\ 1 + MaxProtocolRetries <= PerModelCall
  BY <1>1, Products DEF PerModelCall
<1>3. c.sent <= SentEarlier(c) + p * PerFeedback(c) + q
  BY DEF CallOK
<1>4. CASE c.model = "primary"
  <2>1. /\ q = 0 /\ PerFeedback(c) = 1 /\ p * 1 = p /\ (p + 1) * 1 = p + 1
        /\ SentEarlier(c) = 0 /\ c.role = "coder"
    BY <1>1, <1>4 DEF CallOK, PerFeedback, SentEarlier
  <2>2. MaxRequests(c.role) = 1 + MaxProtocolRetries + PerModelCall
    BY <2>1 DEF MaxRequests
  <2> HIDE DEF p, q
  <2> QED
    BY <1>1, <1>2, <1>3, <2>1, <2>2 DEF p, q
<1>5. CASE c.model # "primary" /\ c.role = "coder"
  <2>1. /\ PerFeedback(c) = 1 + MaxProviderRetries
        /\ SentEarlier(c) = 1 + MaxProtocolRetries
    BY <1>5 DEF PerFeedback, SentEarlier
  <2>2. MaxRequests(c.role) = 1 + MaxProtocolRetries + PerModelCall
    BY <1>5 DEF MaxRequests
  <2>3. /\ p * PerFeedback(c) = p * (1 + MaxProviderRetries)
        /\ (p + 1) * PerFeedback(c) = (p + 1) * (1 + MaxProviderRetries)
        /\ (p + 1) * PerFeedback(c) \in Nat
    BY <1>1, <2>1
  <2> QED
    BY <1>1, <1>2, <1>3, <1>5, <2>1, <2>2, <2>3
<1>6. CASE c.model # "primary" /\ c.role # "coder"
  <2>1. /\ PerFeedback(c) = 1 + MaxProviderRetries
        /\ SentEarlier(c) = c.attempt * PerModelCall
    BY <1>6 DEF PerFeedback, SentEarlier
  <2>2. MaxRequests(c.role) = PerModelCall + PerModelCall
    BY <1>2, <1>6 DEF MaxRequests
  <2>3. SentEarlier(c) = IF c.attempt = 0 THEN 0 ELSE PerModelCall
    BY <1>1, <1>2, <2>1
  <2>4. /\ p * PerFeedback(c) = p * (1 + MaxProviderRetries)
        /\ (p + 1) * PerFeedback(c) = (p + 1) * (1 + MaxProviderRetries)
        /\ (p + 1) * PerFeedback(c) \in Nat
    BY <1>1, <2>1
  <2> QED
    BY <1>1, <1>2, <1>3, <1>6, <2>1, <2>2, <2>3, <2>4
<1> QED
  BY <1>4, <1>5, <1>6

LEMMA CallStepOK == CallOK(call) /\ CallStep => CallOK(call')
<1> SUFFICES ASSUME CallOK(call), CallStep
             PROVE  CallOK(call')
  OBVIOUS
<1> USE ClientAssumption
<1>a. call \in CallTypes
  BY DEF CallOK
<1>b. /\ call.protocol \in 0..MaxProtocolRetries /\ call.provider \in 0..MaxProviderRetries
      /\ call.attempt \in 0..1 /\ call.sent \in Nat
      /\ call.role \in Roles /\ call.model \in Models
  BY <1>a, CallFields
<1>c. call.sent + 1 \in Nat
  BY <1>b
<1>2. ASSUME NEW r \in Replies(call.role), RetryWithFeedback(r) PROVE CallOK(call')
  <2>1. call' = [call EXCEPT !.sent = call.sent + 1, !.protocol = call.protocol + 1, !.provider = 0]
    BY <1>a, <1>2 DEF RetryWithFeedback, Feedback, Sent, CallTypes
  <2>2. call.state = "sending" /\ call.protocol < MaxProtocolRetries
    BY <1>2 DEF RetryWithFeedback
  <2>a. 0 \in ProviderCounts /\ call.protocol + 1 \in ProtocolCounts /\ call.sent + 1 \in Nat
    BY <1>b, <2>2 DEF ProviderCounts, ProtocolCounts
  <2>3. call' \in CallTypes
    BY <1>a, <2>1, <2>a DEF CallTypes
  <2>4. /\ call'.state = "sending" /\ call'.role = call.role /\ call'.model = call.model
        /\ call'.attempt = call.attempt /\ call'.provider = 0
        /\ call'.protocol = call.protocol + 1 /\ call'.sent = call.sent + 1
    BY <1>a, <2>1, <2>2 DEF CallTypes
  <2>5. SentEarlier(call') = SentEarlier(call) /\ PerFeedback(call') = PerFeedback(call)
    BY <2>4 DEF SentEarlier, PerFeedback
  <2>6. MaxRequests(call'.role) = MaxRequests(call.role)
    BY <2>4
  <2> QED
    BY <2>2, <2>3, <2>4, <2>5, <2>6, <1>b, SendingCounts DEF CallOK
\* The call ends with one request more.
<1>3. ASSUME NEW s \in {"done", "failed"}, NEW r \in AllReplies, call.state = "sending",
             call' = [call EXCEPT !.sent = call.sent + 1, !.state = s, !.reply = r]
      PROVE  CallOK(call')
  <2>a. s \in CallStates
    BY DEF CallStates
  <2>1. call' \in CallTypes
    BY <1>a, <1>c, <1>3, <2>a DEF CallTypes
  <2>2. /\ call'.state = s /\ call'.role = call.role /\ call'.model = call.model
        /\ call'.attempt = call.attempt /\ call'.provider = call.provider
        /\ call'.sent = call.sent + 1
    BY <1>a, <1>3 DEF CallTypes
  <2>3. s # "sending"
    OBVIOUS
  <2>4. MaxRequests(call'.role) = MaxRequests(call.role)
    BY <2>2
  <2> QED
    BY <1>3, <2>1, <2>2, <2>3, <2>4, <1>b, SendingCounts DEF CallOK
<1>4. call.reply \in AllReplies
  BY <1>a DEF CallTypes
<1>5. ASSUME NEW r \in Replies(call.role), TakeReply(r) PROVE CallOK(call')
  <2>1. call.state = "sending"
    BY <1>5 DEF TakeReply
  <2>2. r \in AllReplies
    BY <1>b DEF Replies, AllReplies, Decisions, DecisionNames, Roles
  <2>3. CASE Valid(call.role, r)
    <3>1. call' = [call EXCEPT !.sent = call.sent + 1, !.state = "done", !.reply = r]
      BY <1>a, <1>5, <2>3 DEF TakeReply, Sent, CallTypes
    <3> QED
      BY <1>3, <2>1, <2>2, <3>1
  <2>4. CASE ~Valid(call.role, r) /\ call.attempt # 0
    <3>1. call' = [call EXCEPT !.sent = call.sent + 1, !.state = "failed",
                               !.reply = call.reply]
      BY <1>a, <1>5, <2>4 DEF TakeReply, Sent, CallTypes
    <3> QED
      BY <1>3, <1>4, <2>1, <3>1
  <2>5. CASE ~Valid(call.role, r) /\ call.attempt = 0
    <3>1. call' = [call EXCEPT !.sent = call.sent + 1, !.provider = 0, !.protocol = 0,
                               !.attempt = 1]
      BY <1>a, <1>5, <2>5 DEF TakeReply, Sent, Fresh, CallTypes
    <3>2. 0 \in ProviderCounts /\ 0 \in ProtocolCounts /\ 1 \in CallAttempts
      BY DEF ProviderCounts, ProtocolCounts, CallAttempts
    <3>3. call' \in CallTypes
      BY <1>a, <1>c, <3>1, <3>2 DEF CallTypes
    <3>4. /\ call'.state = "sending" /\ call'.role = call.role /\ call'.model = call.model
          /\ call'.attempt = 1 /\ call'.provider = 0 /\ call'.protocol = 0
          /\ call'.sent = call.sent + 1
      BY <1>a, <2>1, <3>1 DEF CallTypes
    <3>5. call.role # "coder" /\ call.model # "primary"
      BY <2>5 DEF Valid, CallOK
    <3>6. MaxRequests(call'.role) = MaxRequests(call.role)
      BY <3>4
    <3>7. call.sent + 1 <= PerModelCall /\ PerModelCall \in Nat
      BY <2>1, <2>5, <3>5, <1>b, SendingCounts, Products DEF PerModelCall
    <3>8. SentEarlier(call') = PerModelCall /\ PerFeedback(call') \in Nat
      BY <3>4, <3>5, <3>7 DEF SentEarlier, PerFeedback
    <3>9. SentEarlier(call') + 0 * PerFeedback(call') + 0 = PerModelCall
      BY <3>7, <3>8
    <3> QED
      BY <2>1, <3>3, <3>4, <3>5, <3>6, <3>7, <3>9, <1>b, SendingCounts DEF CallOK
  <2> QED
    BY <2>3, <2>4, <2>5
<1>6. ASSUME RetryProvider PROVE CallOK(call')
  <2>1. call' = [call EXCEPT !.sent = call.sent + 1, !.provider = call.provider + 1]
    BY <1>a, <1>6 DEF RetryProvider, Sent, CallTypes
  <2>2. /\ call.state = "sending" /\ call.model = "verifier"
        /\ call.provider < MaxProviderRetries
    BY <1>6 DEF RetryProvider
  <2>3. call.provider + 1 \in ProviderCounts /\ call.sent + 1 \in Nat
    BY <1>b, <2>2 DEF ProviderCounts
  <2>4. call' \in CallTypes
    BY <1>a, <2>1, <2>3 DEF CallTypes
  <2>5. /\ call'.state = "sending" /\ call'.role = call.role /\ call'.model = call.model
        /\ call'.attempt = call.attempt /\ call'.provider = call.provider + 1
        /\ call'.protocol = call.protocol /\ call'.sent = call.sent + 1
    BY <1>a, <2>1, <2>2 DEF CallTypes
  <2>6. SentEarlier(call') = SentEarlier(call) /\ PerFeedback(call') = PerFeedback(call)
    BY <2>5 DEF SentEarlier, PerFeedback
  <2>7. MaxRequests(call'.role) = MaxRequests(call.role)
    BY <2>5
  <2> QED
    BY <2>2, <2>4, <2>5, <2>6, <2>7, <1>b, SendingCounts DEF CallOK
<1>7. ASSUME ProviderFails PROVE CallOK(call')
  <2>1. call.state = "sending"
    BY <1>7 DEF ProviderFails
  <2>2. CASE call.model # "primary"
    <3>1. call' = [call EXCEPT !.sent = call.sent + 1, !.state = "failed",
                               !.reply = call.reply]
      BY <1>a, <1>7, <2>2 DEF ProviderFails, Sent, CallTypes
    <3> QED
      BY <1>3, <1>4, <2>1, <3>1
  <2>3. CASE call.model = "primary"
    <3>1. call' = [call EXCEPT !.sent = call.sent + 1, !.provider = 0, !.protocol = 0,
                               !.model = "verifier"]
      BY <1>a, <1>7, <2>3 DEF ProviderFails, Sent, Fresh, CallTypes
    <3>2. 0 \in ProviderCounts /\ 0 \in ProtocolCounts /\ "verifier" \in Models
      BY DEF ProviderCounts, ProtocolCounts, Models
    <3>3. call' \in CallTypes
      BY <1>a, <1>c, <3>1, <3>2 DEF CallTypes
    <3>4. /\ call'.state = "sending" /\ call'.role = call.role /\ call'.model = "verifier"
          /\ call'.attempt = call.attempt /\ call'.provider = 0 /\ call'.protocol = 0
          /\ call'.sent = call.sent + 1
      BY <1>a, <2>1, <3>1 DEF CallTypes
    <3>5. call.role = "coder" /\ call.attempt = 0
      BY <2>3 DEF CallOK
    <3>6. MaxRequests(call'.role) = MaxRequests(call.role)
      BY <3>4
    <3>7. call.sent + 1 <= 1 + MaxProtocolRetries
      BY <2>1, <2>3, SendingCounts
    <3>8. SentEarlier(call') = 1 + MaxProtocolRetries /\ PerFeedback(call') \in Nat
      BY <3>4, <3>5 DEF SentEarlier, PerFeedback
    <3>9. SentEarlier(call') + 0 * PerFeedback(call') + 0 = 1 + MaxProtocolRetries
      BY <3>8
    <3> QED
      BY <2>1, <3>3, <3>4, <3>5, <3>6, <3>7, <3>9, <1>b, SendingCounts DEF CallOK
  <2> QED
    BY <2>2, <2>3
<1>8. ASSUME ContextTooLarge PROVE CallOK(call')
  <2>1. call' = [call EXCEPT !.state = "failed"]
    BY <1>8 DEF ContextTooLarge
  <2>2. call' \in CallTypes
    BY <1>a, <2>1 DEF CallTypes, CallStates
  <2>3. /\ call'.state = "failed" /\ call'.role = call.role /\ call'.model = call.model
        /\ call'.attempt = call.attempt /\ call'.provider = call.provider
        /\ call'.sent = call.sent
    BY <1>a, <2>1 DEF CallTypes
  <2> QED
    BY <2>2, <2>3 DEF CallOK, MaxRequests
<1> QED
  BY <1>2, <1>5, <1>6, <1>7, <1>8 DEF CallStep, Answered

LEMMA RequestsNat == PerModelCall \in Nat
<1>1. 0 \in 0..MaxProtocolRetries /\ 0 \in 0..MaxProviderRetries
  BY ClientAssumption
<1> QED
  BY <1>1, Products, ClientAssumption DEF PerModelCall

\* A session without a call, and a call that begins.
LEMMA IdleOK == CallOK(Idle)
<1>2. 0 \in ProviderCounts /\ 0 \in ProtocolCounts /\ 0 \in CallAttempts
      /\ NoReply \in AllReplies
  BY ClientAssumption
     DEF ProviderCounts, ProtocolCounts, CallAttempts, NoReply, AllReplies, DecisionNames
<1>3. Idle \in CallTypes
  BY <1>2 DEF Idle, CallTypes, CallStates, Roles, Models
<1> QED
  BY RequestsNat, ClientAssumption, <1>3 DEF CallOK, Idle, MaxRequests

LEMMA BeginOK == ASSUME NEW role \in Roles, Begin(role) PROVE CallOK(call')
<1> USE ClientAssumption
<1> DEFINE model == IF role = "coder" THEN "primary" ELSE "verifier"
<1>1. call' = [Idle EXCEPT !.state = "sending", !.role = role, !.model = model]
  BY DEF Begin
<1>2. model \in Models /\ "sending" \in CallStates /\ Idle \in CallTypes
  BY IdleOK DEF Models, CallStates, CallOK
<1>3. call' \in CallTypes
  BY <1>1, <1>2 DEF CallTypes
<1>4. /\ call'.role = role /\ call'.model = model /\ call'.attempt = 0
      /\ call'.provider = 0 /\ call'.protocol = 0 /\ call'.sent = 0
  BY <1>1 DEF Idle
<1>5. SentEarlier(call') \in Nat /\ 0 * PerFeedback(call') = 0
  BY <1>4, RequestsNat DEF SentEarlier, PerFeedback
<1>6. MaxRequests(role) \in Nat
  BY RequestsNat DEF MaxRequests
<1> QED
  BY <1>3, <1>4, <1>5, <1>6 DEF CallOK

\* What the actions of the session do to the call.
LEMMA CallChanges ==
  [Next]_vars =>
    \/ call' = call
    \/ call' = Idle
    \/ \E role \in Roles : Begin(role)
    \/ CallStep
  BY DEF Next, SessionStep, ToolStep, Claim, AskModel, CallTools, OutOfTurns, ToolChosen,
     ToolNotAvailable, TurnFails, Malformed, Abort, SubmitContract, ContractAccepted,
     ContractNotAccepted, ContractRejected, ChangeSource, Probe, ProbeDone,
     ReviewGeneratedTest, OracleReplaced, OracleKept, Lookup, RequestClarification,
     RequestExampleCorrection, AnswerInput, BuildFails, ValidationFails, ValidationPasses,
     Publish, ModelStep, Crash, Rejected, Forget, ToolFails, ToEvaluation, Suspend,
     sessionVars, vars, Roles

\* However failures, timeouts, answers without a tool call and invalid answers
\* come, no call makes more requests of the providers than the nested retry loops
\* add up to (call_model, complete, review_contract, verify_generated_test).
THEOREM CallsBounded == Spec => []RequestsBounded
<1>1. Init => CallOK(call)
  BY IdleOK DEF Init
<1>2. CallOK(call) /\ [Next]_vars => CallOK(call)'
  BY CallChanges, IdleOK, BeginOK, CallStepOK
<1>3. CallOK(call) => RequestsBounded
  BY DEF CallOK, RequestsBounded
<1> QED
  BY <1>1, <1>2, <1>3, PTL DEF Spec
-----------------------------------------------------------------------------
(* Types, and what the place of the session says of its memory.            *)

WsShape(w) ==
  /\ w.source # None => w.draft # None
  /\ w.failure # None => w.source # None

\* What held when a tool was chosen still holds when it runs.
PendingShape(r, w) ==
  r.pending # None =>
    /\ r.pending.tool = "submit_contract" => w.draft = None
    /\ r.pending.tool \in {"probe", "review_generated_test"} => w.source # None

ControlInv ==
  /\ pc # "idle" => job = "running"
  /\ pc = "idle" => ws = FreshWs
  /\ job \in {"queued", "running", "awaiting_input"} => attempts <= MaxAttempts
  /\ job # "queued" \/ inputs # <<>> => attempts > 0
  /\ job = "awaiting_input" => inputs # <<>>
  /\ WsShape(ws)
  /\ saved # None => WsShape(saved.ws) /\ PendingShape(saved.run, saved.ws)
  /\ pc \in {"head", "tool", "review", "verify"} => PendingShape(run, ws)
  /\ pc = "model" => run.pending = None
  /\ pc \in {"tool", "review", "verify", "probe", "evaluate", "publish"} => run.pending # None
  /\ pc = "review" => run.pending.tool = "submit_contract"
  /\ pc = "verify" =>
       /\ run.pending.tool = "review_generated_test"
       /\ ws.failure = run.pending.test
       /\ ws.corrections < MaxTestCorrections
  /\ pc \in {"probe", "evaluate", "publish"} => ws.source # None

Shape == TypeOK /\ CallOK(call) /\ ControlInv

\* The calls, tool by tool.
LEMMA CallsByTool ==
  ASSUME NEW c \in Calls
  PROVE  /\ c # None
         /\ c.tool = "submit_contract" => c.plan \in [GenTests -> Results]
         /\ c.tool \in {"write_source", "edit_source"} => c.source \in Sources
         /\ c.tool = "review_generated_test" => c.test \in GenTests
         /\ c.tool = "request_clarification" => c.key \in Keys
         /\ c.tool = "request_example_correction" => c.example \in Examples /\ c.result \in Results
  BY AgentAssumption, NoneAssumption DEF Calls, PlainTools

LEMMA FreshTypes == FreshWs \in Workspaces /\ FreshRun \in Runs
<1>1. FreshWs \in Workspaces
  BY AgentAssumption DEF FreshWs, Workspaces
<1>2. FreshRun \in Runs
  BY AgentAssumption DEF FreshRun, Runs
<1> QED
  BY <1>1, <1>2

\* A draft of validate_contract, and a correction the user approved.
LEMMA DraftType ==
  ASSUME NEW plan \in [GenTests -> Results], NEW w \in Workspaces
  PROVE  DraftTests(plan, w) \in [Tests -> Results]
  BY AgentAssumption DEF DraftTests, Workspaces, Tests

LEMMA WsTypes ==
  ASSUME NEW w \in Workspaces
  PROVE  /\ w.draft \in [Tests -> Results] \cup {None} /\ w.source \in Sources \cup {None}
         /\ w.failure \in Checks \cup {None}
         /\ w.revisions \in 0..MaxSourceRevisions /\ w.corrections \in 0..MaxTestCorrections
         /\ w.probes \in 0..MaxProbes /\ w.lookups \in [Lookups -> 0..MaxLookups]
         /\ w.decisions \in SUBSET Keys /\ w.fixes \in [Examples -> Results \cup {None}]
         /\ w.probed \in SUBSET Candidates
  BY DEF Workspaces

LEMMA ApplyFixType ==
  ASSUME NEW w \in Workspaces, NEW e \in Examples, NEW r \in Results
  PROVE  /\ ApplyFix(w, e, r) \in Workspaces
         /\ ApplyFix(w, e, r).fixes = [w.fixes EXCEPT ![e] = r]
         /\ ApplyFix(w, e, r).draft = IF w.draft = None THEN None ELSE [w.draft EXCEPT ![e] = r]
         /\ ApplyFix(w, e, r).source = w.source
         /\ ApplyFix(w, e, r).failure = None
         /\ ApplyFix(w, e, r).revisions = w.revisions
         /\ ApplyFix(w, e, r).corrections = w.corrections
         /\ ApplyFix(w, e, r).probes = w.probes
         /\ ApplyFix(w, e, r).decisions = w.decisions
<1> DEFINE d == IF w.draft = None THEN None ELSE [w.draft EXCEPT ![e] = r]
           f == [w.fixes EXCEPT ![e] = r]
<1>1. d \in [Tests -> Results] \cup {None}
  BY WsTypes DEF Tests
<1>2. f \in [Examples -> Results \cup {None}]
  BY WsTypes
<1>3. ApplyFix(w, e, r) = [w EXCEPT !.fixes = f, !.failure = None, !.draft = d]
  BY DEF ApplyFix, Workspaces
<1> HIDE DEF d, f
<1> QED
  BY <1>1, <1>2, <1>3 DEF Workspaces, d, f

LEMMA ForgetShape ==
  ASSUME Forget
  PROVE  pc' = "idle" /\ ws' = FreshWs /\ ws' \in Workspaces /\ run' \in Runs /\ WsShape(ws')
  BY FreshTypes DEF Forget, Go, WsShape, FreshWs

LEMMA RejectedShape ==
  ASSUME TypeOK, ControlInv, Rejected, pc # "idle"
  PROVE  TypeOK' /\ ControlInv'
<1>1. TypeOK'
  BY ForgetShape DEF Rejected, TypeOK, history
<1>2. ControlInv'
  BY ForgetShape DEF Rejected, ControlInv, WsShape, PendingShape
<1> QED
  BY <1>1, <1>2

\* The loop comes round with the workspace w.
LEMMA ContinueShape ==
  ASSUME TypeOK, ControlInv, NEW w \in Workspaces, WsShape(w), Continue(w), pc # "idle",
         UNCHANGED <<job, attempts, saved, inputs, published, spent>>,
         sanctioned' \subseteq GenTests \X Results
  PROVE  TypeOK' /\ ControlInv'
<1>1. /\ pc' = "head" /\ ws' = w /\ run' = [run EXCEPT !.pending = None]
      /\ run' \in Runs /\ run'.pending = None
  BY DEF Continue, Go, ClearPending, TypeOK, Runs
<1>2. TypeOK'
  BY <1>1 DEF TypeOK
<1>3. ControlInv'
  BY <1>1 DEF ControlInv, WsShape, PendingShape
<1> QED
  BY <1>2, <1>3

LEMMA ToolFailsShape ==
  ASSUME TypeOK, ControlInv, ToolFails, pc # "idle"
  PROVE  TypeOK' /\ ControlInv'
  BY ContinueShape DEF ToolFails, registryVars, history, TypeOK, ControlInv

\* Work that is counted starts, on the workspace w.
LEMMA ToEvaluationShape ==
  ASSUME TypeOK, ControlInv, NEW w \in Workspaces, WsShape(w), w.source # None,
         ToEvaluation(w), pc = "tool"
  PROVE  TypeOK' /\ ControlInv'
<1>1. pc' = "evaluate" /\ ws' = w /\ spent' \in [evaluations : Nat, probes : Nat]
  BY DEF ToEvaluation, Go, TypeOK
<1>2. TypeOK'
  BY <1>1 DEF TypeOK, ToEvaluation, registryVars
<1>3. ControlInv'
  BY <1>1 DEF ControlInv, WsShape, PendingShape, ToEvaluation, registryVars
<1> QED
  BY <1>2, <1>3

LEMMA StepShape ==
  TypeOK /\ CallOK(call) /\ ControlInv /\ [Next]_vars => TypeOK' /\ ControlInv'
<1> SUFFICES ASSUME TypeOK, CallOK(call), ControlInv, [Next]_vars
             PROVE  TypeOK' /\ ControlInv'
  OBVIOUS
<1> USE AgentAssumption
<1>1. /\ ws \in Workspaces /\ run \in Runs
      /\ saved # None => saved.ws \in Workspaces /\ saved.run \in Runs
      /\ run.pending # None => run.pending \in Calls
      /\ run.turn \in 0..MaxTurns
      /\ WsShape(ws)
  BY DEF TypeOK, Runs, ControlInv
<1>2. CASE Claim
  <2>1. attempts' \in 0..MaxAttempts + 1 /\ attempts' > 0
    BY <1>2 DEF Claim, TypeOK, ControlInv, CountsAttempt, Claimable
  <2>2. ws' \in Workspaces /\ run' \in Runs /\ WsShape(ws')
    BY <1>1, <1>2, FreshTypes DEF Claim, Resume, ControlInv, WsShape, FreshWs
  <2>3. CASE attempts' > MaxAttempts
    <3>1. TypeOK'
      BY <1>2, <2>1, <2>2, <2>3 DEF Claim, TypeOK, history
    <3>2. ControlInv'
      BY <1>2, <2>3 DEF Claim, ControlInv, WsShape, PendingShape
    <3> QED
      BY <3>1, <3>2
  <2>4. CASE ~(attempts' > MaxAttempts)
    <3>1. /\ job' = "running" /\ pc' = "head" /\ Resume
          /\ UNCHANGED <<saved, inputs, published, call, history>>
      BY <1>2, <2>4 DEF Claim, Go
    <3>2. TypeOK'
      BY <2>1, <2>2, <3>1 DEF TypeOK, history
    <3>3. PendingShape(run', ws')
      BY <1>2, <3>1 DEF Resume, ControlInv, PendingShape, FreshRun
    <3>4. ControlInv'
      BY <2>1, <2>2, <2>4, <3>1, <3>3 DEF ControlInv
    <3> QED
      BY <3>2, <3>4
  <2> QED
    BY <2>3, <2>4
<1>3. CASE AskModel
  <2>1. run' = [run EXCEPT !.turn = run.turn + 1] /\ run.turn + 1 \in 0..MaxTurns
    BY <1>1, <1>3 DEF AskModel
  <2>2. run' \in Runs /\ run'.pending = None
    BY <1>1, <1>3, <2>1 DEF Runs, AskModel
  <2>3. saved' = [run |-> run, ws |-> ws] /\ saved' \in [run : Runs, ws : Workspaces]
    BY <1>1, <1>3 DEF AskModel, Checkpoint
  <2>4. TypeOK'
    BY <1>3, <2>2, <2>3 DEF AskModel, Go, TypeOK, history
  <2>5. ControlInv'
    BY <1>3, <2>2, <2>3 DEF AskModel, Go, ControlInv, WsShape, PendingShape
  <2> QED
    BY <2>4, <2>5
<1>4. CASE CallTools
  <2>1. saved' = [run |-> run, ws |-> ws] /\ saved' \in [run : Runs, ws : Workspaces]
    BY <1>1, <1>4 DEF CallTools, Checkpoint
  <2>2. TypeOK'
    BY <1>4, <2>1 DEF CallTools, Go, TypeOK, history
  <2>3. ControlInv'
    BY <1>4, <2>1 DEF CallTools, Go, ControlInv, WsShape, PendingShape
  <2> QED
    BY <2>2, <2>3
<1>5. CASE OutOfTurns \/ TurnFails \/ Abort \/ ContractRejected \/ BuildFails
  BY <1>5, RejectedShape DEF OutOfTurns, TurnFails, Abort, ContractRejected, BuildFails, Pending
<1>6. CASE ToolChosen
  <2>1. PICK c \in {x \in Calls : x.tool \in Available(ws)} :
          run' = [run EXCEPT !.pending = c, !.id = Len(inputs) + 1, !.retried = FALSE]
    BY <1>6 DEF ToolChosen
  <2>a. Len(inputs) + 1 \in Nat
    BY DEF TypeOK
  <2>2. run' \in Runs /\ run'.pending = c
    BY <1>1, <2>1, <2>a DEF Runs
  <2>3. PendingShape(run', ws)
    BY <2>1, <2>2 DEF PendingShape, Available, PhaseTools
  <2>4. TypeOK'
    BY <1>6, <2>2 DEF ToolChosen, Go, TypeOK, registryVars, history
  <2>5. ControlInv'
    BY <1>6, <2>2, <2>3 DEF ToolChosen, Go, ControlInv, registryVars
  <2> QED
    BY <2>4, <2>5
<1>7. CASE ToolNotAvailable
  <2>1. run' \in Runs /\ run'.pending = None
    BY <1>1, <1>7 DEF ToolNotAvailable, Runs, ControlInv
  <2>2. TypeOK'
    BY <1>7, <2>1 DEF ToolNotAvailable, Go, TypeOK, registryVars, history
  <2>3. ControlInv'
    BY <1>7, <2>1 DEF ToolNotAvailable, Go, ControlInv, registryVars, PendingShape
  <2> QED
    BY <2>2, <2>3
<1>8. CASE Malformed
  BY <1>8, ToolFailsShape DEF Malformed, Pending
<1>9. CASE SubmitContract
  <2>1. TypeOK'
    BY <1>9 DEF SubmitContract, Go, TypeOK, registryVars, history
  <2>2. ControlInv'
    BY <1>9 DEF SubmitContract, Pending, Go, ControlInv, registryVars
  <2> QED
    BY <2>1, <2>2
<1>10. CASE ContractAccepted
  <2> DEFINE d == DraftTests(run.pending.plan, ws)
             w == [ws EXCEPT !.draft = d, !.failure = None]
  <2>1. pc = "review" /\ run.pending \in Calls /\ run.pending.tool = "submit_contract"
    BY <1>1, <1>10 DEF ContractAccepted, ControlInv
  <2>2. run.pending.plan \in [GenTests -> Results] /\ d \in [Tests -> Results]
    BY <1>1, <2>1, CallsByTool, DraftType
  <2>3. w \in Workspaces /\ WsShape(w)
    <3> HIDE DEF d
    <3> QED
      BY <1>1, <2>2 DEF Workspaces, WsShape
  <2>4. sanctioned' \subseteq GenTests \X Results
    BY <1>10, <2>2 DEF ContractAccepted, TypeOK
  <2>5. Continue(w) /\ UNCHANGED <<job, attempts, saved, inputs, published, spent>>
    BY <1>10 DEF ContractAccepted, registryVars
  <2> HIDE DEF w
  <2> QED
    BY <2>1, <2>3, <2>4, <2>5, ContinueShape
<1>11. CASE ContractNotAccepted \/ OracleKept
  BY <1>1, <1>11, ContinueShape DEF ContractNotAccepted, OracleKept, registryVars, history, TypeOK
<1>12. CASE ChangeSource
  <2> DEFINE w == [ws EXCEPT !.source = run.pending.source, !.revisions = ws.revisions + 1]
  <2>1. CASE SourceBudgetSpent
    BY <1>12, <2>1, RejectedShape DEF ChangeSource
  <2>2. CASE ~SourceBudgetSpent /\ SourceFits(run.pending)
    <3>1. /\ pc = "tool" /\ run.pending \in Calls /\ run.pending.source \in Sources
          /\ run.pending.tool \in {"write_source", "edit_source"}
      BY <1>1, <1>12, CallsByTool DEF ChangeSource, ControlInv
    <3>2. ws.revisions + 1 \in 0..MaxSourceRevisions
      BY <1>1, <2>2, WsTypes DEF SourceBudgetSpent
    <3>3. ws.draft # None /\ run.pending.source # None
      BY <1>1, <2>2, <3>1 DEF SourceFits, WsShape
    <3>4. w \in Workspaces /\ WsShape(w) /\ w.source # None
      BY <1>1, <3>1, <3>2, <3>3 DEF Workspaces, WsShape
    <3>5. ToEvaluation(w)
      BY <1>12, <2>2 DEF ChangeSource
    <3> HIDE DEF w
    <3> QED
      BY <3>1, <3>4, <3>5, ToEvaluationShape
  <2>3. CASE ~SourceBudgetSpent /\ ~SourceFits(run.pending)
    BY <1>12, <2>3, ToolFailsShape DEF ChangeSource
  <2> QED
    BY <2>1, <2>2, <2>3
<1>13. CASE Probe
  <2>1. CASE Candidate \in ws.probed
    BY <1>13, <2>1, ToolFailsShape DEF Probe, Pending
  <2>2. CASE Candidate \notin ws.probed /\ ws.probes >= MaxProbes
    BY <1>13, <2>2, RejectedShape DEF Probe, Pending
  <2>3. CASE Candidate \notin ws.probed /\ ~(ws.probes >= MaxProbes)
    <3>1. /\ pc = "tool" /\ run.pending.tool = "probe" /\ pc' = "probe"
          /\ ws' = [ws EXCEPT !.probes = ws.probes + 1]
          /\ spent' = [spent EXCEPT !.probes = spent.probes + 1]
          /\ UNCHANGED <<registryVars, run, call, sanctioned>>
      BY <1>13, <2>3 DEF Probe, Pending, Go
    <3>2. ws.probes + 1 \in 0..MaxProbes
      BY <1>1, <2>3, WsTypes
    <3>3. /\ ws' \in Workspaces /\ ws'.source = ws.source
          /\ ws'.draft = ws.draft /\ ws'.failure = ws.failure
      BY <1>1, <3>1, <3>2 DEF Workspaces
    <3>4. spent' \in [evaluations : Nat, probes : Nat]
      BY <3>1 DEF TypeOK
    <3>7. /\ pc' = "probe" /\ ws' \in Workspaces
          /\ UNCHANGED <<job, attempts, saved, inputs, published, run, sanctioned>>
      BY <3>1, <3>3 DEF registryVars
    <3>5. TypeOK'
      BY <3>4, <3>7 DEF TypeOK
    <3>6. ControlInv'
      BY <3>1, <3>3 DEF ControlInv, WsShape, PendingShape, registryVars
    <3> QED
      BY <3>5, <3>6
  <2> QED
    BY <2>1, <2>2, <2>3
<1>14. CASE ProbeDone
  <2> DEFINE w == [ws EXCEPT !.probed = ws.probed \cup {Candidate}]
  <2>1. Candidate \in Candidates
    BY <1>1, <1>14, WsTypes DEF ProbeDone, Candidate, Candidates, ControlInv, WsShape
  <2>2. w \in Workspaces /\ WsShape(w)
    BY <1>1, <2>1, WsTypes DEF Workspaces, WsShape
  <2>3. pc = "probe" /\ Continue(w) /\ UNCHANGED <<registryVars, history>>
    BY <1>14 DEF ProbeDone
  <2> HIDE DEF w
  <2> QED
    BY <2>2, <2>3, ContinueShape DEF registryVars, history, TypeOK
<1>15. CASE ReviewGeneratedTest
  <2>1. CASE ws.corrections >= MaxTestCorrections
    BY <1>15, <2>1, RejectedShape DEF ReviewGeneratedTest, Pending
  <2>2. CASE ~(ws.corrections >= MaxTestCorrections) /\ IsLatestFailure(run.pending)
    <3>1. /\ pc = "tool" /\ run.pending.tool = "review_generated_test" /\ pc' = "verify"
          /\ ws.failure = run.pending.test
          /\ UNCHANGED <<registryVars, ws, run, history>>
      BY <1>15, <2>2 DEF ReviewGeneratedTest, Pending, Go, IsLatestFailure
    <3>2. ws.corrections < MaxTestCorrections
      BY <1>1, <2>2, WsTypes
    <3>3. TypeOK'
      BY <3>1 DEF TypeOK, registryVars, history
    <3>4. ControlInv'
      BY <3>1, <3>2 DEF ControlInv, registryVars
    <3> QED
      BY <3>3, <3>4
  <2>3. CASE ~(ws.corrections >= MaxTestCorrections) /\ ~IsLatestFailure(run.pending)
    BY <1>15, <2>3, ToolFailsShape DEF ReviewGeneratedTest, Pending
  <2> QED
    BY <2>1, <2>2, <2>3
<1>16. CASE OracleReplaced
  <2>1. PICK r \in Results :
          /\ ws' = [ws EXCEPT !.draft[run.pending.test] = r, !.corrections = ws.corrections + 1]
          /\ sanctioned' = sanctioned \cup {<<run.pending.test, r>>}
    BY <1>16 DEF OracleReplaced
  <2>2. /\ pc = "verify" /\ run.pending \in Calls /\ run.pending.test \in GenTests
        /\ pc' = "evaluate" /\ UNCHANGED <<registryVars, run>>
        /\ spent' = [spent EXCEPT !.evaluations = spent.evaluations + 1]
    BY <1>1, <1>16, CallsByTool DEF OracleReplaced, ControlInv, Go
  <2> DEFINE d == [ws.draft EXCEPT ![run.pending.test] = r]
  <2>3. ws.failure # None /\ ws.source # None /\ ws.draft # None
    BY <1>1, <2>2, AgentAssumption DEF ControlInv, WsShape, Checks, Tests
  <2>a. ws.draft \in [Tests -> Results] /\ run.pending.test \in Tests
    BY <1>1, <2>2, <2>3, WsTypes DEF Tests
  <2>4. d \in [Tests -> Results] /\ d # None
    BY <2>a
  <2>5. ws.corrections + 1 \in 0..MaxTestCorrections
    BY <1>1, <2>2, WsTypes DEF ControlInv
  <2>6. ws' = [ws EXCEPT !.draft = d, !.corrections = ws.corrections + 1]
    BY <1>1, <2>1 DEF Workspaces
  <2> HIDE DEF d
  <2>7. /\ ws' \in Workspaces /\ ws'.source = ws.source /\ ws'.draft = d
        /\ ws'.failure = ws.failure
    BY <1>1, <2>4, <2>5, <2>6 DEF Workspaces
  <2>8. /\ sanctioned' \subseteq GenTests \X Results
        /\ spent' \in [evaluations : Nat, probes : Nat]
    BY <2>1, <2>2 DEF TypeOK
  <2>9. TypeOK'
    BY <2>2, <2>7, <2>8 DEF TypeOK, registryVars
  <2>10. ControlInv'
    BY <2>2, <2>3, <2>4, <2>7 DEF ControlInv, WsShape, registryVars
  <2> QED
    BY <2>9, <2>10
<1>17. CASE Lookup
  <2> DEFINE l == run.pending.tool
             w == [ws EXCEPT !.lookups[l] = ws.lookups[l] + 1]
             counts == [ws.lookups EXCEPT ![l] = ws.lookups[l] + 1]
  <2>1. CASE ws.lookups[l] >= MaxLookups
    BY <1>17, <2>1, RejectedShape DEF Lookup
  <2>2. CASE ~(ws.lookups[l] >= MaxLookups)
    <3>1. pc = "tool" /\ l \in Lookups /\ Continue(w) /\ UNCHANGED <<registryVars, history>>
      BY <1>17, <2>2 DEF Lookup
    <3>2. counts \in [Lookups -> 0..MaxLookups]
      BY <1>1, <2>2, <3>1, WsTypes
    <3>3. w = [ws EXCEPT !.lookups = counts]
      BY <1>1, <3>1 DEF Workspaces
    <3> HIDE DEF counts, w
    <3>4. w \in Workspaces /\ WsShape(w)
      BY <1>1, <3>2, <3>3 DEF Workspaces, WsShape
    <3> QED
      BY <3>1, <3>4, ContinueShape DEF registryVars, history, TypeOK
  <2> QED
    BY <2>1, <2>2
<1>18. ASSUME Suspend, pc = "tool" PROVE TypeOK' /\ ControlInv'
  <2>1. [call |-> run.pending, answer |-> None] \in Inputs
    BY <1>1, <1>18 DEF Inputs, ControlInv
  <2>2. inputs' \in Seq(Inputs) /\ inputs' # <<>>
    BY <1>18, <2>1 DEF Suspend, TypeOK
  <2>3. TypeOK'
    BY <1>18, <2>2, ForgetShape DEF Suspend, TypeOK, history
  <2>4. ControlInv'
    BY <1>18, <2>2, ForgetShape DEF Suspend, ControlInv, WsShape, PendingShape
  <2> QED
    BY <2>3, <2>4
<1>19. CASE RequestClarification
  <2> DEFINE k == run.pending.key
             w == [ws EXCEPT !.decisions = ws.decisions \cup {k}]
  <2>1. /\ pc = "tool" /\ run.pending \in Calls /\ run.pending.tool = "request_clarification"
        /\ k \in Keys
    BY <1>1, <1>19, CallsByTool DEF RequestClarification, Pending, ControlInv
  <2>2. CASE Resolved(k)
    BY <1>19, <2>1, <2>2, ToolFailsShape DEF RequestClarification
  <2>3. CASE ~Resolved(k) /\ AnswerTo(run.id) # None
    <3>1. Continue(w) /\ UNCHANGED <<registryVars, history>>
      BY <1>19, <2>3 DEF RequestClarification
    <3>2. w \in Workspaces /\ WsShape(w)
      BY <1>1, <2>1, WsTypes DEF Workspaces, WsShape
    <3> HIDE DEF w
    <3> QED
      BY <2>1, <3>1, <3>2, ContinueShape DEF registryVars, history, TypeOK
  <2>4. CASE ~Resolved(k) /\ AnswerTo(run.id) = None
    BY <1>18, <1>19, <2>1, <2>4 DEF RequestClarification
  <2> QED
    BY <2>2, <2>3, <2>4
<1>20. CASE RequestExampleCorrection
  <2> DEFINE e == run.pending.example
             r == run.pending.result
             answer == AnswerTo(run.id)
             w == ApplyFix(ws, e, r)
  <2>1. /\ pc = "tool" /\ run.pending \in Calls
        /\ run.pending.tool = "request_example_correction"
        /\ e \in Examples /\ r \in Results
    BY <1>1, <1>20, CallsByTool DEF RequestExampleCorrection, Pending, ControlInv
  <2>2. w \in Workspaces /\ w.source = ws.source /\ w.failure = None
        /\ w.draft = IF ws.draft = None THEN None ELSE [ws.draft EXCEPT ![e] = r]
    <3>1. ws \in Workspaces /\ e \in Examples /\ r \in Results
      BY <1>1, <2>1
    <3> HIDE DEF e, r
    <3> QED
      BY ONLY <3>1, ApplyFixType
  <2>3. ws.draft # None => w.draft # None
    <3> HIDE DEF e, r, w
    <3>1. ws.draft # None => [ws.draft EXCEPT ![e] = r] \in [Tests -> Results]
      BY <1>1, <2>1, WsTypes DEF Tests
    <3> QED
      BY <2>2, <3>1
  <2>4. WsShape(w)
    BY <1>1, <2>2, <2>3 DEF WsShape
  <2>5. CASE r = Original[e] \/ ws.fixes[e] # None
    BY <1>20, <2>1, <2>5, ToolFailsShape DEF RequestExampleCorrection
  <2>6. CASE ~(r = Original[e] \/ ws.fixes[e] # None) /\ answer = None
    BY <1>18, <1>20, <2>1, <2>6 DEF RequestExampleCorrection
  <2>7. CASE /\ ~(r = Original[e] \/ ws.fixes[e] # None) /\ answer # None
             /\ answer = "approve" /\ ws.source # None /\ ws.draft # None
    <3>1. ToEvaluation(w)
      BY <1>20, <2>7 DEF RequestExampleCorrection
    <3> HIDE DEF w
    <3> QED
      BY <2>1, <2>2, <2>4, <2>7, <3>1, ToEvaluationShape
  <2>8. CASE /\ ~(r = Original[e] \/ ws.fixes[e] # None) /\ answer # None
             /\ ~(answer = "approve" /\ ws.source # None /\ ws.draft # None)
    <3>1. /\ Continue(IF answer = "approve" THEN w ELSE ws)
          /\ UNCHANGED <<registryVars, history>>
      BY <1>20, <2>8 DEF RequestExampleCorrection
    <3> HIDE DEF w, answer
    <3> QED
      BY <1>1, <2>1, <2>2, <2>4, <3>1, ContinueShape DEF registryVars, history, TypeOK
  <2> QED
    BY <2>5, <2>6, <2>7, <2>8
<1>21. CASE AnswerInput
  <2>1. PICK a \in Answers(inputs[Len(inputs)].call) :
          inputs' = [inputs EXCEPT ![Len(inputs)].answer = a]
    BY <1>21 DEF AnswerInput
  <2>2. /\ inputs \in Seq(Inputs) /\ inputs # <<>> /\ Len(inputs) \in DOMAIN inputs
        /\ inputs[Len(inputs)] \in Inputs
    BY <1>21 DEF AnswerInput, TypeOK, ControlInv
  <2>3. [inputs[Len(inputs)] EXCEPT !.answer = a] \in Inputs
    BY <2>2 DEF Inputs, Answers
  <2>4. inputs' = [inputs EXCEPT ![Len(inputs)] = [inputs[Len(inputs)] EXCEPT !.answer = a]]
    BY <2>1, <2>2
  <2>5. inputs' \in Seq(Inputs) /\ inputs' # <<>>
    BY <2>2, <2>3, <2>4
  <2>6. TypeOK'
    BY <1>21, <2>5 DEF AnswerInput, TypeOK, sessionVars, history
  <2>7. ControlInv'
    BY <1>21, <2>5 DEF AnswerInput, ControlInv, sessionVars, WsShape, PendingShape
  <2> QED
    BY <2>6, <2>7
<1>22. CASE ValidationFails
  <2>1. PICK c \in Checks : Continue([ws EXCEPT !.failure = c])
    BY <1>22 DEF ValidationFails
  <2>2. [ws EXCEPT !.failure = c] \in Workspaces /\ WsShape([ws EXCEPT !.failure = c])
    BY <1>1, <1>22 DEF ValidationFails, ControlInv, Workspaces, WsShape
  <2> QED
    BY <1>22, <2>1, <2>2, ContinueShape DEF ValidationFails, registryVars, history, TypeOK
<1>23. CASE ValidationPasses
  <2>1. ws' \in Workspaces /\ ws'.source = ws.source /\ WsShape(ws')
    BY <1>1, <1>23 DEF ValidationPasses, Workspaces, WsShape
  <2>2. TypeOK'
    BY <1>23, <2>1 DEF ValidationPasses, Go, TypeOK, registryVars, history
  <2>3. ControlInv'
    BY <1>23, <2>1 DEF ValidationPasses, Go, ControlInv, registryVars
  <2> QED
    BY <2>2, <2>3
<1>24. CASE Publish
  <2>1. Candidate \in Candidates
    BY <1>1, <1>24, WsTypes DEF Publish, Candidate, Candidates, ControlInv, WsShape
  <2>2. TypeOK'
    BY <1>24, <2>1, ForgetShape DEF Publish, TypeOK, history
  <2>3. ControlInv'
    BY <1>24, ForgetShape DEF Publish, ControlInv, WsShape, PendingShape
  <2> QED
    BY <2>2, <2>3
<1>25. CASE ModelStep \/ UNCHANGED vars
  BY <1>25 DEF ModelStep, vars, sessionVars, TypeOK, ControlInv, WsShape, PendingShape, registryVars, history
<1>26. CASE Crash
  <2>1. TypeOK'
    BY <1>26, ForgetShape DEF Crash, TypeOK, registryVars, history
  <2>2. ControlInv'
    BY <1>26, ForgetShape DEF Crash, ControlInv, registryVars, WsShape, PendingShape
  <2> QED
    BY <2>1, <2>2
<1> QED
  BY <1>2, <1>3, <1>4, <1>5, <1>6, <1>7, <1>8, <1>9, <1>10, <1>11, <1>12, <1>13, <1>14,
     <1>15, <1>16, <1>17, <1>19, <1>20, <1>21, <1>22, <1>23, <1>24, <1>25, <1>26
     DEF Next, SessionStep, ToolStep
LEMMA InitShape == Init => TypeOK /\ CallOK(call) /\ ControlInv
<1> SUFFICES ASSUME Init PROVE TypeOK /\ CallOK(call) /\ ControlInv
  OBVIOUS
<1>1. TypeOK
  BY FreshTypes, AgentAssumption DEF Init, TypeOK
<1>2. ControlInv
  BY AgentAssumption DEF Init, ControlInv, WsShape, PendingShape, FreshWs
<1> QED
  BY <1>1, <1>2, IdleOK DEF Init


\* Every session and every checkpoint keeps to the budgets, whatever is resumed
\* (drive_agent, load_or_create_run).
THEOREM AgentTypeCorrect == Spec => []TypeOK
<1>1. CallOK(call) /\ [Next]_vars => CallOK(call)'
  BY CallChanges, IdleOK, BeginOK, CallStepOK
<1> QED
  BY <1>1, InitShape, StepShape, PTL DEF Spec

-----------------------------------------------------------------------------
(* The checkpoint and the questions.                                       *)

SavedInv ==
  /\ pc \in {"tool", "review", "verify"} => saved = [run |-> run, ws |-> ws]
  /\ pc \in {"evaluate", "probe", "publish"} => saved # None /\ saved.run = run
  /\ pc = "model" => saved # None /\ saved.ws = ws /\ saved.run.pending = None
  /\ inputs # <<>> => saved # None

\* The call a run waits for has been put to the user, as the last question.
AskedAs(r) == inputs # <<>> /\ r.id = Len(inputs) /\ inputs[Len(inputs)].call = r.pending

NamedFresh(r) == r.pending # None => r.id = Len(inputs) + 1 \/ AskedAs(r)

\* A question that was put to the user had no answer in the workspace then.
StillOpen(r, w) ==
  r.pending # None /\ AskedAs(r) =>
    /\ r.pending.tool = "request_clarification" => r.pending.key \notin w.decisions
    /\ r.pending.tool = "request_example_correction" =>
         /\ w.fixes[r.pending.example] = None
         /\ r.pending.result # Original[r.pending.example]

InWorkspace(i, w) ==
  \/ inputs[i].answer \in {"reject", None}
  \/ inputs[i].answer = "text" /\ inputs[i].call.key \in w.decisions
  \/ inputs[i].answer = "approve" /\ w.fixes[inputs[i].call.example] = inputs[i].call.result

Reaches(r, w) ==
  \A i \in DOMAIN inputs : InWorkspace(i, w) \/ (r.id = i /\ r.pending = inputs[i].call)

Settled(w) == \A i \in DOMAIN inputs : InWorkspace(i, w)

Working == {"review", "verify", "probe", "evaluate", "publish"}

AnswersInv ==
  \A i \in DOMAIN inputs :
    /\ Asks(inputs[i].call)
    /\ inputs[i].answer # None => inputs[i].answer \in Answers(inputs[i].call)
    /\ inputs[i].answer = None => i = Len(inputs) /\ job = "awaiting_input"

QuestionInv ==
  /\ AnswersInv
  /\ job = "awaiting_input" => AskedAs(saved.run) /\ inputs[Len(inputs)].answer = None
  /\ saved # None =>
       NamedFresh(saved.run) /\ StillOpen(saved.run, saved.ws) /\ Reaches(saved.run, saved.ws)
  /\ pc # "idle" => NamedFresh(run) /\ Reaches(run, ws)
  /\ pc \in {"head", "tool"} => StillOpen(run, ws)
  /\ pc \in Working => Settled(ws)
  /\ NothingAskedTwice

\* Only a question and its answer change the list of inputs.
LEMMA StepSaved ==
  Shape /\ SavedInv /\ [Next]_vars => SavedInv'
<1> SUFFICES ASSUME Shape, SavedInv, [Next]_vars
             PROVE  SavedInv'
  OBVIOUS
<1> USE DEF SavedInv
<1>1. \A r, w : [run |-> r, ws |-> w].run = r /\ [run |-> r, ws |-> w].ws = w
  OBVIOUS
<1>2. ASSUME Forget, saved' = saved, inputs' = inputs PROVE SavedInv'
  BY <1>2, ForgetShape
<1>3. ASSUME NEW w, Continue(w), saved' = saved, inputs' = inputs PROVE SavedInv'
  BY <1>3 DEF Continue, Go
<1>4. CASE Claim
  BY <1>4, ForgetShape DEF Claim, Go
<1>5. CASE AskModel \/ CallTools
  <2>1. saved' = [run |-> run, ws |-> ws]
    BY <1>5 DEF AskModel, CallTools, Checkpoint
  <2>2. saved' # None
    BY <2>1, NoneAssumption DEF Shape, TypeOK
  <2> QED
    BY <1>5, <2>1, <2>2 DEF AskModel, CallTools, Go
<1>6. CASE OutOfTurns \/ TurnFails \/ Abort \/ ContractRejected \/ BuildFails \/ Crash \/ Publish
  BY <1>2, <1>6 DEF OutOfTurns, TurnFails, Abort, ContractRejected, BuildFails, Crash, Publish,
     Rejected, registryVars
<1>7. CASE ToolChosen \/ ToolNotAvailable
  BY <1>7 DEF ToolChosen, ToolNotAvailable, Go, registryVars
<1>8. CASE Malformed \/ ContractAccepted \/ ContractNotAccepted \/ ProbeDone \/ OracleKept
           \/ ValidationFails
  BY <1>3, <1>8 DEF Malformed, ContractAccepted, ContractNotAccepted, ProbeDone, OracleKept,
     ValidationFails, ToolFails, registryVars
<1>9. CASE SubmitContract \/ ReviewGeneratedTest
  BY <1>3, <1>2, <1>9 DEF SubmitContract, ReviewGeneratedTest, Pending, Go, Rejected, ToolFails,
     registryVars
<1>a. \/ pc \in {"tool", "verify"} => saved # None /\ saved.run = run
      \/ ~Shape
  BY <1>1, NoneAssumption DEF Shape, TypeOK
<1>10. ASSUME NEW w, ToEvaluation(w), pc = "tool" PROVE SavedInv'
  BY <1>a, <1>10 DEF ToEvaluation, Go, registryVars
<1>11. CASE ChangeSource \/ (RequestExampleCorrection /\ ~Suspend)
  BY <1>2, <1>3, <1>10, <1>11 DEF ChangeSource, RequestExampleCorrection, Pending, Rejected,
     ToolFails, registryVars
<1>12. CASE Probe \/ OracleReplaced
  BY <1>2, <1>3, <1>a, <1>12 DEF Probe, OracleReplaced, Pending, Rejected, ToolFails, Go,
     registryVars
<1>13. CASE Lookup \/ (RequestClarification /\ ~Suspend)
  BY <1>2, <1>3, <1>13 DEF Lookup, RequestClarification, Rejected, ToolFails, registryVars
<1>14. CASE pc = "tool" /\ Suspend
  BY <1>a, <1>14, ForgetShape DEF Suspend
<1>15. CASE AnswerInput
  <2>1. inputs # <<>>
    BY <1>15 DEF AnswerInput, Shape, ControlInv
  <2> QED
    BY <1>15, <2>1 DEF AnswerInput, sessionVars
<1>16. CASE ValidationPasses
  BY <1>16 DEF ValidationPasses, Go, registryVars
<1>17. CASE ModelStep \/ UNCHANGED vars
  BY <1>17 DEF ModelStep, vars, sessionVars, registryVars
<1>18. CASE RequestClarification \/ RequestExampleCorrection
  <2>1. pc = "tool"
    BY <1>18 DEF RequestClarification, RequestExampleCorrection, Pending
  <2> QED
    BY <2>1, <1>11, <1>13, <1>14, <1>18
<1> QED
  BY <1>4, <1>5, <1>6, <1>7, <1>8, <1>9, <1>11, <1>12, <1>13, <1>15, <1>16, <1>17, <1>18
     DEF Next, SessionStep, ToolStep

\* Nothing about the questions changes, and what the session holds still reaches
\* the answers.
LEMMA QuietQuestions ==
  ASSUME QuestionInv, inputs' = inputs, saved' = saved,
         job # "awaiting_input", job' # "awaiting_input",
         pc' # "idle" => NamedFresh(run)' /\ Reaches(run, ws)',
         pc' \in {"head", "tool"} => StillOpen(run, ws)',
         pc' \in Working => Settled(ws)'
  PROVE  QuestionInv'
<1>1. AnswersInv'
  BY DEF QuestionInv, AnswersInv
<1>2. NothingAskedTwice'
  BY DEF QuestionInv, NothingAskedTwice, ApprovedFix
<1>3. saved' # None =>
        NamedFresh(saved.run)' /\ StillOpen(saved.run, saved.ws)' /\ Reaches(saved.run, saved.ws)'
  BY DEF QuestionInv, NamedFresh, StillOpen, Reaches, InWorkspace, AskedAs
<1> QED
  BY <1>1, <1>2, <1>3 DEF QuestionInv

\* The workspace keeps what it has decided.
Keeps(w, v) ==
  /\ w.decisions \subseteq v.decisions
  /\ \A e \in Examples : w.fixes[e] # None => v.fixes[e] = w.fixes[e]

LEMMA KeptReaches ==
  ASSUME Shape, AnswersInv, NEW w, NEW v, Keeps(w, v), NEW i \in DOMAIN inputs, InWorkspace(i, w)
  PROVE  InWorkspace(i, v)
<1>1. inputs[i] \in Inputs
  BY DEF Shape, TypeOK
<1>2. inputs[i].call \in Calls
  BY <1>1 DEF Inputs
<1>3. inputs[i].answer = "approve" => inputs[i].call.tool = "request_example_correction"
  BY NoneAssumption DEF AnswersInv, Asks, Answers
<1>4. inputs[i].answer = "approve" =>
        inputs[i].call.example \in Examples /\ inputs[i].call.result # None
  BY <1>2, <1>3, CallsByTool, AgentAssumption
<1> QED
  BY <1>4 DEF Keeps, InWorkspace

\* What the list of questions says of one of them.
LEMMA QuestionFacts ==
  ASSUME Shape, AnswersInv, NEW i \in DOMAIN inputs
  PROVE  /\ i \in 1..Len(inputs) /\ Len(inputs) \in Nat
         /\ inputs[i].call \in Calls /\ inputs[i].call # None /\ Asks(inputs[i].call)
         /\ job # "awaiting_input" => inputs[i].answer # None
         /\ inputs[i].answer # None => inputs[i].answer \in Answers(inputs[i].call)
<1>1. inputs \in Seq(Inputs)
  BY DEF Shape, TypeOK
<1>2. inputs[i] \in Inputs
  BY <1>1
<1>3. inputs[i].call \in Calls
  BY <1>2 DEF Inputs
<1>4. inputs[i].call # None
  BY <1>3, NoneAssumption
<1>5. Len(inputs) \in Nat /\ DOMAIN inputs = 1..Len(inputs)
  BY <1>1
<1> QED
  BY <1>3, <1>4, <1>5 DEF AnswersInv

\* A run that waits for no question has every answer in its workspace.
LEMMA NothingPending ==
  ASSUME Shape, QuestionInv, pc # "idle", run.pending = None \/ ~Asks(run.pending),
         NEW i \in DOMAIN inputs
  PROVE  InWorkspace(i, ws)
<1>1. InWorkspace(i, ws) \/ run.pending = inputs[i].call
  BY DEF QuestionInv, Reaches
<1>2. inputs[i].call # None /\ Asks(inputs[i].call)
  BY QuestionFacts DEF QuestionInv
<1> QED
  BY <1>1, <1>2

\* The session ends, the job does not wait for an answer.
LEMMA EndedQuestions ==
  ASSUME QuestionInv, UNCHANGED <<inputs, saved>>, pc' = "idle",
         job # "awaiting_input", job' # "awaiting_input"
  PROVE  QuestionInv'
  BY QuietQuestions DEF Working

\* The tool call is answered, and the workspace holds every answer.
LEMMA ContinueQuestions ==
  ASSUME Shape, QuestionInv, pc # "idle", NEW w, Continue(w), UNCHANGED registryVars,
         Settled(w)
  PROVE  QuestionInv'
<1>1. job = "running" /\ UNCHANGED <<inputs, saved, job>>
  BY DEF Shape, ControlInv, registryVars
<1>2. pc' = "head" /\ ws' = w /\ run'.pending = None
  BY DEF Continue, Go, ClearPending, Shape, TypeOK, Runs
<1>3. NamedFresh(run)'
  BY <1>2 DEF NamedFresh
<1>4. StillOpen(run, ws)'
  BY <1>2 DEF StillOpen
<1>5. Reaches(run, ws)'
  BY <1>1, <1>2 DEF Reaches, Settled, InWorkspace
<1> QED
  BY <1>1, <1>2, <1>3, <1>4, <1>5, QuietQuestions DEF Working

\* A tool that asks nothing is answered.
LEMMA PlainQuestions ==
  ASSUME Shape, QuestionInv, pc # "idle", run.pending = None \/ ~Asks(run.pending),
         NEW w, Keeps(ws, w)
  PROVE  /\ Settled(w)
         /\ Continue(w) /\ UNCHANGED registryVars => QuestionInv'
<1>1. ASSUME NEW i \in DOMAIN inputs PROVE InWorkspace(i, w)
  <2>1. InWorkspace(i, ws)
    BY NothingPending
  <2> QED
    BY <2>1, KeptReaches DEF QuestionInv
<1>2. Settled(w)
  BY <1>1 DEF Settled
<1> QED
  BY <1>2, ContinueQuestions

\* The work of a call has begun, and goes on with the workspace it is counted in.
LEMMA OnwardQuestions ==
  ASSUME Shape, QuestionInv, pc # "idle", pc' \in Working, Settled(ws'),
         UNCHANGED registryVars, run' = run
  PROVE  QuestionInv'
<1>1. job = "running" /\ UNCHANGED <<inputs, saved, job>>
  BY DEF Shape, ControlInv, registryVars
<1>2. NamedFresh(run)'
  BY <1>1 DEF QuestionInv, NamedFresh, AskedAs
<1>3. Settled(ws)'
  BY <1>1 DEF Settled, InWorkspace
<1>4. Reaches(run, ws)'
  BY <1>3 DEF Reaches, Settled
<1> QED
  BY <1>1, <1>2, <1>3, <1>4, QuietQuestions DEF Working

LEMMA WorkingQuestions ==
  ASSUME Shape, QuestionInv, pc \in Working, NEW w, Keeps(ws, w)
  PROVE  /\ Settled(w)
         /\ Continue(w) /\ UNCHANGED registryVars => QuestionInv'
<1>1. ASSUME NEW i \in DOMAIN inputs PROVE InWorkspace(i, w)
  BY KeptReaches DEF QuestionInv, Settled
<1>2. Settled(w)
  BY <1>1 DEF Settled
<1> QED
  BY <1>2, ContinueQuestions DEF Working

\* A question is put to the user, or its answer is found.
LEMMA AskedQuestion ==
  ASSUME Shape, SavedInv, QuestionInv, pc = "tool", Asks(run.pending),
         AnswerTo(run.id) = None
  PROVE  run.id = Len(inputs) + 1
<1>1. run.pending # None /\ job = "running"
  BY DEF Shape, ControlInv
<1>2. NamedFresh(run)
  BY DEF QuestionInv
<1>3. ASSUME AskedAs(run) PROVE FALSE
  <2>1. run.id \in DOMAIN inputs
    BY <1>3 DEF AskedAs, Shape, TypeOK
  <2>2. inputs[run.id].answer # None
    BY <1>1, <2>1, QuestionFacts DEF QuestionInv
  <2> QED
    BY <2>1, <2>2 DEF AnswerTo
<1> QED
  BY <1>1, <1>2, <1>3 DEF NamedFresh

LEMMA SuspendQuestions ==
  ASSUME Shape, SavedInv, QuestionInv, pc = "tool", Asks(run.pending),
         run.pending.tool = "request_clarification" => run.pending.key \notin ws.decisions,
         run.pending.tool = "request_example_correction" =>
           ws.fixes[run.pending.example] = None /\ run.pending.result # Original[run.pending.example],
         AnswerTo(run.id) = None, Suspend
  PROVE  QuestionInv'
<1> DEFINE n == Len(inputs) + 1
<1>1. /\ run.id = n /\ job = "running" /\ run.pending # None
      /\ saved = [run |-> run, ws |-> ws] /\ saved # None
  BY AskedQuestion, NoneAssumption DEF Shape, TypeOK, ControlInv, SavedInv
<1>2. /\ inputs' = Append(inputs, [call |-> run.pending, answer |-> None])
      /\ job' = "awaiting_input" /\ pc' = "idle" /\ saved' = saved
  BY ForgetShape DEF Suspend
<1>3. /\ inputs \in Seq(Inputs) /\ Len(inputs) \in Nat
      /\ Len(inputs') = n /\ DOMAIN inputs = 1..Len(inputs) /\ DOMAIN inputs' = 1..n
      /\ \A i \in DOMAIN inputs : inputs'[i] = inputs[i] /\ i # n
      /\ inputs'[n] = [call |-> run.pending, answer |-> None]
      /\ inputs' # <<>>
  BY <1>2 DEF Shape, TypeOK
<1>4. inputs'[n].call = run.pending /\ inputs'[n].answer = None
  BY <1>3
<1>5. saved.run = run /\ saved.ws = ws
  BY <1>1
<1> HIDE DEF n
<1>6. \A i \in DOMAIN inputs : inputs[i].answer # None /\ InWorkspace(i, ws)
  <2> TAKE i \in DOMAIN inputs
  <2>1. inputs[i].answer # None
    BY <1>1, QuestionFacts DEF QuestionInv
  <2>2. run.id # i
    BY <1>1, <1>3
  <2>3. Reaches(run, ws)
    BY DEF QuestionInv
  <2> QED
    BY <2>1, <2>2, <2>3 DEF Reaches
<1>7. \A i \in DOMAIN inputs' : i \in DOMAIN inputs \/ i = n
  BY <1>3 DEF n
<1>8. AnswersInv'
  <2> SUFFICES ASSUME NEW i \in DOMAIN inputs'
               PROVE  /\ Asks(inputs[i].call)'
                      /\ (inputs[i].answer # None => inputs[i].answer \in Answers(inputs[i].call))'
                      /\ (inputs[i].answer = None => i = Len(inputs) /\ job = "awaiting_input")'
    BY DEF AnswersInv
  <2>1. CASE i \in DOMAIN inputs
    BY <2>1, <1>3, <1>6, QuestionFacts DEF QuestionInv
  <2>2. CASE i = n
    BY <2>2, <1>2, <1>3, <1>4 DEF Asks
  <2> QED
    BY <1>7, <2>1, <2>2
<1>9. AskedAs(saved.run)' /\ (inputs[Len(inputs)].answer = None)'
  BY <1>1, <1>2, <1>3, <1>4, <1>5 DEF AskedAs
<1>10. StillOpen(saved.run, saved.ws)' /\ NamedFresh(saved.run)'
  BY <1>2, <1>5, <1>9 DEF StillOpen, NamedFresh
<1>11. Reaches(saved.run, saved.ws)'
  <2> SUFFICES ASSUME NEW i \in DOMAIN inputs'
               PROVE  InWorkspace(i, saved.ws)'
    BY DEF Reaches
  <2>1. CASE i \in DOMAIN inputs
    BY <2>1, <1>2, <1>3, <1>5, <1>6 DEF InWorkspace
  <2>2. CASE i = n
    BY <2>2, <1>4 DEF InWorkspace
  <2> QED
    BY <1>7, <2>1, <2>2
<1>12. ASSUME NEW i \in DOMAIN inputs
       PROVE  /\ run.pending.tool = "request_clarification" => inputs[i].call # run.pending
              /\ run.pending.tool = "request_example_correction" =>
                   ~ApprovedFix(i, run.pending.example)
  <2>1. inputs[i].answer \in Answers(inputs[i].call) /\ inputs[i].call \in Calls
    BY <1>6, QuestionFacts DEF QuestionInv
  <2>2. InWorkspace(i, ws) /\ inputs[i].answer # None
    BY <1>6
  <2>3. inputs[i].call.tool = "request_example_correction" => inputs[i].call.result # None
    BY <2>1, CallsByTool, AgentAssumption
  <2> QED
    BY <2>1, <2>2, <2>3 DEF InWorkspace, Answers, ApprovedFix
<1>13. NothingAskedTwice'
  <2> SUFFICES ASSUME NEW i \in DOMAIN inputs', NEW k \in DOMAIN inputs', i < k
               PROVE  /\ (inputs[i].answer # None)'
                      /\ (inputs[k].call.tool = "request_clarification" =>
                            inputs[i].call # inputs[k].call)'
                      /\ (inputs[k].call.tool = "request_example_correction" =>
                            ~ApprovedFix(i, inputs[k].call.example))'
    BY DEF NothingAskedTwice
  <2>1. i \in DOMAIN inputs
    BY <1>3 DEF n
  <2>2. CASE k \in DOMAIN inputs
    BY <2>1, <2>2, <1>3 DEF QuestionInv, NothingAskedTwice, ApprovedFix
  <2>3. CASE k = n
    BY <2>1, <2>3, <1>3, <1>4, <1>6, <1>12 DEF ApprovedFix
  <2> QED
    BY <1>7, <2>2, <2>3
<1> QED
  BY <1>2, <1>8, <1>9, <1>10, <1>11, <1>13 DEF QuestionInv, Working

LEMMA AnswerQuestions ==
  ASSUME Shape, SavedInv, QuestionInv, AnswerInput
  PROVE  QuestionInv'
<1> DEFINE n == Len(inputs)
<1>1. inputs # <<>> /\ pc = "idle" /\ pc' = "idle" /\ job' = "queued" /\ saved' = saved
  BY DEF AnswerInput, Shape, ControlInv, sessionVars
<1>2. saved # None /\ AskedAs(saved.run) /\ inputs[n].answer = None
  BY <1>1 DEF SavedInv, QuestionInv, AnswerInput
<1>3. PICK a \in Answers(inputs[n].call) : inputs' = [inputs EXCEPT ![n].answer = a]
  BY DEF AnswerInput
<1>4. n \in Nat /\ n > 0 /\ DOMAIN inputs = 1..n /\ inputs[n] \in Inputs
  BY <1>1 DEF Shape, TypeOK
<1>5. /\ DOMAIN inputs' = DOMAIN inputs /\ Len(inputs') = n
      /\ \A i \in DOMAIN inputs : i # n => inputs'[i] = inputs[i]
      /\ inputs'[n] = [inputs[n] EXCEPT !.answer = a]
  BY <1>3, <1>4 DEF Shape, TypeOK
<1>6. inputs'[n].call = inputs[n].call /\ inputs'[n].answer = a /\ inputs' # <<>>
  BY <1>4, <1>5 DEF Inputs
<1>7. a # None
  BY <1>3, NoneAssumption DEF Answers
<1> HIDE DEF n
<1>8. \A i \in DOMAIN inputs : inputs'[i].call = inputs[i].call
  BY <1>5, <1>6
<1>9. AnswersInv'
  <2> SUFFICES ASSUME NEW i \in DOMAIN inputs
               PROVE  /\ Asks(inputs[i].call)'
                      /\ (inputs[i].answer # None => inputs[i].answer \in Answers(inputs[i].call))'
                      /\ (inputs[i].answer = None => i = Len(inputs) /\ job = "awaiting_input")'
    BY <1>5 DEF AnswersInv
  <2>1. Asks(inputs[i].call)'
    BY <1>8 DEF QuestionInv, AnswersInv, Asks
  <2>2. CASE i = n
    BY <2>1, <2>2, <1>3, <1>6, <1>7 DEF Answers, n
  <2>3. CASE i # n
    BY <2>1, <2>3, <1>5 DEF QuestionInv, AnswersInv, Answers, n
  <2> QED
    BY <2>2, <2>3
<1>10. AskedAs(saved.run)'
  BY <1>1, <1>2, <1>4, <1>5, <1>6 DEF AskedAs, n
<1>11. NamedFresh(saved.run)' /\ StillOpen(saved.run, saved.ws)'
  BY <1>1, <1>2, <1>10 DEF QuestionInv, NamedFresh, StillOpen
<1>12. Reaches(saved.run, saved.ws)'
  <2> SUFFICES ASSUME NEW i \in DOMAIN inputs
               PROVE  InWorkspace(i, saved.ws)' \/ (saved.run.id = i /\ saved.run.pending = inputs[i].call)'
    BY <1>5 DEF Reaches
  <2>1. CASE i = n
    BY <2>1, <1>1, <1>2, <1>8 DEF AskedAs, n
  <2>2. CASE i # n
    BY <2>2, <1>1, <1>2, <1>5, <1>8 DEF QuestionInv, Reaches, InWorkspace
  <2> QED
    BY <2>1, <2>2
<1>13. NothingAskedTwice'
  <2> SUFFICES ASSUME NEW i \in DOMAIN inputs, NEW k \in DOMAIN inputs, i < k
               PROVE  /\ (inputs[i].answer # None)'
                      /\ (inputs[k].call.tool = "request_clarification" =>
                            inputs[i].call # inputs[k].call)'
                      /\ (inputs[k].call.tool = "request_example_correction" =>
                            ~ApprovedFix(i, inputs[k].call.example))'
    BY <1>5 DEF NothingAskedTwice
  <2>1. i # n /\ inputs'[i] = inputs[i] /\ inputs'[k].call = inputs[k].call
    BY <1>4, <1>5, <1>8
  <2> QED
    BY <2>1 DEF QuestionInv, NothingAskedTwice, ApprovedFix
<1> QED
  BY <1>1, <1>9, <1>11, <1>12, <1>13 DEF QuestionInv, Working

LEMMA KeepsItself ==
  ASSUME NEW w, NEW v, v.decisions = w.decisions, v.fixes = w.fixes
  PROVE  Keeps(w, v)
  BY DEF Keeps

\* The two tools that ask.
LEMMA ClarificationQuestions ==
  ASSUME Shape, SavedInv, QuestionInv, RequestClarification
  PROVE  QuestionInv'
<1> DEFINE k == run.pending.key
           w == [ws EXCEPT !.decisions = ws.decisions \cup {k}]
<1>1. pc = "tool" /\ run.pending.tool = "request_clarification" /\ Asks(run.pending)
  BY DEF RequestClarification, Pending, Asks
<1>2. run.pending # None /\ run \in Runs /\ job = "running" /\ ws \in Workspaces
  BY <1>1 DEF Shape, ControlInv, TypeOK
<1>3. ASSUME NEW i \in DOMAIN inputs, run.pending = inputs[i].call
      PROVE  inputs[i].answer = "text"
  BY <1>1, <1>2, <1>3, QuestionFacts DEF QuestionInv, Answers
<1>4. \A i \in DOMAIN inputs : InWorkspace(i, ws) \/ run.pending = inputs[i].call
  BY <1>1 DEF QuestionInv, Reaches
<1>5. CASE Resolved(k)
  <2>1. Continue(ws) /\ UNCHANGED registryVars
    BY <1>5 DEF RequestClarification, ToolFails
  <2>2. ASSUME NEW i \in DOMAIN inputs PROVE InWorkspace(i, ws)
    BY <1>3, <1>4, <1>5 DEF InWorkspace, Resolved
  <2> QED
    BY <1>1, <2>1, <2>2, ContinueQuestions DEF Settled
<1>6. CASE ~Resolved(k) /\ AnswerTo(run.id) # None
  <2>1. Continue(w) /\ UNCHANGED registryVars
    BY <1>6 DEF RequestClarification
  <2>2. w.decisions = ws.decisions \cup {k} /\ w.fixes = ws.fixes
    BY <1>2 DEF Workspaces
  <2>3. Keeps(ws, w)
    BY <2>2 DEF Keeps
  <2> HIDE DEF w
  <2>4. ASSUME NEW i \in DOMAIN inputs PROVE InWorkspace(i, w)
    <3>1. CASE InWorkspace(i, ws)
      BY <2>3, <3>1, KeptReaches DEF QuestionInv
    <3>2. CASE run.pending = inputs[i].call
      BY <1>3, <2>2, <3>2 DEF InWorkspace
    <3> QED
      BY <1>4, <3>1, <3>2
  <2> QED
    BY <1>1, <2>1, <2>4, ContinueQuestions DEF Settled
<1>7. CASE ~Resolved(k) /\ ~(AnswerTo(run.id) # None)
  <2>1. Suspend /\ k \notin ws.decisions /\ AnswerTo(run.id) = None
    BY <1>7 DEF RequestClarification, Resolved
  <2> QED
    BY <1>1, <2>1, SuspendQuestions
<1> QED
  BY <1>5, <1>6, <1>7

LEMMA CorrectionQuestions ==
  ASSUME Shape, SavedInv, QuestionInv, RequestExampleCorrection
  PROVE  QuestionInv'
<1> DEFINE e == run.pending.example
           r == run.pending.result
           answer == AnswerTo(run.id)
           w == ApplyFix(ws, e, r)
<1>1. pc = "tool" /\ run.pending.tool = "request_example_correction" /\ Asks(run.pending)
  BY DEF RequestExampleCorrection, Pending, Asks
<1>2. /\ run.pending # None /\ run \in Runs /\ run.pending \in Calls
      /\ job = "running" /\ ws \in Workspaces
  BY <1>1 DEF Shape, ControlInv, TypeOK, Runs
<1>3. e \in Examples /\ r \in Results
  BY <1>1, <1>2, CallsByTool
<1>4. /\ w.fixes = [ws.fixes EXCEPT ![e] = r] /\ w.decisions = ws.decisions
      /\ ws.fixes \in [Examples -> Results \cup {None}]
  <2>1. ws.fixes \in [Examples -> Results \cup {None}]
    BY <1>2, WsTypes
  <2> HIDE DEF e, r
  <2>2. ApplyFix(ws, e, r).fixes = [ws.fixes EXCEPT ![e] = r] /\ ApplyFix(ws, e, r).decisions = ws.decisions
    BY ONLY <1>2, <1>3, ApplyFixType
  <2> QED
    BY <2>1, <2>2
<1>5. w.fixes[e] = r /\ \A f \in Examples \ {e} : w.fixes[f] = ws.fixes[f]
  BY <1>3, <1>4
<1>6. \A i \in DOMAIN inputs :
        InWorkspace(i, ws) \/ (run.id = i /\ run.pending = inputs[i].call)
  BY <1>1 DEF QuestionInv, Reaches
<1> HIDE DEF w
<1>7. CASE r = Original[e] \/ ws.fixes[e] # None
  <2>1. Continue(ws) /\ UNCHANGED registryVars
    BY <1>7 DEF RequestExampleCorrection, ToolFails
  <2>2. ~AskedAs(run)
    BY <1>1, <1>2, <1>7 DEF QuestionInv, StillOpen
  <2>3. run.id = Len(inputs) + 1
    BY <1>1, <1>2, <2>2 DEF QuestionInv, NamedFresh
  <2>4. ASSUME NEW i \in DOMAIN inputs PROVE InWorkspace(i, ws)
    <3>1. i \in 1..Len(inputs) /\ Len(inputs) \in Nat
      BY QuestionFacts DEF QuestionInv
    <3> QED
      BY <1>6, <2>3, <3>1
  <2> QED
    BY <1>1, <2>1, <2>4, ContinueQuestions DEF Settled
<1>8. CASE r # Original[e] /\ ws.fixes[e] = None /\ answer = None
  <2>1. Suspend
    BY <1>8 DEF RequestExampleCorrection
  <2> QED
    BY <1>1, <1>8, <2>1, SuspendQuestions
<1>9. CASE r # Original[e] /\ ws.fixes[e] = None /\ answer # None
  <2>1. Keeps(ws, w)
    BY <1>4, <1>5, <1>9 DEF Keeps
  <2>2. ASSUME NEW i \in DOMAIN inputs, answer = "approve" PROVE InWorkspace(i, w)
    <3>1. CASE InWorkspace(i, ws)
      BY <2>1, <3>1, KeptReaches DEF QuestionInv
    <3>2. CASE run.id = i /\ run.pending = inputs[i].call
      <4>1. inputs[i].answer = "approve"
        BY <2>2, <3>2, <1>9 DEF AnswerTo
      <4> QED
        BY <1>5, <3>2, <4>1 DEF InWorkspace
    <3> QED
      BY <1>6, <3>1, <3>2
  <2>3. ASSUME NEW i \in DOMAIN inputs, answer # "approve" PROVE InWorkspace(i, ws)
    <3>1. CASE run.id = i /\ run.pending = inputs[i].call
      <4>1. inputs[i].answer = answer
        BY <3>1, <1>9 DEF AnswerTo
      <4>2. inputs[i].answer \in {"approve", "reject"}
        BY <1>1, <1>9, <3>1, <4>1, QuestionFacts DEF QuestionInv, Answers
      <4> QED
        BY <2>3, <4>1, <4>2 DEF InWorkspace
    <3> QED
      BY <1>6, <3>1
  <2>4. CASE answer = "approve" /\ ws.source # None /\ ws.draft # None
    <3>1. ToEvaluation(w)
      BY <1>9, <2>4 DEF RequestExampleCorrection, w
    <3>2. pc' = "evaluate" /\ ws' = w /\ run' = run /\ UNCHANGED registryVars
      BY <3>1 DEF ToEvaluation, Go
    <3>3. Settled(ws')
      BY <2>2, <2>4, <3>2 DEF Settled
    <3> QED
      BY <1>1, <3>2, <3>3, OnwardQuestions DEF Working
  <2>5. CASE ~(answer = "approve" /\ ws.source # None /\ ws.draft # None)
    <3>1. UNCHANGED registryVars /\ Continue(IF answer = "approve" THEN w ELSE ws)
      BY <1>9, <2>5 DEF RequestExampleCorrection, w
    <3>2. CASE answer = "approve"
      <4>1. Continue(w)
        BY <3>1, <3>2
      <4>2. \A i \in DOMAIN inputs : InWorkspace(i, w)
        BY <2>2, <3>2
      <4> QED
        BY <1>1, <3>1, <4>1, <4>2, ContinueQuestions DEF Settled
    <3>3. CASE answer # "approve"
      <4>1. Continue(ws)
        BY <3>1, <3>3
      <4>2. \A i \in DOMAIN inputs : InWorkspace(i, ws)
        BY <2>3, <3>3
      <4> QED
        BY <1>1, <3>1, <4>1, <4>2, ContinueQuestions DEF Settled
    <3> QED
      BY <3>2, <3>3
  <2> QED
    BY <2>4, <2>5
<1> QED
  BY <1>7, <1>8, <1>9

LEMMA StepQuestions ==
  Shape /\ SavedInv /\ QuestionInv /\ [Next]_vars => QuestionInv'
<1> SUFFICES ASSUME Shape, SavedInv, QuestionInv, [Next]_vars
             PROVE  QuestionInv'
  OBVIOUS
<1>1. /\ pc # "idle" => job = "running"
      /\ ws \in Workspaces /\ run \in Runs
      /\ pc = "model" => run.pending = None
  BY DEF Shape, ControlInv, TypeOK
<1>2. ASSUME Rejected, pc # "idle" PROVE QuestionInv'
  BY <1>1, <1>2, ForgetShape, EndedQuestions DEF Rejected
<1>3. ASSUME ToolFails, pc # "idle", ~Asks(run.pending) PROVE QuestionInv'
  BY <1>3, KeepsItself, PlainQuestions DEF ToolFails
<1>4. CASE Claim
  <2>1. /\ pc = "idle" /\ job # "awaiting_input" /\ job' # "awaiting_input"
        /\ UNCHANGED <<saved, inputs>>
    BY <1>4 DEF Claim, Claimable
  <2>2. CASE pc' = "idle"
    BY <2>1, <2>2, EndedQuestions
  <2>3. CASE pc' # "idle"
    <3>1. Resume
      BY <1>4, <2>1, <2>3 DEF Claim
    <3>2. CASE saved = None
      <4>1. inputs = <<>> /\ run' = FreshRun
        BY <3>1, <3>2 DEF SavedInv, Resume
      <4>2. run'.pending = None /\ DOMAIN inputs = {}
        BY <4>1 DEF FreshRun
      <4>3. NamedFresh(run)' /\ Reaches(run, ws)' /\ StillOpen(run, ws)' /\ Settled(ws)'
        BY <2>1, <4>2 DEF NamedFresh, Reaches, StillOpen, Settled
      <4> QED
        BY <2>1, <4>3, QuietQuestions
    <3>3. CASE saved # None
      <4>1. run' = saved.run /\ ws' = saved.ws
        BY <3>1, <3>3 DEF Resume
      <4>2. NamedFresh(saved.run) /\ StillOpen(saved.run, saved.ws) /\ Reaches(saved.run, saved.ws)
        BY <3>3 DEF QuestionInv
      <4>3. NamedFresh(run)'
        BY <2>1, <4>1, <4>2 DEF NamedFresh, AskedAs
      <4>4. StillOpen(run, ws)'
        BY <2>1, <4>1, <4>2 DEF StillOpen, AskedAs
      <4>5. Reaches(run, ws)'
        BY <2>1, <4>1, <4>2 DEF Reaches, InWorkspace
      <4>6. pc' = "head"
        BY <1>4, <2>3, <2>1 DEF Claim, Go
      <4> QED
        BY <2>1, <4>3, <4>4, <4>5, <4>6, QuietQuestions DEF Working
    <3> QED
      BY <3>2, <3>3
  <2> QED
    BY <2>2, <2>3
<1>5. CASE AskModel \/ CallTools
  <2>1. /\ pc = "head" /\ UNCHANGED <<job, inputs, ws>> /\ saved' = [run |-> run, ws |-> ws]
        /\ run'.pending = run.pending /\ (run' = run \/ run.pending = None)
        /\ pc' \in {"model", "tool"}
    BY <1>1, <1>5 DEF AskModel, CallTools, Checkpoint, Go, Runs
  <2>2. saved'.run = run /\ saved'.ws = ws /\ job = "running"
    BY <1>1, <2>1
  <2>3. NamedFresh(run) /\ StillOpen(run, ws) /\ Reaches(run, ws)
    BY <2>1 DEF QuestionInv
  <2>4. AnswersInv'
    BY <2>1 DEF QuestionInv, AnswersInv
  <2>5. NothingAskedTwice'
    BY <2>1 DEF QuestionInv, NothingAskedTwice, ApprovedFix
  <2>6. NamedFresh(saved.run)' /\ NamedFresh(run)'
    BY <2>1, <2>2, <2>3 DEF NamedFresh, AskedAs
  <2>7. StillOpen(saved.run, saved.ws)' /\ StillOpen(run, ws)'
    BY <2>1, <2>2, <2>3 DEF StillOpen, AskedAs
  <2>8. Reaches(saved.run, saved.ws)'
    BY <2>1, <2>2, <2>3 DEF Reaches, InWorkspace
  <2>9. Reaches(run, ws)'
    <3>1. CASE run.pending # None
      BY <3>1, <2>1, <2>2, <2>8
    <3>2. CASE run.pending = None
      <4>1. \A i \in DOMAIN inputs : InWorkspace(i, ws)
        BY <2>1, <3>2, NothingPending
      <4> QED
        BY <2>1, <4>1 DEF Reaches, InWorkspace
    <3> QED
      BY <3>1, <3>2
  <2> QED
    BY <2>1, <2>2, <2>4, <2>5, <2>6, <2>7, <2>8, <2>9 DEF QuestionInv, Working
<1>6. CASE OutOfTurns \/ TurnFails \/ Abort \/ ContractRejected \/ BuildFails
  BY <1>2, <1>6 DEF OutOfTurns, TurnFails, Abort, ContractRejected, BuildFails, Pending
<1>7. CASE Crash \/ Publish
  <2>1. pc # "idle" /\ pc' = "idle" /\ job' \in {job, "ready"} /\ UNCHANGED <<inputs, saved>>
    BY <1>7, ForgetShape DEF Crash, Publish, registryVars
  <2> QED
    BY <1>1, <2>1, EndedQuestions
<1>8. CASE ToolChosen \/ ToolNotAvailable
  <2>1. /\ pc = "model" /\ pc' = "head" /\ UNCHANGED <<job, inputs, saved, ws>>
        /\ job = "running" /\ run.pending = None
    BY <1>1, <1>8 DEF ToolChosen, ToolNotAvailable, Go, registryVars
  <2>2. \A i \in DOMAIN inputs : InWorkspace(i, ws)
    BY <2>1, NothingPending
  <2>3. run'.pending = None \/ run'.id = Len(inputs) + 1
    BY <1>1, <1>8, <2>1 DEF ToolChosen, ToolNotAvailable, Runs
  <2>4. NamedFresh(run)'
    BY <2>1, <2>3 DEF NamedFresh
  <2>5. Len(inputs) \in Nat
    BY DEF Shape, TypeOK
  <2>6. StillOpen(run, ws)'
    BY <2>1, <2>3, <2>5 DEF StillOpen, AskedAs
  <2>7. Reaches(run, ws)'
    BY <2>1, <2>2 DEF Reaches, InWorkspace
  <2> QED
    BY <2>1, <2>4, <2>6, <2>7, QuietQuestions DEF Working
<1>9. CASE Malformed
  BY <1>3, <1>9 DEF Malformed, Pending, Asks
<1>10. ASSUME pc = "tool", ~Asks(run.pending), pc' \in Working, Keeps(ws, ws'),
              UNCHANGED registryVars, run' = run
       PROVE  QuestionInv'
  <2>1. Settled(ws')
    BY <1>10, PlainQuestions
  <2> QED
    BY <1>10, <2>1, OnwardQuestions
<1>11. ASSUME pc \in Working, pc' \in Working, Keeps(ws, ws'), UNCHANGED registryVars, run' = run
       PROVE  QuestionInv'
  <2>1. Settled(ws')
    BY <1>11, WorkingQuestions
  <2> QED
    BY <1>11, <2>1, OnwardQuestions DEF Working
<1>12. CASE SubmitContract
  <2>1. Keeps(ws, ws')
    BY <1>12, KeepsItself DEF SubmitContract
  <2> QED
    BY <1>10, <1>12, <2>1 DEF SubmitContract, Pending, Go, Working, Asks
<1>13. CASE ContractAccepted \/ ContractNotAccepted \/ ProbeDone \/ OracleKept \/ ValidationFails
  <2>1. pc \in Working
    BY <1>13 DEF ContractAccepted, ContractNotAccepted, ProbeDone, OracleKept, ValidationFails, Working
  <2>2. PICK w : Continue(w) /\ w.decisions = ws.decisions /\ w.fixes = ws.fixes
    <3>1. CASE ContractAccepted
      <4> DEFINE w == [ws EXCEPT !.draft = DraftTests(run.pending.plan, ws), !.failure = None]
      <4>1. Continue(w)
        BY <3>1 DEF ContractAccepted
      <4>2. w.decisions = ws.decisions /\ w.fixes = ws.fixes
        BY <1>1 DEF Workspaces
      <4> HIDE DEF w
      <4> QED
        BY <4>1, <4>2
    <3>2. CASE ContractNotAccepted \/ OracleKept
      BY <3>2 DEF ContractNotAccepted, OracleKept
    <3>3. CASE ProbeDone
      <4> DEFINE w == [ws EXCEPT !.probed = ws.probed \cup {Candidate}]
      <4>1. Continue(w)
        BY <3>3 DEF ProbeDone
      <4>2. w.decisions = ws.decisions /\ w.fixes = ws.fixes
        BY <1>1 DEF Workspaces
      <4> HIDE DEF w
      <4> QED
        BY <4>1, <4>2
    <3>4. CASE ValidationFails
      <4>1. PICK c \in Checks : Continue([ws EXCEPT !.failure = c])
        BY <3>4 DEF ValidationFails
      <4> DEFINE w == [ws EXCEPT !.failure = c]
      <4>2. w.decisions = ws.decisions /\ w.fixes = ws.fixes
        BY <1>1 DEF Workspaces
      <4>3. Continue(w)
        BY <4>1
      <4> HIDE DEF w
      <4> QED
        BY <4>2, <4>3
    <3> QED
      BY <1>13, <3>1, <3>2, <3>3, <3>4
  <2>3. UNCHANGED registryVars
    BY <1>13 DEF ContractAccepted, ContractNotAccepted, ProbeDone, OracleKept, ValidationFails
  <2>4. Keeps(ws, w)
    BY <2>2, KeepsItself
  <2> QED
    BY <2>1, <2>2, <2>3, <2>4, WorkingQuestions
<1>14. CASE ChangeSource
  <2>1. pc = "tool" /\ ~Asks(run.pending)
    BY <1>14 DEF ChangeSource, Asks
  <2>2. ASSUME ToEvaluation([ws EXCEPT !.source = run.pending.source, !.revisions = ws.revisions + 1])
        PROVE  QuestionInv'
    <3>1. ws'.decisions = ws.decisions /\ ws'.fixes = ws.fixes
      BY <1>1, <2>2 DEF ToEvaluation, Workspaces
    <3>2. Keeps(ws, ws')
      BY <3>1, KeepsItself
    <3>3. pc' = "evaluate" /\ run' = run /\ UNCHANGED registryVars
      BY <2>2 DEF ToEvaluation, Go
    <3> QED
      BY <1>10, <2>1, <3>2, <3>3 DEF Working
  <2> QED
    BY <1>2, <1>3, <1>14, <2>1, <2>2 DEF ChangeSource
<1>15. CASE Probe
  <2>1. pc = "tool" /\ ~Asks(run.pending)
    BY <1>15 DEF Probe, Pending, Asks
  <2>2. ASSUME Go("probe"), ws' = [ws EXCEPT !.probes = ws.probes + 1], UNCHANGED <<registryVars, run>>
        PROVE  QuestionInv'
    <3>1. ws'.decisions = ws.decisions /\ ws'.fixes = ws.fixes
      BY <1>1, <2>2 DEF Workspaces
    <3>2. Keeps(ws, ws')
      BY <3>1, KeepsItself
    <3> QED
      BY <1>10, <2>1, <2>2, <3>2 DEF Working, Go
  <2> QED
    BY <1>2, <1>3, <1>15, <2>1, <2>2 DEF Probe
<1>16. CASE ReviewGeneratedTest
  <2>1. pc = "tool" /\ ~Asks(run.pending)
    BY <1>16 DEF ReviewGeneratedTest, Pending, Asks
  <2>2. ASSUME Go("verify"), UNCHANGED <<registryVars, ws, run>> PROVE QuestionInv'
    <3>1. Keeps(ws, ws')
      BY <2>2, KeepsItself
    <3> QED
      BY <1>10, <2>1, <2>2, <3>1 DEF Working, Go
  <2> QED
    BY <1>2, <1>3, <1>16, <2>1, <2>2 DEF ReviewGeneratedTest
<1>17. CASE OracleReplaced
  <2>1. pc \in Working /\ pc' \in Working /\ UNCHANGED registryVars /\ run' = run
    BY <1>17 DEF OracleReplaced, Go, Working
  <2>2. ws'.decisions = ws.decisions /\ ws'.fixes = ws.fixes
    BY <1>1, <1>17 DEF OracleReplaced, Workspaces
  <2>3. Keeps(ws, ws')
    BY <2>2, KeepsItself
  <2> QED
    BY <1>11, <2>1, <2>3
<1>18. CASE ValidationPasses
  <2>1. pc \in Working /\ pc' \in Working /\ UNCHANGED registryVars /\ run' = run
    BY <1>18 DEF ValidationPasses, Go, Working
  <2>2. ws'.decisions = ws.decisions /\ ws'.fixes = ws.fixes
    BY <1>1, <1>18 DEF ValidationPasses, Workspaces
  <2>3. Keeps(ws, ws')
    BY <2>2, KeepsItself
  <2> QED
    BY <1>11, <2>1, <2>3
<1>19. CASE Lookup
  <2>1. pc = "tool" /\ ~Asks(run.pending)
    BY <1>19, AgentAssumption DEF Lookup, Asks
  <2>2. ASSUME NEW l \in Lookups, Continue([ws EXCEPT !.lookups[l] = ws.lookups[l] + 1]),
               UNCHANGED registryVars
        PROVE  QuestionInv'
    <3> DEFINE w == [ws EXCEPT !.lookups[l] = ws.lookups[l] + 1]
    <3>1. w.decisions = ws.decisions /\ w.fixes = ws.fixes
      BY <1>1 DEF Workspaces
    <3> HIDE DEF w
    <3>2. Keeps(ws, w)
      BY <3>1, KeepsItself
    <3>3. Continue(w)
      BY <2>2 DEF w
    <3> QED
      BY <2>1, <2>2, <3>2, <3>3, PlainQuestions
  <2> QED
    BY <1>2, <1>19, <2>1, <2>2 DEF Lookup
<1>20. CASE ModelStep \/ UNCHANGED vars
  <2>1. UNCHANGED <<registryVars, pc, ws, run>>
    BY <1>20 DEF ModelStep, vars, sessionVars
  <2> QED
    BY <2>1 DEF QuestionInv, AnswersInv, NamedFresh, AskedAs, StillOpen, Reaches, InWorkspace,
       Settled, NothingAskedTwice, ApprovedFix, registryVars
<1> QED
  BY <1>4, <1>5, <1>6, <1>7, <1>8, <1>9, <1>12, <1>13, <1>14, <1>15, <1>16, <1>17, <1>18,
     <1>19, <1>20, ClarificationQuestions, CorrectionQuestions, AnswerQuestions
     DEF Next, SessionStep, ToolStep

LEMMA QuestionsHold == Spec => [](Shape /\ SavedInv /\ QuestionInv)
<1>1. Init => Shape /\ SavedInv /\ QuestionInv
  <2> SUFFICES ASSUME Init PROVE Shape /\ SavedInv /\ QuestionInv
    OBVIOUS
  <2>1. Shape
    BY InitShape DEF Shape
  <2>2. SavedInv /\ QuestionInv
    BY DEF Init, SavedInv, QuestionInv, AnswersInv, NothingAskedTwice, Working
  <2> QED
    BY <2>1, <2>2
<1>2. Shape /\ [Next]_vars => Shape'
  <2>1. CallOK(call) /\ [Next]_vars => CallOK(call)'
    BY CallChanges, IdleOK, BeginOK, CallStepOK
  <2> QED
    BY <2>1, StepShape DEF Shape
<1> QED
  BY <1>1, <1>2, StepSaved, StepQuestions, PTL DEF Spec

\* No answer of the user is lost, wherever the worker stops: its decision is in
\* the checkpoint, or the checkpoint still holds the call that asked.
THEOREM AnswersArrive == Spec => []AnswersReachTheWorkspace
<1>1. Shape /\ SavedInv /\ QuestionInv => AnswersReachTheWorkspace
  <2> SUFFICES ASSUME Shape, SavedInv, QuestionInv, NEW i \in DOMAIN inputs
               PROVE  \/ inputs[i].answer \in {"reject", None}
                      \/ /\ saved # None
                         /\ \/ saved.run.id = i /\ saved.run.pending = inputs[i].call
                            \/ /\ inputs[i].answer = "text"
                               /\ inputs[i].call.key \in saved.ws.decisions
                            \/ /\ inputs[i].answer = "approve"
                               /\ saved.ws.fixes[inputs[i].call.example] = inputs[i].call.result
    BY DEF AnswersReachTheWorkspace
  <2>1. inputs # <<>>
    BY QuestionFacts DEF QuestionInv
  <2>2. saved # None /\ Reaches(saved.run, saved.ws)
    BY <2>1 DEF SavedInv, QuestionInv
  <2> QED
    BY <2>2 DEF Reaches, InWorkspace
<1> QED
  BY <1>1, QuestionsHold, PTL

\* No key is put to the user twice, no example once its correction is approved,
\* although a call replayed from the checkpoint runs the whole tool again.
THEOREM AskedOnce == Spec => []NothingAskedTwice
<1>1. QuestionInv => NothingAskedTwice
  BY DEF QuestionInv
<1> QED
  BY <1>1, QuestionsHold, PTL

-----------------------------------------------------------------------------
(* What is published.                                                      *)

\* Where the draft and the corrections of a workspace come from.
Fixed(e, r) ==
  /\ pc = "tool" /\ run.pending.tool = "request_example_correction"
  /\ e = run.pending.example /\ r = run.pending.result
  /\ ws.fixes[e] = None /\ AnswerTo(run.id) = "approve"
  /\ ws' = ApplyFix(ws, e, r)
  /\ UNCHANGED <<inputs, saved, sanctioned>>

LEMMA DraftChanges ==
  Shape /\ [Next]_vars =>
    \/ ws'.draft = ws.draft /\ ws'.fixes = ws.fixes
    \/ ws' = FreshWs
    \/ pc = "idle" /\ saved # None /\ ws' = saved.ws
    \/ ContractAccepted
    \/ OracleReplaced
    \/ \E e \in Examples, r \in Results : Fixed(e, r)
<1> SUFFICES ASSUME Shape, [Next]_vars, ~(ws'.draft = ws.draft /\ ws'.fixes = ws.fixes),
                    ws' # FreshWs, ~(pc = "idle" /\ saved # None /\ ws' = saved.ws),
                    ~ContractAccepted, ~OracleReplaced
             PROVE  \E e \in Examples, r \in Results : Fixed(e, r)
  OBVIOUS
<1>1. ws \in Workspaces /\ run \in Runs
  BY DEF Shape, TypeOK
<1>2. ws' # ws /\ ~Forget /\ ~Rejected
  BY ForgetShape DEF Rejected
<1>3. ~Claim
  BY <1>2 DEF Claim, Resume
<1>4. ~(ToolFails \/ Suspend)
  BY <1>2 DEF ToolFails, Suspend, Continue
<1>5. ASSUME NEW w, ws' = w PROVE ~(w.draft = ws.draft /\ w.fixes = ws.fixes)
  BY <1>5
<1>6. ~ChangeSource
  <2>1. ASSUME ToEvaluation([ws EXCEPT !.source = run.pending.source, !.revisions = ws.revisions + 1])
        PROVE  FALSE
    <3>1. ws'.draft = ws.draft /\ ws'.fixes = ws.fixes
      BY <1>1, <2>1 DEF ToEvaluation, Workspaces
    <3> QED
      BY <3>1
  <2> QED
    BY <1>2, <1>4, <2>1 DEF ChangeSource
<1>7. ~Probe
  <2>1. ASSUME ws' = [ws EXCEPT !.probes = ws.probes + 1] PROVE FALSE
    <3>1. ws'.draft = ws.draft /\ ws'.fixes = ws.fixes
      BY <1>1, <2>1 DEF Workspaces
    <3> QED
      BY <3>1
  <2> QED
    BY <1>2, <1>4, <2>1 DEF Probe
<1>8. ~ProbeDone
  <2> SUFFICES ASSUME ProbeDone PROVE FALSE
    OBVIOUS
  <2>1. ws'.draft = ws.draft /\ ws'.fixes = ws.fixes
    BY <1>1 DEF ProbeDone, Continue, Workspaces
  <2> QED
    BY <2>1
<1>9. ~Lookup
  <2>1. ASSUME NEW l \in Lookups, Continue([ws EXCEPT !.lookups[l] = ws.lookups[l] + 1])
        PROVE  FALSE
    <3>1. ws'.draft = ws.draft /\ ws'.fixes = ws.fixes
      BY <1>1, <2>1 DEF Continue, Workspaces
    <3> QED
      BY <3>1
  <2> QED
    BY <1>2, <2>1 DEF Lookup
<1>10. ~(ValidationFails \/ ValidationPasses)
  <2>1. ASSUME NEW c \in Checks \cup {None}, ws' = [ws EXCEPT !.failure = c] PROVE FALSE
    <3>1. ws'.draft = ws.draft /\ ws'.fixes = ws.fixes
      BY <1>1, <2>1 DEF Workspaces
    <3> QED
      BY <3>1
  <2> QED
    BY <2>1 DEF ValidationFails, ValidationPasses, Continue
<1>11. ~RequestClarification
  <2>1. ASSUME NEW k, Continue([ws EXCEPT !.decisions = ws.decisions \cup {k}]) PROVE FALSE
    <3>1. ws'.draft = ws.draft /\ ws'.fixes = ws.fixes
      BY <1>1, <2>1 DEF Continue, Workspaces
    <3> QED
      BY <3>1
  <2> QED
    BY <1>4, <2>1 DEF RequestClarification
<1>12. RequestExampleCorrection
  <2>1. ~(AskModel \/ CallTools \/ OutOfTurns \/ ToolChosen \/ ToolNotAvailable \/ TurnFails)
    BY <1>2 DEF AskModel, CallTools, OutOfTurns, ToolChosen, ToolNotAvailable, TurnFails
  <2>2. ~(Malformed \/ Abort \/ SubmitContract \/ ContractNotAccepted \/ ContractRejected
          \/ OracleKept \/ ReviewGeneratedTest)
    BY <1>2, <1>4 DEF Malformed, Abort, SubmitContract, ContractNotAccepted, ContractRejected,
       OracleKept, ReviewGeneratedTest, Continue
  <2>3. ~(BuildFails \/ Publish \/ Crash \/ AnswerInput \/ ModelStep \/ UNCHANGED vars)
    BY <1>2 DEF BuildFails, Publish, Crash, AnswerInput, ModelStep, vars, sessionVars
  <2> QED
    BY <1>3, <1>6, <1>7, <1>8, <1>9, <1>10, <1>11, <2>1, <2>2, <2>3
       DEF Next, SessionStep, ToolStep
<1> DEFINE e == run.pending.example
           r == run.pending.result
<1>13. pc = "tool" /\ run.pending.tool = "request_example_correction" /\ run.pending # None
  BY <1>12 DEF RequestExampleCorrection, Pending, Shape, ControlInv
<1>14. e \in Examples /\ r \in Results
  BY <1>1, <1>13, CallsByTool DEF Runs
<1>15. /\ ~(r = Original[e] \/ ws.fixes[e] # None) /\ AnswerTo(run.id) # None
  BY <1>4, <1>12 DEF RequestExampleCorrection
<1>16. CASE AnswerTo(run.id) = "approve" /\ ws.source # None /\ ws.draft # None
  <2>1. ToEvaluation(ApplyFix(ws, e, r))
    BY <1>12, <1>15, <1>16 DEF RequestExampleCorrection
  <2>2. Fixed(e, r)
    BY <1>13, <1>15, <1>16, <2>1 DEF Fixed, ToEvaluation, registryVars
  <2> QED
    BY <1>14, <2>2
<1>17. CASE ~(AnswerTo(run.id) = "approve" /\ ws.source # None /\ ws.draft # None)
  <2>1. /\ Continue(IF AnswerTo(run.id) = "approve" THEN ApplyFix(ws, e, r) ELSE ws)
        /\ UNCHANGED <<registryVars, call, history>>
    BY <1>12, <1>15, <1>17 DEF RequestExampleCorrection
  <2>2. AnswerTo(run.id) = "approve" /\ ws' = ApplyFix(ws, e, r)
    BY <1>2, <2>1 DEF Continue
  <2>3. Fixed(e, r)
    BY <1>13, <1>15, <2>1, <2>2 DEF Fixed, registryVars, history
  <2> QED
    BY <1>14, <2>3
<1> QED
  BY <1>16, <1>17

\* In a session only the generated test that failed last changes, and only by the
\* verdict that its oracle is wrong (review_generated_test).
THEOREM OnlyFailingTestsChange == Spec => OnlyTheFailingTestChanges
<1>1. Shape /\ [Next]_vars =>
        \A g \in GenTests :
          /\ ws.draft # None
          /\ ws'.draft # None
          /\ ws'.draft[g] # ws.draft[g]
          => /\ ws.failure = g
             /\ call.reply.decision = "oracle_wrong"
  <2> SUFFICES ASSUME Shape, [Next]_vars, NEW g \in GenTests,
                      ws.draft # None, ws'.draft # None, ws'.draft[g] # ws.draft[g]
               PROVE  ws.failure = g /\ call.reply.decision = "oracle_wrong"
    OBVIOUS
  <2>1. ws \in Workspaces /\ WsShape(ws)
    BY DEF Shape, TypeOK, ControlInv
  <2>2. FreshWs.draft = None
    BY DEF FreshWs
  <2>3. pc # "idle"
    BY <2>2 DEF Shape, ControlInv
  <2>4. ~ContractAccepted
    BY DEF ContractAccepted, Shape, ControlInv, PendingShape
  <2>5. ASSUME NEW e \in Examples, NEW r \in Results PROVE ~Fixed(e, r)
    <3> SUFFICES ASSUME Fixed(e, r) PROVE FALSE
      OBVIOUS
    <3>1. ws'.draft = [ws.draft EXCEPT ![e] = r]
      <4>1. ApplyFix(ws, e, r).draft = IF ws.draft = None THEN None ELSE [ws.draft EXCEPT ![e] = r]
        BY <2>1, ApplyFixType
      <4> QED
        BY <4>1 DEF Fixed
    <3>2. e # g
      BY AgentAssumption
    <3>3. ws.draft \in [Tests -> Results] /\ g \in Tests
      BY <2>1, WsTypes DEF Tests
    <3> QED
      BY <3>1, <3>2, <3>3
  <2>6. OracleReplaced
    BY <2>2, <2>3, <2>4, <2>5, DraftChanges
  <2>7. /\ call.reply.decision = "oracle_wrong" /\ ws.failure = run.pending.test
        /\ ws.draft \in [Tests -> Results] /\ g \in Tests
    BY <2>1, <2>6, WsTypes DEF OracleReplaced, Shape, ControlInv, Tests
  <2>8. PICK r \in Results : ws' = [ws EXCEPT !.draft[run.pending.test] = r,
                                              !.corrections = ws.corrections + 1]
    BY <2>6 DEF OracleReplaced
  <2>9. ws'.draft = [ws.draft EXCEPT ![run.pending.test] = r]
    BY <2>1, <2>8 DEF Workspaces
  <2> QED
    BY <2>7, <2>9
<1>2. Spec => []Shape
  BY QuestionsHold, PTL
<1> QED
  BY <1>1, <1>2, PTL DEF Spec, OnlyTheFailingTestChanges

\* The drafts and corrections of a workspace have been earned, given the inputs
\* of the job and the expectations that were sanctioned.
FixAt(list, i, e, r) ==
  /\ list[i].call.tool = "request_example_correction"
  /\ list[i].call.example = e
  /\ list[i].call.result = r
  /\ list[i].answer = "approve"

Earned(w, list, seen) ==
  /\ w.draft # None =>
       /\ \A e \in Examples : w.draft[e] = IF w.fixes[e] # None THEN w.fixes[e] ELSE Original[e]
       /\ \A g \in GenTests : <<g, w.draft[g]>> \in seen
  /\ \A e \in Examples :
       w.fixes[e] # None => \E i \in DOMAIN list : FixAt(list, i, e, w.fixes[e])

LEMMA EarnedKept ==
  ASSUME NEW w, NEW v, NEW list, NEW later, NEW seen, NEW more,
         Earned(w, list, seen), v.draft = w.draft, v.fixes = w.fixes, seen \subseteq more,
         \A i \in DOMAIN list :
           /\ i \in DOMAIN later /\ later[i].call = list[i].call
           /\ list[i].answer = "approve" => later[i].answer = "approve"
  PROVE  Earned(v, later, more)
<1>1. ASSUME NEW e, NEW r, NEW i \in DOMAIN list, FixAt(list, i, e, r)
      PROVE  i \in DOMAIN later /\ FixAt(later, i, e, r)
  BY <1>1 DEF FixAt
<1>2. ASSUME NEW e \in Examples, v.fixes[e] # None
      PROVE  \E i \in DOMAIN later : FixAt(later, i, e, v.fixes[e])
  <2>1. PICK i \in DOMAIN list : FixAt(list, i, e, w.fixes[e])
    BY <1>2 DEF Earned
  <2> QED
    BY <1>1, <2>1
<1>3. v.draft # None =>
        /\ \A e \in Examples : v.draft[e] = IF v.fixes[e] # None THEN v.fixes[e] ELSE Original[e]
        /\ \A g \in GenTests : <<g, v.draft[g]>> \in more
  BY DEF Earned
<1> QED
  BY <1>2, <1>3 DEF Earned

LEMMA FreshEarned ==
  ASSUME NEW list, NEW seen PROVE Earned(FreshWs, list, seen)
  BY DEF Earned, FreshWs

\* Inputs are only added and answered, and expectations only added.
InputsKept ==
  \A i \in DOMAIN inputs :
    /\ i \in DOMAIN inputs' /\ inputs'[i].call = inputs[i].call
    /\ inputs[i].answer = "approve" => inputs'[i].answer = "approve"

LEMMA StepInputs ==
  Shape /\ QuestionInv /\ [Next]_vars => InputsKept /\ sanctioned \subseteq sanctioned'
<1> SUFFICES ASSUME Shape, QuestionInv, [Next]_vars
             PROVE  InputsKept /\ sanctioned \subseteq sanctioned'
  OBVIOUS
<1>1. inputs \in Seq(Inputs)
  BY DEF Shape, TypeOK
<1>2. inputs' = inputs => InputsKept
  BY DEF InputsKept
<1>3. Suspend => InputsKept
  <2> SUFFICES ASSUME Suspend, NEW i \in DOMAIN inputs
               PROVE  i \in DOMAIN inputs' /\ inputs'[i] = inputs[i]
    BY DEF InputsKept
  <2> QED
    BY <1>1 DEF Suspend
<1>4. AnswerInput => InputsKept
  <2> SUFFICES ASSUME AnswerInput, NEW i \in DOMAIN inputs
               PROVE  /\ i \in DOMAIN inputs' /\ inputs'[i].call = inputs[i].call
                      /\ inputs[i].answer = "approve" => inputs'[i].answer = "approve"
    BY DEF InputsKept
  <2>1. PICK a : inputs' = [inputs EXCEPT ![Len(inputs)].answer = a]
    BY DEF AnswerInput
  <2>2. inputs[Len(inputs)].answer = None
    BY DEF AnswerInput, QuestionInv
  <2>3. inputs[i] \in Inputs /\ i \in DOMAIN inputs'
    BY <1>1, <2>1
  <2>4. inputs'[i] = IF i = Len(inputs) THEN [inputs[i] EXCEPT !.answer = a] ELSE inputs[i]
    BY <1>1, <2>1
  <2>5. inputs'[i].call = inputs[i].call
    BY <2>3, <2>4 DEF Inputs
  <2> QED
    BY <2>2, <2>3, <2>4, <2>5, NoneAssumption
<1>5. inputs' = inputs \/ Suspend \/ AnswerInput
  BY DEF Next, SessionStep, ToolStep, Claim, AskModel, CallTools, OutOfTurns, ToolChosen,
     ToolNotAvailable, TurnFails, Malformed, Abort, SubmitContract, ContractAccepted,
     ContractNotAccepted, ContractRejected, ChangeSource, Probe, ProbeDone,
     ReviewGeneratedTest, OracleReplaced, OracleKept, Lookup, RequestClarification,
     RequestExampleCorrection, BuildFails, ValidationFails, ValidationPasses,
     Publish, ModelStep, Crash, Rejected, ToolFails, ToEvaluation,
     registryVars, vars
<1>6. sanctioned \subseteq sanctioned'
  BY DEF Next, SessionStep, ToolStep, Claim, AskModel, CallTools, OutOfTurns, ToolChosen,
     ToolNotAvailable, TurnFails, Malformed, Abort, SubmitContract, ContractAccepted,
     ContractNotAccepted, ContractRejected, ChangeSource, Probe, ProbeDone,
     ReviewGeneratedTest, OracleReplaced, OracleKept, Lookup, RequestClarification,
     RequestExampleCorrection, AnswerInput, BuildFails, ValidationFails, ValidationPasses,
     Publish, ModelStep, Crash, Rejected, ToolFails, ToEvaluation, Suspend,
     history, vars
<1> QED
  BY <1>2, <1>3, <1>4, <1>5, <1>6

EarnedInv ==
  /\ Earned(ws, inputs, sanctioned)
  /\ saved # None => Earned(saved.ws, inputs, sanctioned)
  /\ pc = "publish" => AllPass(ws)
  /\ published # None => job = "ready"
  /\ PublishedEarnedIt

\* A draft that a contract review accepted, a verdict corrected, or the user.
LEMMA DraftEarned ==
  ASSUME Shape, SavedInv, QuestionInv, EarnedInv, [Next]_vars
  PROVE  Earned(ws', inputs', sanctioned')
<1>1. /\ ws \in Workspaces /\ run \in Runs
      /\ Earned(ws, inputs, sanctioned) /\ WsShape(ws)
  BY DEF Shape, TypeOK, EarnedInv, ControlInv
<1>2. InputsKept /\ sanctioned \subseteq sanctioned'
  BY StepInputs
<1>3. ASSUME NEW v, v.draft = ws.draft, v.fixes = ws.fixes
      PROVE  Earned(v, inputs', sanctioned')
  BY <1>1, <1>2, <1>3, EarnedKept DEF InputsKept
<1>4. CASE ws'.draft = ws.draft /\ ws'.fixes = ws.fixes
  BY <1>3, <1>4
<1>5. CASE ws' = FreshWs
  BY <1>5, FreshEarned
<1>6. CASE saved # None /\ ws' = saved.ws
  <2>1. Earned(saved.ws, inputs, sanctioned)
    BY <1>6 DEF EarnedInv
  <2> QED
    BY <1>2, <1>6, <2>1, EarnedKept DEF InputsKept
<1>7. CASE ContractAccepted
  <2> DEFINE plan == run.pending.plan
             d == DraftTests(plan, ws)
  <2>1. inputs' = inputs /\ sanctioned' = sanctioned \cup {<<g, plan[g]>> : g \in GenTests}
    BY <1>7 DEF ContractAccepted, registryVars
  <2>2. ws'.draft = d /\ ws'.fixes = ws.fixes
    <3> HIDE DEF d
    <3>1. ws' = [ws EXCEPT !.draft = d, !.failure = None]
      BY <1>7 DEF ContractAccepted, Continue, d
    <3> QED
      BY <1>1, <3>1 DEF Workspaces
  <2>3. \A e \in Examples : d[e] = IF ws.fixes[e] # None THEN ws.fixes[e] ELSE Original[e]
    BY AgentAssumption DEF DraftTests, Tests
  <2>4. \A g \in GenTests : d[g] = plan[g]
    BY DEF DraftTests, Tests
  <2> HIDE DEF d
  <2> QED
    BY <1>1, <2>1, <2>2, <2>3, <2>4 DEF Earned
<1>8. CASE OracleReplaced
  <2> DEFINE g == run.pending.test
  <2>1. PICK r \in Results : /\ ws' = [ws EXCEPT !.draft[g] = r, !.corrections = ws.corrections + 1]
                             /\ sanctioned' = sanctioned \cup {<<g, r>>}
    BY <1>8 DEF OracleReplaced
  <2>2. ws'.draft = [ws.draft EXCEPT ![g] = r] /\ ws'.fixes = ws.fixes /\ inputs' = inputs
    BY <1>1, <1>8, <2>1 DEF Workspaces, OracleReplaced, registryVars
  <2>3. g \in GenTests /\ ws.failure = g
    <3>1. run.pending \in Calls /\ run.pending.tool = "review_generated_test" /\ ws.failure = g
      BY <1>8 DEF OracleReplaced, Shape, ControlInv, TypeOK, Runs
    <3> QED
      BY <3>1, CallsByTool
  <2>4. ws.draft # None
    BY <1>1, <2>3, AgentAssumption DEF WsShape, Checks, Tests
  <2>5. ws.draft \in [Tests -> Results] /\ g \notin Examples
    BY <1>1, <2>3, <2>4, WsTypes, AgentAssumption
  <2>6. \A e \in Examples : ws'.draft[e] = ws.draft[e]
    BY <2>2, <2>5 DEF Tests
  <2>7. \A h \in GenTests : ws'.draft[h] = IF h = g THEN r ELSE ws.draft[h]
    BY <2>2, <2>5 DEF Tests
  <2> HIDE DEF g
  <2>8. \A h \in GenTests : <<h, ws'.draft[h]>> \in sanctioned'
    BY <1>1, <2>1, <2>4, <2>7 DEF Earned
  <2> QED
    BY <1>1, <2>2, <2>4, <2>6, <2>8 DEF Earned
<1>9. CASE \E e \in Examples, r \in Results : Fixed(e, r)
  <2>1. PICK e \in Examples, r \in Results : Fixed(e, r)
    BY <1>9
  <2>2. /\ ApplyFix(ws, e, r).fixes = [ws.fixes EXCEPT ![e] = r]
        /\ ApplyFix(ws, e, r).draft = IF ws.draft = None THEN None ELSE [ws.draft EXCEPT ![e] = r]
    BY <1>1, ApplyFixType
  <2>3. /\ ws'.fixes = [ws.fixes EXCEPT ![e] = r]
        /\ ws'.draft = IF ws.draft = None THEN None ELSE [ws.draft EXCEPT ![e] = r]
        /\ inputs' = inputs /\ sanctioned' = sanctioned
    BY <2>1, <2>2 DEF Fixed
  <2>4. /\ ws.fixes \in [Examples -> Results \cup {None}] /\ r # None
        /\ ws.draft \in [Tests -> Results] \cup {None}
    BY <1>1, WsTypes, AgentAssumption
  <2>5. run.id \in DOMAIN inputs /\ inputs[run.id].answer = "approve"
    BY <2>1, NoneAssumption DEF Fixed, AnswerTo
  <2>6. AskedAs(run)
    <3>1. run.pending # None /\ NamedFresh(run)
      BY <2>1 DEF Fixed, Shape, ControlInv, QuestionInv
    <3>2. run.id # Len(inputs) + 1
      BY <2>5, QuestionFacts DEF QuestionInv
    <3> QED
      BY <3>1, <3>2 DEF NamedFresh
  <2>7. FixAt(inputs, run.id, e, r)
    BY <2>1, <2>5, <2>6 DEF AskedAs, Fixed, FixAt
  <2>8. ASSUME NEW f \in Examples, ws'.fixes[f] # None
        PROVE  \E i \in DOMAIN inputs' : FixAt(inputs', i, f, ws'.fixes[f])
    <3>1. CASE f = e
      <4>1. ws'.fixes[f] = r
        BY <2>3, <2>4, <3>1
      <4> QED
        BY <2>3, <2>5, <2>7, <3>1, <4>1
    <3>2. CASE f # e
      <4>1. ws'.fixes[f] = ws.fixes[f]
        BY <2>3, <2>4, <3>2
      <4> QED
        BY <1>1, <2>3, <2>8, <4>1 DEF Earned
    <3> QED
      BY <3>1, <3>2
  <2>9. ASSUME ws'.draft # None
        PROVE  /\ \A f \in Examples :
                    ws'.draft[f] = IF ws'.fixes[f] # None THEN ws'.fixes[f] ELSE Original[f]
               /\ \A g \in GenTests : <<g, ws'.draft[g]>> \in sanctioned'
    <3>1. ws.draft \in [Tests -> Results] /\ ws.draft # None /\ ws'.draft = [ws.draft EXCEPT ![e] = r]
      BY <2>3, <2>4, <2>9
    <3>2. \A g \in GenTests : ws'.draft[g] = ws.draft[g]
      BY <3>1, AgentAssumption DEF Tests
    <3>3. \A f \in Examples : ws'.draft[f] = IF f = e THEN r ELSE ws.draft[f]
      BY <3>1 DEF Tests
    <3>4. \A f \in Examples : ws'.fixes[f] = IF f = e THEN r ELSE ws.fixes[f]
      BY <2>3, <2>4
    <3> QED
      BY <1>1, <2>3, <2>4, <3>1, <3>2, <3>3, <3>4 DEF Earned
  <2> QED
    BY <2>8, <2>9 DEF Earned
<1> QED
  BY <1>4, <1>5, <1>6, <1>7, <1>8, <1>9, DraftChanges

\* A job that is ready is left alone.
LEMMA ReadyRests ==
  ASSUME Shape, job = "ready", [Next]_vars
  PROVE  UNCHANGED <<job, inputs, published, sanctioned, pc>>
<1>1. pc = "idle"
  BY DEF Shape, ControlInv
<1>2. CASE ModelStep \/ UNCHANGED vars
  BY <1>2 DEF ModelStep, vars, sessionVars, registryVars, history
<1>3. CASE ~(ModelStep \/ UNCHANGED vars)
  BY <1>1, <1>3 DEF Next, SessionStep, ToolStep, Claim, Claimable, AskModel, CallTools, OutOfTurns,
     ToolChosen, ToolNotAvailable, TurnFails, Malformed, Abort, SubmitContract, ContractAccepted,
     ContractNotAccepted, ContractRejected, ChangeSource, Probe, ProbeDone,
     ReviewGeneratedTest, OracleReplaced, OracleKept, Lookup, RequestClarification,
     RequestExampleCorrection, AnswerInput, BuildFails, ValidationFails, ValidationPasses,
     Publish, Crash, Pending
<1> QED
  BY <1>2, <1>3

LEMMA PublishesEarned ==
  ASSUME Shape, QuestionInv, EarnedInv, Publish
  PROVE  PublishedEarnedIt'
<1>1. /\ published' = [source |-> ws.source, tests |-> ws.draft]
      /\ inputs' = inputs /\ sanctioned' = sanctioned /\ pc = "publish"
  BY DEF Publish, Candidate, history
<1>2. published'.source = ws.source /\ published'.tests = ws.draft
  BY <1>1
<1>3. ws \in Workspaces /\ ws.draft # None
  BY <1>1 DEF Shape, TypeOK, ControlInv, WsShape
<1>4. Earned(ws, inputs, sanctioned) /\ Settled(ws) /\ AllPass(ws)
  BY <1>1 DEF EarnedInv, QuestionInv, Working
<1>5. ASSUME NEW e \in Examples
      PROVE  \/ \E i \in DOMAIN inputs : ApprovedFix(i, e) /\ ws.draft[e] = inputs[i].call.result
             \/ /\ \A i \in DOMAIN inputs : ~ApprovedFix(i, e)
                /\ ws.draft[e] = Original[e]
  <2>1. CASE ws.fixes[e] # None
    <3>1. PICK i \in DOMAIN inputs : FixAt(inputs, i, e, ws.fixes[e])
      BY <1>4, <2>1 DEF Earned
    <3>2. ws.draft[e] = ws.fixes[e]
      BY <1>3, <1>4, <2>1 DEF Earned
    <3> QED
      BY <3>1, <3>2 DEF FixAt, ApprovedFix
  <2>2. CASE ws.fixes[e] = None
    <3>1. ws.draft[e] = Original[e]
      BY <1>3, <1>4, <2>2 DEF Earned
    <3>2. ASSUME NEW i \in DOMAIN inputs, ApprovedFix(i, e) PROVE FALSE
      <4>1. inputs[i].call.result # None
        <5>1. inputs[i].call \in Calls
          BY QuestionFacts DEF QuestionInv
        <5> QED
          BY <3>2, <5>1, CallsByTool, AgentAssumption DEF ApprovedFix
      <4>2. InWorkspace(i, ws)
        BY <1>4 DEF Settled
      <4> QED
        BY <2>2, <3>2, <4>1, <4>2, NoneAssumption DEF InWorkspace, ApprovedFix
    <3> QED
      BY <3>1, <3>2
  <2> QED
    BY <2>1, <2>2
<1>6. \A g \in GenTests : <<g, ws.draft[g]>> \in sanctioned
  BY <1>3, <1>4 DEF Earned
<1>7. \A c \in Checks : Passes(ws.source, ws.draft, c)
  BY <1>4 DEF AllPass
<1> QED
  BY <1>1, <1>2, <1>5, <1>6, <1>7 DEF PublishedEarnedIt, ApprovedFix

LEMMA StepEarned ==
  Shape /\ SavedInv /\ QuestionInv /\ EarnedInv /\ [Next]_vars => EarnedInv'
<1> SUFFICES ASSUME Shape, SavedInv, QuestionInv, EarnedInv, [Next]_vars
             PROVE  EarnedInv'
  OBVIOUS
<1>1. InputsKept /\ sanctioned \subseteq sanctioned'
  BY StepInputs
<1>2. Earned(ws', inputs', sanctioned')
  BY DraftEarned
<1>3. saved' # None => Earned(saved'.ws, inputs', sanctioned')
  <2>1. CASE AskModel \/ CallTools
    <3>1. saved' = [run |-> run, ws |-> ws] /\ ws' = ws
      BY <2>1 DEF AskModel, CallTools, Checkpoint
    <3>2. saved'.ws = ws'
      BY <3>1
    <3> QED
      BY <1>2, <3>2
  <2>2. CASE ~(AskModel \/ CallTools)
    <3>1. saved' = saved
      BY <2>2 DEF Next, SessionStep, ToolStep, Claim, OutOfTurns, ToolChosen,
         ToolNotAvailable, TurnFails, Malformed, Abort, SubmitContract, ContractAccepted,
         ContractNotAccepted, ContractRejected, ChangeSource, Probe, ProbeDone,
         ReviewGeneratedTest, OracleReplaced, OracleKept, Lookup, RequestClarification,
         RequestExampleCorrection, AnswerInput, BuildFails, ValidationFails, ValidationPasses,
         Publish, ModelStep, Crash, Rejected, ToolFails, ToEvaluation, Suspend,
         registryVars, vars
    <3>2. saved # None => Earned(saved.ws, inputs, sanctioned)
      BY DEF EarnedInv
    <3> QED
      BY <1>1, <3>1, <3>2, EarnedKept DEF InputsKept
  <2> QED
    BY <2>1, <2>2
<1>4. pc' = "publish" => AllPass(ws')
  <2> SUFFICES ASSUME pc' = "publish" PROVE AllPass(ws')
    OBVIOUS
  <2>1. CASE ValidationPasses
    <3>1. ws'.draft = ws.draft /\ ws'.source = ws.source /\ AllPass(ws)
      BY <2>1 DEF ValidationPasses, Shape, TypeOK, Workspaces
    <3> QED
      BY <3>1 DEF AllPass
  <2>2. CASE ~ValidationPasses
    <3>1. pc = "publish" /\ ws' = ws
      BY <2>2, ForgetShape DEF Next, SessionStep, ToolStep, Claim, AskModel, CallTools, OutOfTurns,
         ToolChosen, ToolNotAvailable, TurnFails, Malformed, Abort, SubmitContract,
         ContractAccepted, ContractNotAccepted, ContractRejected, ChangeSource, Probe, ProbeDone,
         ReviewGeneratedTest, OracleReplaced, OracleKept, Lookup, RequestClarification,
         RequestExampleCorrection, AnswerInput, BuildFails, ValidationFails,
         Publish, ModelStep, Crash, Rejected, ToolFails, ToEvaluation, Suspend, Continue, Go,
         sessionVars, vars
    <3> QED
      BY <3>1 DEF EarnedInv
  <2> QED
    BY <2>1, <2>2
<1>5. (published # None => job = "ready")' /\ PublishedEarnedIt'
  <2>1. CASE Publish
    BY <2>1, PublishesEarned DEF Publish
  <2>2. CASE ~Publish
    <3>1. published' = published
      BY <2>2 DEF Next, SessionStep, ToolStep, Claim, AskModel, CallTools, OutOfTurns, ToolChosen,
         ToolNotAvailable, TurnFails, Malformed, Abort, SubmitContract, ContractAccepted,
         ContractNotAccepted, ContractRejected, ChangeSource, Probe, ProbeDone,
         ReviewGeneratedTest, OracleReplaced, OracleKept, Lookup, RequestClarification,
         RequestExampleCorrection, AnswerInput, BuildFails, ValidationFails, ValidationPasses,
         ModelStep, Crash, Rejected, ToolFails, ToEvaluation, Suspend,
         registryVars, vars
    <3>2. CASE published = None
      BY <3>1, <3>2 DEF PublishedEarnedIt
    <3>3. CASE published # None
      <4>1. job = "ready" /\ PublishedEarnedIt
        BY <3>3 DEF EarnedInv
      <4>2. UNCHANGED <<job, inputs, published, sanctioned>>
        BY <4>1, ReadyRests
      <4> QED
        BY <4>1, <4>2 DEF PublishedEarnedIt, ApprovedFix
    <3> QED
      BY <3>2, <3>3
  <2> QED
    BY <2>1, <2>2
<1> QED
  BY <1>2, <1>3, <1>4, <1>5 DEF EarnedInv

\* What is published passes its checks, asserts the examples as registered or as
\* the user corrected them, and generated tests as they were accepted
\* (evaluate_after_mutation, validate_contract, apply_example_correction).
THEOREM PublishedEarned == Spec => []PublishedEarnedIt
<1>1. Init => EarnedInv
  BY FreshEarned DEF Init, EarnedInv, PublishedEarnedIt
<1>2. EarnedInv => PublishedEarnedIt
  BY DEF EarnedInv
<1> QED
  BY <1>1, <1>2, QuestionsHold, StepEarned, PTL DEF Spec

-----------------------------------------------------------------------------
(* The job's life.                                                         *)

Open == inputs # <<>> /\ inputs[Len(inputs)].answer = None
Made == IF published = None THEN "unpublished" ELSE "published"

\* What a step does to the parts of a job its user sees.
LEMMA VisibleStep ==
  Shape /\ SavedInv /\ QuestionInv /\ EarnedInv /\ [Next]_vars =>
    \/ job' = job /\ Open' = Open /\ Made' = Made
    \/ job = "queued" /\ job' = "running" /\ Open' = Open /\ Made' = Made
    \/ job \in {"queued", "running"} /\ job' = "rejected" /\ Open = FALSE /\ Open' = Open /\ Made' = Made
    \/ job = "running" /\ job' = "awaiting_input" /\ Open' = TRUE /\ Made' = Made
    \/ job = "awaiting_input" /\ job' = "queued" /\ Open' = FALSE /\ Made' = Made
    \/ job = "running" /\ job' = "ready" /\ Made' = "published" /\ Open' = Open
<1> SUFFICES ASSUME Shape, SavedInv, QuestionInv, EarnedInv, [Next]_vars
             PROVE  \/ job' = job /\ Open' = Open /\ Made' = Made
                    \/ job = "queued" /\ job' = "running" /\ Open' = Open /\ Made' = Made
                    \/ /\ job \in {"queued", "running"} /\ job' = "rejected"
                       /\ Open = FALSE /\ Open' = Open /\ Made' = Made
                    \/ job = "running" /\ job' = "awaiting_input" /\ Open' = TRUE /\ Made' = Made
                    \/ job = "awaiting_input" /\ job' = "queued" /\ Open' = FALSE /\ Made' = Made
                    \/ job = "running" /\ job' = "ready" /\ Made' = "published" /\ Open' = Open
  OBVIOUS
<1>1. pc # "idle" => job = "running"
  BY DEF Shape, ControlInv
<1>2. inputs' = inputs => Open' = Open
  BY DEF Open
<1>3. published' = published => Made' = Made
  BY DEF Made
<1>4. job # "awaiting_input" => Open = FALSE
  <2> SUFFICES ASSUME job # "awaiting_input", inputs # <<>> PROVE inputs[Len(inputs)].answer # None
    BY DEF Open
  <2>1. Len(inputs) \in DOMAIN inputs
    BY DEF Shape, TypeOK
  <2> QED
    BY <2>1, QuestionFacts DEF QuestionInv
<1>5. CASE Claim
  BY <1>2, <1>3, <1>4, <1>5 DEF Claim, Claimable
<1>6. ASSUME Rejected, pc # "idle"
      PROVE  /\ job \in {"queued", "running"} /\ job' = "rejected"
             /\ Open = FALSE /\ Open' = Open /\ Made' = Made
  BY <1>1, <1>2, <1>3, <1>4, <1>6 DEF Rejected
<1>7. ASSUME Suspend, pc # "idle"
      PROVE  job = "running" /\ job' = "awaiting_input" /\ Open' = TRUE /\ Made' = Made
  <2>1. inputs \in Seq(Inputs)
    BY DEF Shape, TypeOK
  <2>2. /\ inputs' = Append(inputs, [call |-> run.pending, answer |-> None])
        /\ job' = "awaiting_input" /\ published' = published
    BY <1>7 DEF Suspend
  <2>3. /\ inputs' # <<>> /\ Len(inputs') = Len(inputs) + 1
        /\ inputs'[Len(inputs) + 1] = [call |-> run.pending, answer |-> None]
    BY <2>1, <2>2
  <2> QED
    BY <1>1, <1>3, <1>7, <2>2, <2>3 DEF Open
<1>8. CASE AnswerInput
  <2>1. QuestionInv'
    BY <1>8, AnswerQuestions
  <2>2. Shape'
    <3>1. CallOK(call)'
      BY <1>8 DEF AnswerInput, sessionVars, Shape
    <3> QED
      BY <3>1, StepShape DEF Shape
  <2>3. (job # "awaiting_input" => Open = FALSE)'
    <3> SUFFICES ASSUME job' # "awaiting_input", inputs' # <<>>
                 PROVE  inputs'[Len(inputs')].answer # None
      BY DEF Open
    <3>1. Len(inputs') \in DOMAIN inputs'
      BY <2>2 DEF Shape, TypeOK
    <3> QED
      BY <2>1, <3>1 DEF QuestionInv, AnswersInv
  <2> QED
    BY <1>3, <1>8, <2>3 DEF AnswerInput
<1>9. CASE Publish
  <2>1. published' # None
    <3>1. ws.source \in Sources /\ ws.draft \in [Tests -> Results]
      BY <1>9, WsTypes DEF Publish, Shape, TypeOK, ControlInv, WsShape
    <3>2. Candidate \in Candidates
      BY <3>1 DEF Candidate, Candidates
    <3> QED
      BY <1>9, <3>2, NoneAssumption DEF Publish
  <2> QED
    BY <1>1, <1>2, <1>9, <2>1 DEF Publish, Made
<1>10. CASE ~(Claim \/ AnswerInput \/ Publish)
  <2>1. ASSUME ~Rejected, ~Suspend PROVE UNCHANGED <<job, inputs, published>>
    BY <1>10, <2>1 DEF Next, SessionStep, ToolStep, AskModel, CallTools, OutOfTurns, ToolChosen,
       ToolNotAvailable, TurnFails, Malformed, Abort, SubmitContract, ContractAccepted,
       ContractNotAccepted, ContractRejected, ChangeSource, Probe, ProbeDone,
       ReviewGeneratedTest, OracleReplaced, OracleKept, Lookup, RequestClarification,
       RequestExampleCorrection, BuildFails, ValidationFails, ValidationPasses,
       ModelStep, Crash, ToolFails, ToEvaluation,
       registryVars, vars
  <2>2. CASE pc = "idle"
    <3>1. UNCHANGED registryVars
      BY <1>10, <2>2 DEF Next, SessionStep, ToolStep, AskModel, CallTools, OutOfTurns, ToolChosen,
       ToolNotAvailable, TurnFails, Malformed, Abort, SubmitContract, ContractAccepted,
       ContractNotAccepted, ContractRejected, ChangeSource, Probe, ProbeDone,
       ReviewGeneratedTest, OracleReplaced, OracleKept, Lookup, RequestClarification,
       RequestExampleCorrection, BuildFails, ValidationFails, ValidationPasses,
       ModelStep, Crash, Pending, vars
    <3> QED
      BY <1>2, <1>3, <3>1 DEF registryVars
  <2> QED
    BY <1>2, <1>3, <1>6, <1>7, <2>1, <2>2
<1> QED
  BY <1>5, <1>8, <1>9, <1>10

\* Crashes, replays, retries and tool calls never show in the life of the job:
\* every step of the agent run is a step of JobLife or shows nothing.
THEOREM AgentImplementsJobLife == Spec => Life!Spec
<1> DEFINE F(x) == [j \in {"job"} |-> x]
<1>1. Init => Life!Init
  <2> SUFFICES ASSUME Init PROVE Life!Init
    OBVIOUS
  <2>1. job = "queued" /\ Open = FALSE /\ Made = "unpublished"
    BY DEF Init, Open, Made
  <2> QED
    BY <2>1 DEF Life!Init, Open, Made
<1>2. Shape /\ SavedInv /\ QuestionInv /\ EarnedInv /\ [Next]_vars => [Life!Next]_(Life!vars)
  <2> SUFFICES ASSUME Shape, SavedInv, QuestionInv, EarnedInv, [Next]_vars
               PROVE  Life!Next \/ UNCHANGED Life!vars
    OBVIOUS
  <2>1. \A x, y : [F(x) EXCEPT !["job"] = y] = F(y) /\ F(x)["job"] = x
    OBVIOUS
  <2> HIDE DEF F
  <2>2. CASE job' = job /\ Open' = Open /\ Made' = Made
    BY <2>2 DEF Life!vars, Open, Made
  <2>3. CASE job = "queued" /\ job' = "running" /\ Open' = Open /\ Made' = Made
    <3>1. Life!Start("job")
      BY <2>1, <2>3 DEF Life!Start, F, Open, Made
    <3> QED
      BY <3>1 DEF Life!Next, Life!Step
  <2>4. CASE /\ job \in {"queued", "running"} /\ job' = "rejected"
             /\ Open = FALSE /\ Open' = Open /\ Made' = Made
    <3>1. Life!Cancel("job")
      BY <2>1, <2>4 DEF Life!Cancel, F, Open, Made
    <3> QED
      BY <3>1 DEF Life!Next, Life!Step
  <2>5. CASE job = "running" /\ job' = "awaiting_input" /\ Open' = TRUE /\ Made' = Made
    <3>1. Life!Ask("job")
      BY <2>1, <2>5 DEF Life!Ask, F, Open, Made
    <3> QED
      BY <3>1 DEF Life!Next, Life!Step
  <2>6. CASE job = "awaiting_input" /\ job' = "queued" /\ Open' = FALSE /\ Made' = Made
    <3>1. Life!Answer("job")
      BY <2>1, <2>6 DEF Life!Answer, F, Open, Made
    <3> QED
      BY <3>1 DEF Life!Next, Life!Step
  <2>7. CASE job = "running" /\ job' = "ready" /\ Made' = "published" /\ Open' = Open
    <3>1. Life!Publish("job")
      BY <2>1, <2>7 DEF Life!Publish, F, Open, Made
    <3> QED
      BY <3>1 DEF Life!Next, Life!Step
  <2> QED
    BY <2>2, <2>3, <2>4, <2>5, <2>6, <2>7, VisibleStep
<1>3. Init => EarnedInv
  BY FreshEarned DEF Init, EarnedInv, PublishedEarnedIt
<1> QED
  BY <1>1, <1>2, <1>3, QuestionsHold, StepEarned, PTL DEF Spec, Life!Spec

-----------------------------------------------------------------------------
(* The work that a crash makes uncounted.                                  *)

Corrected(w) == {e \in Examples : w.fixes[e] # None}

LEMMA CountNat ==
  ASSUME NEW w \in Workspaces PROVE CountedEvaluations(w) \in Nat /\ w.probes \in Nat
<1>1. IsFiniteSet(Corrected(w))
  BY FS_Subset, AgentAssumption DEF Corrected
<1>2. Cardinality(Corrected(w)) \in Nat
  BY <1>1, FS_CardinalityType
<1>3. w.revisions \in Nat /\ w.corrections \in Nat /\ w.probes \in Nat
  BY WsTypes, AgentAssumption
<1> QED
  BY <1>2, <1>3 DEF CountedEvaluations, Corrected

LEMMA SameCount ==
  ASSUME NEW w, NEW v, v.revisions = w.revisions, v.corrections = w.corrections,
         v.fixes = w.fixes
  PROVE  CountedEvaluations(v) = CountedEvaluations(w)
  BY DEF CountedEvaluations

LEMMA FreshCount == CountedEvaluations(FreshWs) = 0 /\ FreshWs.probes = 0
<1>1. Corrected(FreshWs) = {}
  BY DEF Corrected, FreshWs
<1>2. Cardinality(Corrected(FreshWs)) = 0
  BY <1>1, FS_EmptySet
<1>3. FreshWs.revisions = 0 /\ FreshWs.corrections = 0 /\ FreshWs.probes = 0
  BY DEF FreshWs
<1> QED
  BY <1>2, <1>3 DEF CountedEvaluations, Corrected

LEMMA OneMoreFix ==
  ASSUME NEW w \in Workspaces, NEW e \in Examples, NEW r \in Results, w.fixes[e] = None
  PROVE  /\ CountedEvaluations(ApplyFix(w, e, r)) = CountedEvaluations(w) + 1
         /\ ApplyFix(w, e, r).probes = w.probes
<1> DEFINE v == ApplyFix(w, e, r)
<1>1. /\ v.fixes = [w.fixes EXCEPT ![e] = r] /\ v.revisions = w.revisions
      /\ v.corrections = w.corrections /\ v.probes = w.probes
  <2>1. v.fixes = [w.fixes EXCEPT ![e] = r]
    BY ApplyFixType, Zenon
  <2>2. v.revisions = w.revisions
    BY ApplyFixType, Zenon
  <2>3. v.corrections = w.corrections
    BY ApplyFixType, Zenon
  <2>4. v.probes = w.probes
    BY ApplyFixType, Zenon
  <2> QED
    BY <2>1, <2>2, <2>3, <2>4
<1>2. w.fixes \in [Examples -> Results \cup {None}] /\ r # None
  BY WsTypes, AgentAssumption
<1> HIDE DEF v
<1>3. Corrected(v) = Corrected(w) \cup {e} /\ e \notin Corrected(w)
  BY <1>1, <1>2 DEF Corrected
<1>4. IsFiniteSet(Corrected(w))
  BY FS_Subset, AgentAssumption DEF Corrected
<1>5. /\ Cardinality(Corrected(v)) = Cardinality(Corrected(w)) + 1
      /\ Cardinality(Corrected(w)) \in Nat
  BY <1>3, <1>4, FS_AddElement, FS_CardinalityType
<1>6. w.revisions \in Nat /\ w.corrections \in Nat
  BY WsTypes, AgentAssumption
<1>7. CountedEvaluations(v) = w.revisions + w.corrections + Cardinality(Corrected(v))
  BY <1>1 DEF CountedEvaluations, Corrected
<1>8. CountedEvaluations(w) = w.revisions + w.corrections + Cardinality(Corrected(w))
  BY DEF CountedEvaluations, Corrected
<1>9. CountedEvaluations(v) = CountedEvaluations(w) + 1
  BY <1>5, <1>6, <1>7, <1>8
<1> QED
  BY <1>1, <1>9 DEF v

\* The counts of the session, of the checkpoint, and of the work really started.
InSession(place, n, m, p, q, work, at) ==
  /\ work.evaluations < n + at /\ work.probes < p + at
  /\ n <= m + 1 /\ p <= q + 1
  /\ place \notin {"head", "evaluate", "publish"} => n = m
  /\ place \notin {"head", "probe"} => p = q

WorkInv ==
  /\ pc # "idle" =>
       InSession(pc, CountedEvaluations(ws), CountedEvaluations(SavedWs), ws.probes,
                 SavedWs.probes, spent, attempts)
  /\ pc = "idle" /\ job \in {"queued", "awaiting_input"} /\ inputs # <<>> =>
       /\ spent.evaluations < CountedEvaluations(SavedWs) + attempts
       /\ spent.probes < SavedWs.probes + attempts
  /\ UncountedWorkIsBounded

LEMMA WorkCounts ==
  ASSUME Shape
  PROVE  /\ CountedEvaluations(ws) \in Nat /\ CountedEvaluations(SavedWs) \in Nat
         /\ ws.probes \in Nat /\ SavedWs.probes \in Nat /\ attempts \in Nat
         /\ spent.evaluations \in Nat /\ spent.probes \in Nat
<1>1. ws \in Workspaces /\ SavedWs \in Workspaces
  BY FreshTypes DEF Shape, TypeOK, SavedWs
<1>2. attempts \in Nat /\ spent.evaluations \in Nat /\ spent.probes \in Nat
  BY AgentAssumption DEF Shape, TypeOK
<1> QED
  BY <1>1, <1>2, CountNat

\* The session ends without a question.
LEMMA EndedWork ==
  ASSUME Shape, Shape', WorkInv, pc # "idle", pc' = "idle", UNCHANGED <<saved, spent, attempts>>,
         job' \notin {"queued", "awaiting_input"}
  PROVE  WorkInv'
<1>1. SavedWs' = SavedWs
  BY DEF SavedWs
<1>2. UncountedWorkIsBounded'
  BY <1>1, WorkCounts DEF WorkInv, InSession, UncountedWorkIsBounded
<1> QED
  BY <1>2 DEF WorkInv

\* The session goes on; the checkpoint is as it was.
LEMMA OnwardWork ==
  ASSUME Shape, Shape', WorkInv, pc # "idle", pc' # "idle", UNCHANGED <<saved, attempts>>,
         \/ /\ CountedEvaluations(ws') = CountedEvaluations(ws) /\ ws'.probes = ws.probes
            /\ spent' = spent
            /\ \/ pc' \in {"head", pc}
               \/ pc \notin {"head", "probe"} /\ pc' = "publish"
               \/ pc = "tool" /\ pc' \in {"review", "verify"}
         \/ /\ pc \in {"tool", "verify"} /\ pc' = "evaluate"
            /\ CountedEvaluations(ws') = CountedEvaluations(ws) + 1 /\ ws'.probes = ws.probes
            /\ spent' = [spent EXCEPT !.evaluations = spent.evaluations + 1]
         \/ /\ pc = "tool" /\ pc' = "probe"
            /\ CountedEvaluations(ws') = CountedEvaluations(ws) /\ ws'.probes = ws.probes + 1
            /\ spent' = [spent EXCEPT !.probes = spent.probes + 1]
         \/ /\ pc = "tool" /\ pc' = "head" /\ spent' = spent
            /\ CountedEvaluations(ws') = CountedEvaluations(ws) + 1 /\ ws'.probes = ws.probes
  PROVE  WorkInv'
<1>1. SavedWs' = SavedWs
  BY DEF SavedWs
<1>2. spent \in [evaluations : Nat, probes : Nat]
  BY DEF Shape, TypeOK
<1>3. InSession(pc', CountedEvaluations(ws'), CountedEvaluations(SavedWs), ws'.probes,
                SavedWs.probes, spent', attempts)
  <2>1. InSession(pc, CountedEvaluations(ws), CountedEvaluations(SavedWs), ws.probes,
                  SavedWs.probes, spent, attempts)
    BY DEF WorkInv
  <2>2. /\ CountedEvaluations(ws) \in Nat /\ CountedEvaluations(SavedWs) \in Nat
        /\ ws.probes \in Nat /\ SavedWs.probes \in Nat /\ attempts \in Nat
        /\ spent.evaluations \in Nat /\ spent.probes \in Nat
    BY WorkCounts
  <2>3. CASE /\ CountedEvaluations(ws') = CountedEvaluations(ws) /\ ws'.probes = ws.probes
             /\ spent' = spent
             /\ \/ pc' \in {"head", pc}
                \/ pc \notin {"head", "probe"} /\ pc' = "publish"
                \/ pc = "tool" /\ pc' \in {"review", "verify"}
    BY <2>1, <2>3 DEF InSession
  <2>4. CASE /\ pc \in {"tool", "verify"} /\ pc' = "evaluate"
             /\ CountedEvaluations(ws') = CountedEvaluations(ws) + 1 /\ ws'.probes = ws.probes
             /\ spent' = [spent EXCEPT !.evaluations = spent.evaluations + 1]
    <3>1. spent'.evaluations = spent.evaluations + 1 /\ spent'.probes = spent.probes
      BY <1>2, <2>4
    <3> QED
      BY <2>1, <2>2, <2>4, <3>1 DEF InSession
  <2>5. CASE /\ pc = "tool" /\ pc' = "probe"
             /\ CountedEvaluations(ws') = CountedEvaluations(ws) /\ ws'.probes = ws.probes + 1
             /\ spent' = [spent EXCEPT !.probes = spent.probes + 1]
    <3>1. spent'.probes = spent.probes + 1 /\ spent'.evaluations = spent.evaluations
      BY <1>2, <2>5
    <3> QED
      BY <2>1, <2>2, <2>5, <3>1 DEF InSession
  <2>6. CASE /\ pc = "tool" /\ pc' = "head" /\ spent' = spent
             /\ CountedEvaluations(ws') = CountedEvaluations(ws) + 1 /\ ws'.probes = ws.probes
    BY <2>1, <2>2, <2>6 DEF InSession
  <2> QED
    BY <2>3, <2>4, <2>5, <2>6
<1>4. UncountedWorkIsBounded'
  <2>1. /\ spent' \in [evaluations : Nat, probes : Nat] /\ ws' \in Workspaces
    BY DEF Shape, TypeOK
  <2>2. /\ spent'.evaluations \in Nat /\ spent'.probes \in Nat
        /\ CountedEvaluations(ws') \in Nat /\ ws'.probes \in Nat
    BY <2>1, CountNat
  <2>3. CountedEvaluations(SavedWs) \in Nat /\ SavedWs.probes \in Nat /\ attempts \in Nat
    BY WorkCounts
  <2>4. /\ spent'.evaluations <= CountedEvaluations(SavedWs) + attempts
        /\ spent'.probes <= SavedWs.probes + attempts
    BY <1>3, <2>2, <2>3 DEF InSession
  <2> QED
    BY <1>1, <2>4 DEF UncountedWorkIsBounded
<1> QED
  BY <1>1, <1>3, <1>4 DEF WorkInv

LEMMA StepWork ==
  ASSUME Shape, Shape', SavedInv, QuestionInv, WorkInv, [Next]_vars
  PROVE  WorkInv'
<1>1. /\ pc # "idle" => job = "running"
      /\ ws \in Workspaces /\ run \in Runs
      /\ spent \in [evaluations : Nat, probes : Nat]
  BY DEF Shape, ControlInv, TypeOK
<1>2. /\ CountedEvaluations(ws) \in Nat /\ CountedEvaluations(SavedWs) \in Nat
      /\ ws.probes \in Nat /\ SavedWs.probes \in Nat /\ attempts \in Nat
      /\ spent.evaluations \in Nat /\ spent.probes \in Nat
  BY WorkCounts
<1>3. saved' = saved => SavedWs' = SavedWs
  BY DEF SavedWs
<1>4. ASSUME Rejected, pc # "idle" PROVE WorkInv'
  BY <1>4, ForgetShape, EndedWork DEF Rejected, history
<1>5. ASSUME pc # "idle", pc' # "idle", UNCHANGED <<registryVars, history>>,
             ws'.revisions = ws.revisions, ws'.corrections = ws.corrections,
             ws'.fixes = ws.fixes, ws'.probes = ws.probes,
             \/ pc' \in {"head", pc}
             \/ pc \notin {"head", "probe"} /\ pc' = "publish"
             \/ pc = "tool" /\ pc' \in {"review", "verify"}
      PROVE  WorkInv'
  BY <1>5, SameCount, OnwardWork DEF registryVars, history
<1>6. ASSUME ToolFails, pc # "idle" PROVE WorkInv'
  BY <1>5, <1>6 DEF ToolFails, Continue, Go
<1>7. CASE Claim
  <2>1. pc = "idle" /\ job \in {"queued", "running"} /\ UNCHANGED <<saved, inputs, spent>>
    BY <1>7 DEF Claim, Claimable, history
  <2>2. attempts' = attempts + 1 \/ (job = "queued" /\ inputs # <<>> /\ attempts' = attempts)
    BY <1>2, <1>7, <2>1 DEF Claim, CountsAttempt
  <2>3. UncountedWorkIsBounded'
    BY <1>2, <1>3, <2>1, <2>2 DEF WorkInv, UncountedWorkIsBounded
  <2>4. CASE attempts' > MaxAttempts
    BY <1>7, <2>1, <2>3, <2>4 DEF Claim, WorkInv
  <2>5. CASE ~(attempts' > MaxAttempts)
    <3>1. ws' = SavedWs
      BY <1>7, <2>5 DEF Claim, Resume, SavedWs
    <3>2. pc' = "head" /\ job' = "running"
      BY <1>7, <2>5 DEF Claim, Go
    <3>3. /\ spent.evaluations < CountedEvaluations(SavedWs) + attempts'
          /\ spent.probes < SavedWs.probes + attempts'
      BY <1>2, <2>1, <2>2 DEF WorkInv, UncountedWorkIsBounded
    <3>4. InSession(pc', CountedEvaluations(ws'), CountedEvaluations(SavedWs), ws'.probes,
                    SavedWs.probes, spent', attempts')
      BY <1>2, <2>1, <3>1, <3>2, <3>3 DEF InSession
    <3> QED
      BY <1>3, <2>1, <2>3, <3>2, <3>4 DEF WorkInv
  <2> QED
    BY <2>4, <2>5
<1>8. CASE AskModel \/ CallTools
  <2>1. /\ pc = "head" /\ pc' \in {"model", "tool"} /\ UNCHANGED <<job, attempts, ws, spent>>
        /\ saved' = [run |-> run, ws |-> ws]
    BY <1>8 DEF AskModel, CallTools, Go, Checkpoint, history
  <2>2. saved' # None
    BY <2>1, NoneAssumption DEF Shape, TypeOK
  <2>3. SavedWs' = ws
    BY <2>1, <2>2 DEF SavedWs
  <2>4. InSession(pc', CountedEvaluations(ws), CountedEvaluations(ws), ws.probes, ws.probes,
                  spent, attempts)
    BY <1>2, <2>1 DEF WorkInv, InSession
  <2>5. UncountedWorkIsBounded'
    BY <1>2, <2>1, <2>3, <2>4 DEF InSession, UncountedWorkIsBounded
  <2> QED
    BY <2>1, <2>3, <2>4, <2>5 DEF WorkInv
<1>9. CASE OutOfTurns \/ TurnFails \/ Abort \/ ContractRejected \/ BuildFails
  BY <1>4, <1>9 DEF OutOfTurns, TurnFails, Abort, ContractRejected, BuildFails, Pending
<1>10. CASE Publish \/ Crash
  BY <1>1, <1>10, ForgetShape, EndedWork DEF Publish, Crash, registryVars, history
<1>11. CASE ToolChosen \/ ToolNotAvailable
  BY <1>5, <1>11 DEF ToolChosen, ToolNotAvailable, Go
<1>12. CASE Malformed \/ ContractNotAccepted \/ OracleKept
  BY <1>5, <1>6, <1>12 DEF Malformed, ContractNotAccepted, OracleKept, Pending, Continue, Go
<1>13. CASE SubmitContract
  BY <1>5, <1>13 DEF SubmitContract, Pending, Go
<1>14. CASE ContractAccepted
  <2> DEFINE d == DraftTests(run.pending.plan, ws)
  <2>1. /\ pc = "review" /\ pc' = "head" /\ UNCHANGED <<registryVars, spent>>
        /\ ws' = [ws EXCEPT !.draft = d, !.failure = None]
    BY <1>14 DEF ContractAccepted, Continue, Go
  <2> HIDE DEF d
  <2>2. /\ ws'.revisions = ws.revisions /\ ws'.corrections = ws.corrections
        /\ ws'.fixes = ws.fixes /\ ws'.probes = ws.probes
    BY <1>1, <2>1 DEF Workspaces
  <2> QED
    BY <2>1, <2>2, SameCount, OnwardWork DEF registryVars
<1>15. ASSUME NEW n, pc = "tool", ToEvaluation(n),
              CountedEvaluations(n) = CountedEvaluations(ws) + 1, n.probes = ws.probes
       PROVE  WorkInv'
  BY <1>15, OnwardWork DEF ToEvaluation, Go, registryVars
<1>16. CASE ChangeSource
  <2>1. pc = "tool"
    BY <1>16 DEF ChangeSource
  <2> DEFINE n == [ws EXCEPT !.source = run.pending.source, !.revisions = ws.revisions + 1]
  <2>2. ASSUME ToEvaluation(n) PROVE WorkInv'
    <3>1. /\ n.revisions = ws.revisions + 1 /\ n.corrections = ws.corrections
          /\ n.fixes = ws.fixes /\ n.probes = ws.probes
      BY <1>1 DEF Workspaces
    <3> HIDE DEF n
    <3>2. ws.revisions \in Nat /\ ws.corrections \in Nat
      BY <1>1, WsTypes, AgentAssumption
    <3>3. Cardinality(Corrected(ws)) \in Nat
      BY FS_Subset, FS_CardinalityType, AgentAssumption DEF Corrected
    <3>4. CountedEvaluations(n) = CountedEvaluations(ws) + 1
      BY <3>1, <3>2, <3>3 DEF CountedEvaluations, Corrected
    <3> QED
      BY <1>15, <2>1, <2>2, <3>1, <3>4
  <2> HIDE DEF n
  <2>3. Rejected \/ ToEvaluation(n) \/ ToolFails
    BY <1>16 DEF ChangeSource, n
  <2> QED
    BY <1>4, <1>6, <2>1, <2>2, <2>3
<1>17. CASE Probe
  <2>1. pc = "tool"
    BY <1>17 DEF Probe, Pending
  <2>2. ASSUME Go("probe"), ws' = [ws EXCEPT !.probes = ws.probes + 1],
               spent' = [spent EXCEPT !.probes = spent.probes + 1], UNCHANGED registryVars
        PROVE  WorkInv'
    <3>1. /\ ws'.revisions = ws.revisions /\ ws'.corrections = ws.corrections
          /\ ws'.fixes = ws.fixes /\ ws'.probes = ws.probes + 1
      BY <1>1, <2>2 DEF Workspaces
    <3> QED
      BY <2>1, <2>2, <3>1, SameCount, OnwardWork DEF Go, registryVars
  <2> QED
    BY <1>4, <1>6, <1>17, <2>1, <2>2 DEF Probe
<1>18. CASE ProbeDone
  <2>1. /\ ws'.revisions = ws.revisions /\ ws'.corrections = ws.corrections
        /\ ws'.fixes = ws.fixes /\ ws'.probes = ws.probes
    BY <1>1, <1>18 DEF ProbeDone, Continue, Workspaces
  <2> QED
    BY <1>5, <1>18, <2>1 DEF ProbeDone, Continue, Go
<1>19. CASE ReviewGeneratedTest
  BY <1>4, <1>5, <1>6, <1>19 DEF ReviewGeneratedTest, Pending, Go
<1>20. CASE OracleReplaced
  <2>1. PICK r \in Results : ws' = [ws EXCEPT !.draft[run.pending.test] = r,
                                              !.corrections = ws.corrections + 1]
    BY <1>20 DEF OracleReplaced
  <2>2. /\ ws'.revisions = ws.revisions /\ ws'.corrections = ws.corrections + 1
        /\ ws'.fixes = ws.fixes /\ ws'.probes = ws.probes
    BY <1>1, <2>1 DEF Workspaces
  <2>3. ws.revisions \in Nat /\ ws.corrections \in Nat
    BY <1>1, WsTypes, AgentAssumption
  <2>4. Cardinality(Corrected(ws)) \in Nat
    BY FS_Subset, FS_CardinalityType, AgentAssumption DEF Corrected
  <2>5. CountedEvaluations(ws') = CountedEvaluations(ws) + 1
    BY <2>2, <2>3, <2>4 DEF CountedEvaluations, Corrected
  <2>6. /\ pc = "verify" /\ pc' = "evaluate" /\ UNCHANGED registryVars
        /\ spent' = [spent EXCEPT !.evaluations = spent.evaluations + 1]
    BY <1>20 DEF OracleReplaced, Go
  <2> QED
    BY <2>2, <2>5, <2>6, OnwardWork DEF registryVars
<1>21. CASE Lookup
  <2>1. pc = "tool"
    BY <1>21 DEF Lookup
  <2>2. ASSUME NEW l \in Lookups, Continue([ws EXCEPT !.lookups[l] = ws.lookups[l] + 1]),
               UNCHANGED <<registryVars, history>>
        PROVE  WorkInv'
    <3>1. /\ ws'.revisions = ws.revisions /\ ws'.corrections = ws.corrections
          /\ ws'.fixes = ws.fixes /\ ws'.probes = ws.probes
      BY <1>1, <2>2 DEF Continue, Workspaces
    <3> QED
      BY <1>5, <2>1, <2>2, <3>1 DEF Continue, Go
  <2> QED
    BY <1>4, <1>21, <2>1, <2>2 DEF Lookup
<1>22. ASSUME pc = "tool", Suspend PROVE WorkInv'
  <2>1. /\ pc' = "idle" /\ job' = "awaiting_input" /\ UNCHANGED <<attempts, saved, spent>>
    BY <1>22, ForgetShape DEF Suspend, history
  <2>2. /\ spent.evaluations < CountedEvaluations(SavedWs) + attempts
        /\ spent.probes < SavedWs.probes + attempts
    BY <1>2, <1>22 DEF WorkInv, InSession
  <2>3. UncountedWorkIsBounded'
    BY <1>2, <1>3, <2>1, <2>2 DEF UncountedWorkIsBounded
  <2> QED
    BY <1>3, <2>1, <2>2, <2>3 DEF WorkInv
<1>23. CASE RequestClarification
  <2>1. pc = "tool"
    BY <1>23 DEF RequestClarification, Pending
  <2>2. ASSUME NEW k, Continue([ws EXCEPT !.decisions = ws.decisions \cup {k}]),
               UNCHANGED <<registryVars, history>>
        PROVE  WorkInv'
    <3>1. /\ ws'.revisions = ws.revisions /\ ws'.corrections = ws.corrections
          /\ ws'.fixes = ws.fixes /\ ws'.probes = ws.probes
      BY <1>1, <2>2 DEF Continue, Workspaces
    <3> QED
      BY <1>5, <2>1, <2>2, <3>1 DEF Continue, Go
  <2> QED
    BY <1>6, <1>22, <1>23, <2>1, <2>2 DEF RequestClarification
<1>24. CASE RequestExampleCorrection
  <2> DEFINE e == run.pending.example
             r == run.pending.result
             n == ApplyFix(ws, e, r)
  <2>1. pc = "tool" /\ run.pending.tool = "request_example_correction" /\ run.pending # None
    BY <1>24 DEF RequestExampleCorrection, Pending, Shape, ControlInv
  <2>2. e \in Examples /\ r \in Results
    BY <1>1, <2>1, CallsByTool DEF Runs
  <2>3. ASSUME ws.fixes[e] = None
        PROVE  CountedEvaluations(n) = CountedEvaluations(ws) + 1 /\ n.probes = ws.probes
    BY <1>1, <2>2, <2>3, OneMoreFix
  <2> HIDE DEF n
  <2>4. CASE r = Original[e] \/ ws.fixes[e] # None
    BY <1>6, <1>24, <2>1, <2>4 DEF RequestExampleCorrection
  <2>5. CASE ws.fixes[e] = None /\ r # Original[e] /\ AnswerTo(run.id) = None
    BY <1>22, <1>24, <2>1, <2>5 DEF RequestExampleCorrection
  <2>6. CASE /\ ws.fixes[e] = None /\ r # Original[e] /\ AnswerTo(run.id) # None
             /\ AnswerTo(run.id) = "approve" /\ ws.source # None /\ ws.draft # None
    <3>1. ToEvaluation(n)
      BY <1>24, <2>6 DEF RequestExampleCorrection, n
    <3> QED
      BY <1>15, <2>1, <2>3, <2>6, <3>1
  <2>7. CASE /\ ws.fixes[e] = None /\ r # Original[e] /\ AnswerTo(run.id) # None
             /\ ~(AnswerTo(run.id) = "approve" /\ ws.source # None /\ ws.draft # None)
    <3>1. Continue(IF AnswerTo(run.id) = "approve" THEN n ELSE ws) /\ UNCHANGED <<registryVars, history>>
      BY <1>24, <2>7 DEF RequestExampleCorrection, n
    <3>2. CASE AnswerTo(run.id) = "approve"
      <4>1. Continue(n)
        BY <3>1, <3>2
      <4>2. pc' = "head" /\ ws' = n
        BY <4>1 DEF Continue, Go
      <4> QED
        BY <2>1, <2>3, <2>7, <3>1, <4>2, OnwardWork DEF registryVars, history
    <3>3. CASE AnswerTo(run.id) # "approve"
      <4>1. Continue(ws)
        BY <3>1, <3>3
      <4> QED
        BY <1>5, <2>1, <3>1, <4>1 DEF Continue, Go
    <3> QED
      BY <3>2, <3>3
  <2> QED
    BY <2>4, <2>5, <2>6, <2>7
<1>25. CASE ValidationFails \/ ValidationPasses
  <2>1. PICK c \in Checks \cup {None} : ws' = [ws EXCEPT !.failure = c]
    BY <1>25 DEF ValidationFails, ValidationPasses, Continue
  <2>2. /\ ws'.revisions = ws.revisions /\ ws'.corrections = ws.corrections
        /\ ws'.fixes = ws.fixes /\ ws'.probes = ws.probes
    BY <1>1, <2>1 DEF Workspaces
  <2> QED
    BY <1>5, <1>25, <2>2 DEF ValidationFails, ValidationPasses, Continue, Go
<1>26. CASE AnswerInput
  <2>1. /\ pc = "idle" /\ pc' = "idle" /\ inputs # <<>> /\ job = "awaiting_input"
        /\ UNCHANGED <<attempts, saved, spent>>
    BY <1>26 DEF AnswerInput, Shape, ControlInv, sessionVars, history
  <2>2. /\ spent.evaluations < CountedEvaluations(SavedWs) + attempts
        /\ spent.probes < SavedWs.probes + attempts
    BY <2>1 DEF WorkInv
  <2>3. UncountedWorkIsBounded'
    BY <1>2, <1>3, <2>1, <2>2 DEF UncountedWorkIsBounded
  <2> QED
    BY <1>3, <2>1, <2>2, <2>3 DEF WorkInv
<1>27. CASE ModelStep \/ UNCHANGED vars
  <2>1. UNCHANGED <<registryVars, pc, ws, history>>
    BY <1>27 DEF ModelStep, vars, sessionVars
  <2> QED
    BY <1>3, <2>1 DEF WorkInv, InSession, UncountedWorkIsBounded, registryVars, history
<1> QED
  BY <1>7, <1>8, <1>9, <1>10, <1>11, <1>12, <1>13, <1>14, <1>16, <1>17, <1>18, <1>19, <1>20,
     <1>21, <1>23, <1>24, <1>25, <1>26, <1>27 DEF Next, SessionStep, ToolStep

\* The sandbox work done exceeds the work the checkpoint counts by at most one
\* piece per attempt (save_checkpoint before the tools run, MAX_JOB_ATTEMPTS).
THEOREM UncountedWork == Spec => []UncountedWorkIsBounded
<1>1. Init => WorkInv
  <2> SUFFICES ASSUME Init PROVE WorkInv
    OBVIOUS
  <2>1. SavedWs = FreshWs
    BY DEF Init, SavedWs
  <2> QED
    BY <2>1, FreshCount DEF Init, WorkInv, UncountedWorkIsBounded
<1>2. (Shape /\ SavedInv /\ QuestionInv) /\ Shape' /\ WorkInv /\ [Next]_vars => WorkInv'
  BY StepWork
<1>3. WorkInv => UncountedWorkIsBounded
  BY DEF WorkInv
<1>4. Spec => []Shape
  BY QuestionsHold, PTL
<1> QED
  BY <1>1, <1>2, <1>3, <1>4, QuestionsHold, PTL DEF Spec
=============================================================================
