----------------------------- MODULE HttpProofs -----------------------------
(***************************************************************************)
(* Theorems about HttpApprovals.  A user's answer is looked up by the id   *)
(* of a call, so what a grant was approved as rests on one fact: the call  *)
(* that is pending is the one the answer under its id was given for.       *)
(***************************************************************************)
EXTENDS HttpApprovals, FiniteSetTheorems, SequenceTheorems, TLAPS

\* A list of capabilities without duplicates, and one with members of A only.
Unique(s) == \A m, n \in 1..Len(s) : s[m] = s[n] => m = n
Within(s, A) == \A n \in 1..Len(s) : s[n] \in A
Has(s, c) == \E n \in 1..Len(s) : s[n] = c

LEMMA AppendKeeps ==
  ASSUME NEW S, NEW s \in Seq(S), NEW c \in S, NEW A
  PROVE  /\ Append(s, c) \in Seq(S)
         /\ Within(s, A) /\ c \in A => Within(Append(s, c), A)
         /\ Unique(s) /\ ~Has(s, c) => Unique(Append(s, c))
<1>1. /\ Append(s, c) \in Seq(S)
      /\ Len(Append(s, c)) = Len(s) + 1
      /\ Len(s) \in Nat
      /\ \A i \in 1..Len(s) : Append(s, c)[i] = s[i]
      /\ Append(s, c)[Len(s) + 1] = c
  BY AppendProperties, LenProperties
<1>2. \A i \in 1..(Len(s) + 1) : i \in 1..Len(s) \/ i = Len(s) + 1
  BY <1>1
<1>3. Within(s, A) /\ c \in A => Within(Append(s, c), A)
  BY <1>1, <1>2 DEF Within
<1>4. Unique(s) /\ ~Has(s, c) => Unique(Append(s, c))
  BY <1>1, <1>2 DEF Unique, Has
<1> QED BY <1>1, <1>3, <1>4

LEMMA RemoveKeeps ==
  ASSUME NEW S, NEW s \in Seq(S), NEW i \in 1..Len(s), NEW A
  PROVE  /\ RemoveAt(s, i) \in Seq(S)
         /\ Within(s, A) => Within(RemoveAt(s, i), A)
         /\ Unique(s) => Unique(RemoveAt(s, i))
<1> DEFINE front == SubSeq(s, 1, i - 1)
           back == SubSeq(s, i + 1, Len(s))
<1>1. Len(s) \in Nat /\ i \in Nat /\ i >= 1 /\ i <= Len(s) /\ \A n \in 1..Len(s) : s[n] \in S
  BY LenProperties
<1>2. /\ front \in Seq(S)
      /\ Len(front) = i - 1
      /\ \A n \in 1..(i - 1) : front[n] = s[n]
  <2>1. \A n \in 1..(i - 1) : s[n] \in S
    BY <1>1
  <2>2. /\ front \in Seq(S)
        /\ Len(front) = IF 1 <= i - 1 THEN (i - 1) - 1 + 1 ELSE 0
        /\ \A n \in 1..((i - 1) - 1 + 1) : front[n] = s[1 + n - 1]
    BY <1>1, <2>1, SubSeqProperties
  <2> QED BY <1>1, <2>2
<1>3. /\ back \in Seq(S)
      /\ Len(back) = Len(s) - i
      /\ \A n \in 1..(Len(s) - i) : back[n] = s[n + i]
  <2>1. \A n \in (i + 1)..Len(s) : s[n] \in S
    BY <1>1
  <2>2. /\ back \in Seq(S)
        /\ Len(back) = IF i + 1 <= Len(s) THEN Len(s) - (i + 1) + 1 ELSE 0
        /\ \A n \in 1..(Len(s) - (i + 1) + 1) : back[n] = s[(i + 1) + n - 1]
    BY <1>1, <2>1, SubSeqProperties
  <2> QED BY <1>1, <2>2
<1> DEFINE t == front \o back
           from(n) == IF n < i THEN n ELSE n + 1
<1>4. /\ t \in Seq(S)
      /\ Len(t) = Len(s) - 1
      /\ \A n \in 1..(Len(s) - 1) :
           t[n] = IF n <= i - 1 THEN front[n] ELSE back[n - (i - 1)]
  <2> HIDE DEF front, back
  <2>1. /\ t \in Seq(S)
        /\ Len(t) = Len(front) + Len(back)
        /\ \A n \in 1..(Len(front) + Len(back)) :
             t[n] = IF n <= Len(front) THEN front[n] ELSE back[n - Len(front)]
    BY <1>2, <1>3, ConcatProperties
  <2> QED BY <1>1, <1>2, <1>3, <2>1
<1> HIDE DEF t, front, back
<1>5. \A n \in 1..Len(t) : from(n) \in 1..Len(s) /\ t[n] = s[from(n)]
  <2> SUFFICES ASSUME NEW n \in 1..Len(t)
               PROVE  from(n) \in 1..Len(s) /\ t[n] = s[from(n)]
    OBVIOUS
  <2>1. n \in Nat /\ n >= 1 /\ n <= Len(s) - 1 /\ n \in 1..(Len(s) - 1)
    BY <1>1, <1>4
  <2>2. CASE n < i
    <3>1. n <= i - 1 /\ n \in 1..(i - 1)
      BY <1>1, <2>1, <2>2
    <3>2. t[n] = s[n]
      BY <1>2, <1>4, <2>1, <3>1
    <3> QED
      BY <1>1, <2>1, <2>2, <3>2
  <2>3. CASE ~(n < i)
    <3>1. ~(n <= i - 1) /\ n - (i - 1) \in 1..(Len(s) - i) /\ (n - (i - 1)) + i = n + 1
      BY <1>1, <2>1, <2>3
    <3>2. t[n] = back[n - (i - 1)]
      BY <1>4, <2>1, <3>1
    <3>3. back[n - (i - 1)] = s[n + 1]
      BY <1>3, <3>1
    <3> QED
      BY <1>1, <2>1, <2>3, <3>2, <3>3
  <2> QED
    BY <2>2, <2>3
<1>6. \A m, n \in 1..Len(t) : from(m) = from(n) => m = n
  BY <1>1, <1>4
<1> HIDE DEF from
<1>7. Within(s, A) => Within(t, A)
  BY <1>5 DEF Within
<1>8. Unique(s) => Unique(t)
  BY <1>5, <1>6 DEF Unique
<1>9. t = RemoveAt(s, i)
  BY DEF t, front, back, RemoveAt
<1> QED BY <1>4, <1>7, <1>8, <1>9

\* As many rows as the list is long are active, if and only if all of them are.
LEMMA CountIsExact ==
  ASSUME NEW s \in Seq(Caps), Unique(s)
  PROVE  AllApproved(s) <=> \A c \in ToSet(s) : approval[c] = "active"
<1>1. Len(s) \in Nat /\ s \in [1..Len(s) -> Caps] /\ DOMAIN s = 1..Len(s)
  BY LenProperties
<1>2. ExistsBijection(1..Len(s), ToSet(s))
  <2>1. s \in Bijection(1..Len(s), ToSet(s))
    BY <1>1 DEF Unique, ToSet, Bijection, Injection, Surjection, IsInjective
  <2> QED BY <2>1 DEF ExistsBijection
<1>3. IsFiniteSet(1..Len(s)) /\ Cardinality(1..Len(s)) = Len(s)
  BY <1>1, FS_Interval
<1>4. IsFiniteSet(ToSet(s)) /\ Cardinality(ToSet(s)) = Len(s)
  BY <1>2, <1>3, FS_Bijection
<1>5. Active(s) \in SUBSET ToSet(s)
  BY <1>1 DEF Active, ToSet
<1>6. Cardinality(Active(s)) = Len(s) <=> Active(s) = ToSet(s)
  BY <1>4, <1>5, FS_Subset
<1>7. Active(s) = ToSet(s) <=> \A c \in ToSet(s) : approval[c] = "active"
  BY <1>1 DEF Active, ToSet
<1> QED BY <1>6, <1>7 DEF AllApproved

-----------------------------------------------------------------------------
(* Types, and what a worker has pending at each point.                     *)

\* A worker that executes a call has it in the checkpoint too; a job that waits has
\* no worker; what is away is forgotten.
CallAt(j) ==
  /\ pc[j] \in {"replay", "lookup", "approve"} =>
       call[j] # NoCall /\ saved[j].call = call[j]
  /\ pc[j] = "away" => call[j] = NoCall
  /\ status[j] = "awaiting_input" => pc[j] = "away" /\ saved[j].call # NoCall

\* No list has a duplicate, and a call that is looked up is not in the list.
UniqueAt(j) ==
  /\ Unique(caps[j]) /\ Unique(saved[j].caps) /\ Unique(grants[j])
  /\ pc[j] \in {"lookup", "approve"} => ~Has(caps[j], call[j].cap)

LEMMA CallFacts ==
  /\ NoCall \in Calls
  /\ \A x \in Calls : x # NoCall => x.id \in CallIds /\ x.cap \in Caps
  /\ \A k \in CallIds, c \in Caps :
       [id |-> k, cap |-> c] \in Calls /\ [id |-> k, cap |-> c] # NoCall
  BY HttpAssumption DEF Calls, NoCall

LEMMA EmptyFacts ==
  << >> \in Seq(Caps) /\ Unique(<< >>) /\ \A A : Within(<< >>, A)
  BY DEF Unique, Within

BaseInv == TypeOK /\ \A j \in Jobs : CallAt(j) /\ UniqueAt(j)

LEMMA BaseInit == Init => BaseInv
<1> SUFFICES ASSUME Init PROVE BaseInv
  OBVIOUS
<1>1. TypeOK
  BY CallFacts, EmptyFacts DEF Init, TypeOK, JobStatuses, Answers, Points
<1>2. ASSUME NEW j \in Jobs PROVE CallAt(j) /\ UniqueAt(j)
  BY EmptyFacts DEF Init, CallAt, UniqueAt
<1> QED BY <1>1, <1>2 DEF BaseInv

\* The steps of a worker that leave the lists alone, or forget them.
LEMMA BaseQuiet ==
  ASSUME BaseInv, NEW j \in Jobs,
         \/ Claim(j) \/ \E k \in CallIds, c \in Caps : CallRequest(j, k, c)
         \/ RequestGranted(j) \/ RequestOverLimit(j) \/ Lookup(j) \/ Suspend(j)
         \/ Validate(j) \/ Abort(j) \/ Crash(j)
  PROVE  BaseInv'
<1> USE CallFacts, EmptyFacts DEF BaseInv, TypeOK, CallAt, UniqueAt, JobStatuses, Answers,
        Points, tables, memory, history, Goto, Leave
<1>1. CASE Claim(j) BY <1>1 DEF Claim
<1>2. ASSUME NEW k \in CallIds, NEW c \in Caps, CallRequest(j, k, c) PROVE BaseInv'
  BY <1>2 DEF CallRequest
<1>3. CASE RequestGranted(j) BY <1>3 DEF RequestGranted
<1>4. CASE RequestOverLimit(j) BY <1>4 DEF RequestOverLimit, RejectJob
<1>5. CASE Lookup(j)
  <2>1. PICK p \in {"approve", "save"}, x \in {call[j], NoCall} :
          /\ pc[j] = "lookup" /\ (p = "approve" => x = call[j])
          /\ pc' = [pc EXCEPT ![j] = p] /\ call' = [call EXCEPT ![j] = x]
          /\ UNCHANGED <<tables, saved, caps, history>>
    BY ONLY <1>5, TypeOK DEF Lookup, Goto, TypeOK
  <2>2. TypeOK'
    BY <2>1
  <2>3. ASSUME NEW i \in Jobs PROVE (CallAt(i) /\ UniqueAt(i))'
    <3>1. CASE i = j
      BY <2>1, <3>1
    <3>2. CASE i # j
      BY <2>1, <3>2
    <3> QED BY <3>1, <3>2
  <2> QED BY <2>2, <2>3
<1>6. CASE Suspend(j)
  <2>1. call[j].id \in CallIds /\ saved[j].call # NoCall
    BY <1>6 DEF Suspend
  <2>2. [answer[j] EXCEPT ![call[j].id] = "pending"] \in [CallIds -> Answers]
    BY <2>1
  <2>3. status' \in [Jobs -> JobStatuses] /\ answer' \in [Jobs -> [CallIds -> Answers]]
    <3>1. \/ UNCHANGED <<answer, status>>
          \/ /\ answer' = [answer EXCEPT ![j] = [answer[j] EXCEPT ![call[j].id] = "pending"]]
             /\ status' = [status EXCEPT ![j] = "awaiting_input"]
      BY <1>6 DEF Suspend
    <3>2. status' \in [Jobs -> JobStatuses]
      BY <3>1
    <3>3. answer' \in [Jobs -> [CallIds -> Answers]]
      <4> DEFINE given == [answer[j] EXCEPT ![call[j].id] = "pending"]
      <4>1. given \in [CallIds -> Answers] /\ answer \in [Jobs -> [CallIds -> Answers]]
        BY <2>2
      <4>2. answer' = answer \/ answer' = [answer EXCEPT ![j] = given]
        BY <3>1
      <4> HIDE DEF given
      <4> QED BY ONLY <4>1, <4>2
    <3> QED BY <3>2, <3>3
  <2>4. ASSUME NEW i \in Jobs PROVE (CallAt(i) /\ UniqueAt(i))'
    <3>1. CASE i = j
      BY <1>6, <2>1, <3>1 DEF Suspend
    <3>2. CASE i # j
      BY <1>6, <3>2 DEF Suspend
    <3> QED BY <3>1, <3>2
  <2>5. TypeOK'
    BY <1>6, <2>3 DEF Suspend
  <2> QED BY <2>4, <2>5
<1>7. CASE Validate(j)
  <2>1. PICK p \in {"publish", "save"} :
          /\ pc[j] = "turn" /\ pc' = [pc EXCEPT ![j] = p]
          /\ UNCHANGED <<tables, saved, call, caps, history>>
    BY ONLY <1>7 DEF Validate, Goto
  <2>2. TypeOK'
    BY <2>1
  <2>3. ASSUME NEW i \in Jobs PROVE (CallAt(i) /\ UniqueAt(i))'
    BY <2>1
  <2> QED BY <2>2, <2>3
<1>8. CASE Abort(j) BY <1>8 DEF Abort, RejectJob
<1>9. CASE Crash(j) BY <1>9 DEF Crash
<1> QED BY <1>1, <1>2, <1>3, <1>4, <1>5, <1>6, <1>7, <1>8, <1>9

\* The steps that change or copy a list.
LEMMA BaseLists ==
  ASSUME BaseInv, NEW j \in Jobs,
         \/ \E c \in Caps : Release(j, c)
         \/ SaveCheckpoint(j) \/ CheckApproved(j) \/ Approve(j) \/ Publish(j)
  PROVE  BaseInv'
<1> USE CallFacts, EmptyFacts DEF BaseInv, TypeOK, CallAt, UniqueAt, JobStatuses, Answers,
        Points, tables, memory, history, Goto, Leave
<1>1. ASSUME NEW c \in Caps, Release(j, c) PROVE BaseInv'
  <2>1. PICK i \in 1..Len(caps[j]) : caps' = [caps EXCEPT ![j] = RemoveAt(caps[j], i)]
    BY <1>1 DEF Release
  <2>2. RemoveAt(caps[j], i) \in Seq(Caps) /\ Unique(RemoveAt(caps[j], i))
    BY RemoveKeeps
  <2> QED BY <1>1, <2>1, <2>2 DEF Release
<1>2. CASE SaveCheckpoint(j)
  <2>1. CASE status[j] = "running"
    <3>1. /\ saved' = [saved EXCEPT ![j] = [call |-> call[j], caps |-> caps[j]]]
          /\ pc' = [pc EXCEPT ![j] = IF call[j] = NoCall THEN "turn" ELSE "replay"]
          /\ UNCHANGED <<tables, history, call, caps>>
      BY <1>2, <2>1 DEF SaveCheckpoint
    <3>2. [call |-> call[j], caps |-> caps[j]] \in [call : Calls, caps : Seq(Caps)]
      OBVIOUS
    <3>3. TypeOK'
      BY <3>1, <3>2
    <3>4. ASSUME NEW i \in Jobs PROVE (CallAt(i) /\ UniqueAt(i))'
      BY <1>2, <2>1, <3>1 DEF SaveCheckpoint
    <3> QED BY <3>3, <3>4
  <2>2. CASE status[j] # "running"
    <3>1. Leave(j) /\ UNCHANGED <<tables, history, saved>>
      BY <1>2, <2>2 DEF SaveCheckpoint
    <3>2. TypeOK'
      BY <3>1
    <3>3. ASSUME NEW i \in Jobs PROVE (CallAt(i) /\ UniqueAt(i))'
      BY <3>1
    <3> QED BY <3>2, <3>3
  <2> QED BY <2>1, <2>2
<1>3. ASSUME CheckApproved(j) \/ Approve(j), Push(j) PROVE BaseInv'
  <2>1. call[j].cap \in Caps /\ ~Has(caps[j], call[j].cap)
    BY <1>3 DEF CheckApproved, Approve, Granted, Has
  <2>2. /\ Append(caps[j], call[j].cap) \in Seq(Caps)
        /\ Unique(Append(caps[j], call[j].cap))
    BY <2>1, AppendKeeps
  <2>3. /\ caps' = [caps EXCEPT ![j] = Append(caps[j], call[j].cap)]
        /\ call' = [call EXCEPT ![j] = NoCall]
        /\ pc' = [pc EXCEPT ![j] = "save"]
        /\ approval' \in [Caps -> {"none", "active", "revoked"}]
        /\ UNCHANGED <<status, answer, grants, saved, history>>
    <3>1. CASE CheckApproved(j)
      BY ONLY <1>3, <3>1, TypeOK DEF CheckApproved, Push, Goto, TypeOK, tables
    <3>2. CASE Approve(j)
      BY ONLY <2>1, <3>2, TypeOK DEF Approve, Push, Goto, TypeOK
    <3> QED BY <1>3, <3>1, <3>2
  <2>4. TypeOK'
    BY <2>2, <2>3
  <2>5. ASSUME NEW i \in Jobs PROVE (CallAt(i) /\ UniqueAt(i))'
    <3>1. CASE i = j
      BY <1>3, <2>2, <2>3, <3>1 DEF CheckApproved, Approve
    <3>2. CASE i # j
      BY <2>3, <3>2
    <3> QED BY <3>1, <3>2
  <2> QED BY <2>4, <2>5
<1>4. ASSUME CheckApproved(j), ~Push(j) PROVE BaseInv'
  <2>1. /\ pc[j] = "replay" /\ ~Has(caps[j], call[j].cap)
        /\ pc' = [pc EXCEPT ![j] = "lookup"]
        /\ UNCHANGED <<tables, history, saved, call, caps>>
    BY <1>4 DEF CheckApproved, Granted, Has
  <2>2. TypeOK'
    BY <2>1
  <2>3. ASSUME NEW i \in Jobs PROVE (CallAt(i) /\ UniqueAt(i))'
    BY <2>1
  <2> QED BY <2>2, <2>3
<1>5. CASE Publish(j)
  <2>1. /\ pc[j] = "publish" /\ Leave(j)
        /\ UNCHANGED <<approval, answer, saved, history>>
        /\ \/ UNCHANGED <<status, grants>>
           \/ /\ status' = [status EXCEPT ![j] = "ready"]
              /\ grants' = [grants EXCEPT ![j] = caps[j]]
    BY <1>5 DEF Publish
  <2>2. status' \in [Jobs -> JobStatuses] /\ grants' \in [Jobs -> Seq(Caps)]
    <3>1. caps[j] \in Seq(Caps)
      OBVIOUS
    <3>2. status' \in [Jobs -> JobStatuses]
      BY <2>1
    <3>3. grants' \in [Jobs -> Seq(Caps)]
      BY <2>1, <3>1
    <3> QED BY <3>2, <3>3
  <2>3. TypeOK'
    BY <2>1, <2>2
  <2>4. ASSUME NEW i \in Jobs PROVE (CallAt(i) /\ UniqueAt(i))'
    BY <2>1
  <2> QED BY <2>3, <2>4
<1> QED BY <1>1, <1>2, <1>3, <1>4, <1>5 DEF Approve

\* The steps of users.
LEMMA BaseUsers ==
  ASSUME BaseInv,
         \/ \E j \in Jobs : Cancel(j) \/ \E a \in {"approve", "reject"} : Answer(j, a)
         \/ \E c \in Caps : RevokeHttp(c)
  PROVE  BaseInv'
<1> USE CallFacts DEF BaseInv, TypeOK, CallAt, UniqueAt, JobStatuses, Answers, Points,
        tables, memory, history
<1>1. ASSUME NEW j \in Jobs, Cancel(j) PROVE BaseInv'
  BY <1>1 DEF Cancel
<1>2. ASSUME NEW j \in Jobs, NEW a \in {"approve", "reject"}, Answer(j, a) PROVE BaseInv'
  <2>1. saved[j].call.id \in CallIds /\ saved[j].call.cap \in Caps
    BY <1>2 DEF Answer
  <2>2. [answer[j] EXCEPT ![saved[j].call.id] = a] \in [CallIds -> Answers]
    BY <2>1
  <2>3. TypeOK'
    BY <1>2, <2>1, <2>2 DEF Answer
  <2>4. ASSUME NEW i \in Jobs PROVE (CallAt(i) /\ UniqueAt(i))'
    BY <1>2 DEF Answer
  <2> QED BY <2>3, <2>4
<1>3. ASSUME NEW c \in Caps, RevokeHttp(c) PROVE BaseInv'
  BY <1>3 DEF RevokeHttp
<1> QED BY <1>1, <1>2, <1>3

LEMMA BaseStep == BaseInv /\ [Next]_vars => BaseInv'
<1> SUFFICES ASSUME BaseInv, [Next]_vars PROVE BaseInv'
  OBVIOUS
<1>1. CASE Next
  BY <1>1, BaseQuiet, BaseLists, BaseUsers DEF Next, JobStep
<1>2. CASE UNCHANGED vars
  BY <1>2 DEF BaseInv, TypeOK, CallAt, UniqueAt, vars, tables, memory, history
<1> QED BY <1>1, <1>2

LEMMA BaseHolds == Spec => []BaseInv
  BY BaseInit, BaseStep, PTL DEF Spec

\* Every variable keeps its type, with any number of jobs, capabilities and calls.
THEOREM HttpTypeCorrect == Spec => []TypeOK
<1>1. BaseInv => TypeOK
  BY DEF BaseInv
<1> QED BY <1>1, BaseHolds, PTL

\* The runner's count of active approvals refuses exactly the lists with an inactive
\* one, whether or not the ids of calls are fresh.
THEOREM RunnerCheckIsExact == Spec => []CheckIsExact
<1>1. BaseInv => CheckIsExact
  <2> SUFFICES ASSUME BaseInv, NEW j \in Jobs, NEW s \in {caps[j], saved[j].caps, grants[j]}
               PROVE  AllApproved(s) <=> \A c \in ToSet(s) : approval[c] = "active"
    BY DEF CheckIsExact
  <2>1. s \in Seq(Caps) /\ Unique(s)
    BY DEF BaseInv, TypeOK, UniqueAt
  <2> QED BY <2>1, CountIsExact
<1> QED BY <1>1, BaseHolds, PTL
-----------------------------------------------------------------------------
(* What users approved.                                                    *)

\* The answer under the id of a call was given for the call.
AnswerAt(j) ==
  /\ pc[j] = "approve" => call[j].cap \in approved
  /\ call[j] # NoCall /\ answer[j][call[j].id] = "approve" => call[j].cap \in approved
  /\ saved[j].call # NoCall /\ answer[j][saved[j].call.id] = "approve" =>
       saved[j].call.cap \in approved

ListsApproved(j) ==
  /\ Within(caps[j], approved) /\ Within(saved[j].caps, approved)
  /\ Within(grants[j], approved)

ApprovedInv ==
  /\ BaseInv
  /\ \A c \in Caps : approval[c] = "active" => c \in approved
  /\ \A j \in Jobs : AnswerAt(j) /\ ListsApproved(j)

LEMMA WithinGrows ==
  ASSUME NEW s, NEW A, NEW B, A \subseteq B, Within(s, A)
  PROVE  Within(s, B)
  BY DEF Within

LEMMA ApprovedInit == Init => ApprovedInv
<1> SUFFICES ASSUME Init PROVE ApprovedInv
  OBVIOUS
<1>1. BaseInv
  BY BaseInit
<1> QED BY <1>1, EmptyFacts DEF Init, ApprovedInv, AnswerAt, ListsApproved

\* With fresh ids, a new call finds no answer of an earlier one.
LEMMA ApprovedWorker ==
  ASSUME FreshIds, ApprovedInv, BaseInv', NEW j \in Jobs,
         \/ Claim(j) \/ \E k \in CallIds, c \in Caps : CallRequest(j, k, c)
         \/ \E c \in Caps : Release(j, c)
         \/ SaveCheckpoint(j) \/ RequestGranted(j) \/ RequestOverLimit(j)
         \/ CheckApproved(j) \/ Lookup(j) \/ Approve(j) \/ Suspend(j) \/ Validate(j)
         \/ Publish(j) \/ Abort(j) \/ Crash(j)
  PROVE  ApprovedInv'
<1> USE CallFacts, EmptyFacts DEF ApprovedInv, AnswerAt, ListsApproved, tables, memory,
        history, Goto, Leave
<1>1. CASE Claim(j) BY <1>1 DEF Claim
<1>2. ASSUME NEW k \in CallIds, NEW c \in Caps, CallRequest(j, k, c) PROVE ApprovedInv'
  BY <1>2 DEF CallRequest, BaseInv, TypeOK
<1>3. ASSUME NEW c \in Caps, Release(j, c) PROVE ApprovedInv'
  <2>1. PICK i \in 1..Len(caps[j]) : caps' = [caps EXCEPT ![j] = RemoveAt(caps[j], i)]
    BY <1>3 DEF Release
  <2>2. Within(RemoveAt(caps[j], i), approved)
    BY RemoveKeeps DEF BaseInv, TypeOK
  <2> QED BY <1>3, <2>1, <2>2 DEF Release, BaseInv, TypeOK
<1>4. CASE SaveCheckpoint(j)
  <2>1. CASE status[j] = "running"
    <3>1. /\ saved' = [saved EXCEPT ![j] = [call |-> call[j], caps |-> caps[j]]]
          /\ pc' = [pc EXCEPT ![j] = IF call[j] = NoCall THEN "turn" ELSE "replay"]
          /\ UNCHANGED <<tables, history, call, caps>>
      BY <1>4, <2>1 DEF SaveCheckpoint
    <3> QED BY <3>1 DEF BaseInv, TypeOK
  <2>2. CASE status[j] # "running"
    <3>1. Leave(j) /\ UNCHANGED <<tables, history, saved>>
      BY <1>4, <2>2 DEF SaveCheckpoint
    <3> QED BY <3>1 DEF BaseInv, TypeOK
  <2> QED BY <2>1, <2>2
<1>5. CASE RequestGranted(j) BY <1>5 DEF RequestGranted, BaseInv, TypeOK
<1>6. CASE RequestOverLimit(j) BY <1>6 DEF RequestOverLimit, RejectJob, BaseInv, TypeOK
<1>7. ASSUME CheckApproved(j) \/ Approve(j), Push(j) PROVE ApprovedInv'
  <2>1. call[j].cap \in Caps /\ call[j].cap \in approved
    BY <1>7 DEF CheckApproved, Approve, Push, BaseInv, CallAt, TypeOK
  <2>2. Within(Append(caps[j], call[j].cap), approved)
    BY <2>1, AppendKeeps DEF BaseInv, TypeOK
  <2> QED BY <1>7, <2>1, <2>2 DEF CheckApproved, Approve, Push, BaseInv, TypeOK
<1>8. ASSUME CheckApproved(j), ~Push(j) PROVE ApprovedInv'
  <2>1. pc' = [pc EXCEPT ![j] = "lookup"] /\ UNCHANGED <<tables, history, saved, call, caps>>
    BY <1>8 DEF CheckApproved
  <2> QED BY <1>8, <2>1 DEF BaseInv, TypeOK
<1>9. CASE Lookup(j) BY <1>9 DEF Lookup, AnsweredBy, BaseInv, TypeOK, CallAt
<1>10. CASE Suspend(j) BY <1>10 DEF Suspend, BaseInv, TypeOK, CallAt
<1>11. CASE Validate(j) BY <1>11 DEF Validate, BaseInv, TypeOK
<1>12. CASE Publish(j) BY <1>12 DEF Publish, BaseInv, TypeOK
<1>13. CASE Abort(j) BY <1>13 DEF Abort, RejectJob, BaseInv, TypeOK
<1>14. CASE Crash(j) BY <1>14 DEF Crash, BaseInv, TypeOK
<1> QED BY <1>1, <1>2, <1>3, <1>4, <1>5, <1>6, <1>7, <1>8, <1>9, <1>10, <1>11, <1>12,
           <1>13, <1>14 DEF Approve

LEMMA ApprovedUsers ==
  ASSUME ApprovedInv, BaseInv',
         \/ \E j \in Jobs : Cancel(j) \/ \E a \in {"approve", "reject"} : Answer(j, a)
         \/ \E c \in Caps : RevokeHttp(c)
  PROVE  ApprovedInv'
<1> USE DEF ApprovedInv, AnswerAt, ListsApproved, memory, history
<1>1. ASSUME NEW j \in Jobs, Cancel(j) PROVE ApprovedInv'
  BY <1>1 DEF Cancel
<1>2. ASSUME NEW j \in Jobs, NEW a \in {"approve", "reject"}, Answer(j, a)
      PROVE ApprovedInv'
  <2>1. approved \subseteq approved'
    BY <1>2 DEF Answer
  <2>2. ASSUME NEW i \in Jobs PROVE ListsApproved(i)'
    BY <1>2, <2>1, WithinGrows DEF Answer
  <2>3. ASSUME NEW i \in Jobs PROVE AnswerAt(i)'
    <3>1. CASE i = j
      BY <1>2, <2>1, <3>1 DEF Answer, BaseInv, CallAt, TypeOK
    <3>2. CASE i # j
      BY <1>2, <2>1, <3>2 DEF Answer, BaseInv, TypeOK
    <3> QED BY <3>1, <3>2
  <2> QED BY <1>2, <2>1, <2>2, <2>3 DEF Answer
<1>3. ASSUME NEW c \in Caps, RevokeHttp(c) PROVE ApprovedInv'
  BY <1>3 DEF RevokeHttp, BaseInv, TypeOK
<1> QED BY <1>1, <1>2, <1>3

LEMMA ApprovedStep == FreshIds /\ ApprovedInv /\ [Next]_vars => ApprovedInv'
<1> SUFFICES ASSUME FreshIds, ApprovedInv, [Next]_vars PROVE ApprovedInv'
  OBVIOUS
<1>1. BaseInv'
  BY BaseStep DEF ApprovedInv
<1>2. CASE Next
  BY <1>1, <1>2, ApprovedWorker, ApprovedUsers DEF Next, JobStep
<1>3. CASE UNCHANGED vars
  BY <1>1, <1>3 DEF ApprovedInv, AnswerAt, ListsApproved, vars, tables, memory, history
<1> QED BY <1>2, <1>3

\* When the ids of the agent's calls are fresh, no artifact carries a capability and
\* none is active that no user ever approved.
THEOREM OnlyApprovedIsGranted == FreshIds => (Spec => []GrantsWereApproved)
<1> SUFFICES ASSUME FreshIds PROVE Spec => []GrantsWereApproved
  OBVIOUS
<1>1. ApprovedInv => GrantsWereApproved
  <2> SUFFICES ASSUME ApprovedInv PROVE GrantsWereApproved
    OBVIOUS
  <2>1. ASSUME NEW j \in Jobs PROVE ToSet(grants[j]) \subseteq approved
    BY LenProperties DEF ApprovedInv, ListsApproved, Within, BaseInv, TypeOK, ToSet
  <2> QED BY <2>1 DEF GrantsWereApproved, ApprovedInv
<1>2. ApprovedInv /\ [Next]_vars => ApprovedInv'
  BY ApprovedStep
<1> QED BY <1>1, <1>2, ApprovedInit, PTL DEF Spec
=============================================================================
