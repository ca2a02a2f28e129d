---------------------------- MODULE Invocations -----------------------------
(***************************************************************************)
(* Invoking a published version: invoke_tool in the server, Execute in the *)
(* worker's gRPC service, and the runner (runner.rs, execute_inner), which *)
(* starts one container and waits for it, for its output to pass the limit *)
(* or for the time limit.  The row of the invocation is written before the *)
(* call and after it, in two statements of their own.                      *)
(*                                                                         *)
(* A container is "running", "zero" or "other" by the exit code it ended   *)
(* with, or "removed".  terminate removes it through the docker CLI, whose *)
(* failure is only logged.  Only the limits and an error of reading the    *)
(* output call terminate: when the CLI itself ends with an error, is       *)
(* killed, or cannot be waited for, the runner returns and the container   *)
(* is left as it is.  Dropping the request drops the call and the runner's *)
(* future with it: kill_on_drop ends the CLI, nothing removes the          *)
(* container.  "kept" says why a container that runs on was left: "rm"     *)
(* failed, the "cli" failed, or its worker or its request is "gone".  The  *)
(* clock is left out: a limit may come at any time.  An exit code below    *)
(* 125 is taken to be the program's own, as the runner takes it.           *)
(***************************************************************************)
EXTENDS Registration

VARIABLE run  \* per request: where invoke_tool is, its row, its container

\* The errors of the runner and what else can end the call; Task, an error of a
\* reading or a writing task, is answered as Io is.
RunnerErrors == {"Timeout", "OutputLimitExceeded", "RuntimeUnavailable", "Docker",
                 "Artifact", "HttpApprovalRevoked", "HttpDisabled", "Io"}

NoRun == [at |-> "idle", version |-> None, row |-> "absent", box |-> "none",
          kept |-> "no", code |-> None, lost |-> FALSE, answer |-> None]

InitInvocations == run = [c \in Requests |-> NoRun]

-----------------------------------------------------------------------------
(* From the runner's error to the row and the answer.                      *)

\* map_runner_error
GrpcCode(error) ==
  CASE error = "Timeout" -> "DeadlineExceeded"
    [] error = "OutputLimitExceeded" -> "ResourceExhausted"
    [] error \in {"RuntimeUnavailable", "Docker"} -> "Unavailable"
    [] error = "Artifact" -> "NotFound"
    [] OTHER -> "Internal"

RowStatus(code) ==
  CASE code = "DeadlineExceeded" -> "timed_out"
    [] code = "zero" -> "succeeded"
    [] OTHER -> "failed"

\* The code of the error response, or the output for an exit code.
Response(code) ==
  CASE code = "DeadlineExceeded" -> "execution_timeout"
    [] code = "ResourceExhausted" -> "output_limit_exceeded"
    [] code = "Unavailable" -> "worker_unavailable"
    [] code = "NotFound" -> "artifact_unavailable"
    [] code \in {"zero", "other"} -> code
    [] OTHER -> "execution_failed"

-----------------------------------------------------------------------------

BeginInvocation(c, t, r) ==
  /\ run' = [run EXCEPT ![c] = [NoRun EXCEPT !.at = "resolve", !.version = <<t, r>>]]
  /\ UNCHANGED registryVars

\* resolve_tool: COALESCE(requested revision, stable_revision), which must be ready.
Selected(c) ==
  LET t == run[c].version[1]
      r == run[c].version[2]
  IN <<t, IF r = 0 THEN stable[t] ELSE r>>

Published(v) == v[2] \in Revisions /\ version[v] \notin {"absent", "draft"}
Ready(v) == v[2] \in Revisions /\ version[v] = "ready"

Resolve(c) ==
  /\ run[c].at = "resolve"
  /\ run' = IF Ready(Selected(c))
            THEN [run EXCEPT ![c].at = "start", ![c].version = Selected(c)]
            ELSE [run EXCEPT ![c].at = "done", ![c].answer = "tool_not_ready"]
  /\ UNCHANGED registryVars

\* Between the two: the media type does not fit, the artifact that decides the
\* default time limit cannot be loaded, or the insert of the row fails.
NotStarted(c) ==
  /\ run[c].at = "start"
  /\ run' = [run EXCEPT ![c].at = "done", ![c].answer = "not_started"]
  /\ UNCHANGED registryVars

\* start_invocation; the call goes out.
Start(c) ==
  /\ run[c].at = "start"
  /\ run' = [run EXCEPT ![c].at = "prepare", ![c].row = "running"]
  /\ UNCHANGED registryVars

\* The call returned: the row is still to be written.
Returned(c, code) == [run[c] EXCEPT !.at = "finish", !.code = code]

\* What can fail before there is a container: the runner is not there, the
\* artifact is gone, an approval of its HTTP grants was revoked, HTTP is off, or
\* the image cannot be built.
Refuse(c) ==
  /\ run[c].at = "prepare"
  /\ \E e \in RunnerErrors \ {"Timeout", "OutputLimitExceeded"} :
       run' = [run EXCEPT ![c] = Returned(c, GrpcCode(e))]
  /\ UNCHANGED registryVars

StartContainer(c) ==
  /\ run[c].at = "prepare"
  /\ run' = [run EXCEPT ![c].at = "wait", ![c].box = "running"]
  /\ UNCHANGED registryVars

\* The program in the container ends, by itself, whoever still waits for it.
ContainerExits(c) ==
  /\ run[c].box = "running"
  /\ \E code \in {"zero", "other"} :
       run' = [run EXCEPT ![c].box = code, ![c].kept = "no"]
  /\ UNCHANGED registryVars

\* The arm of child.wait().  Output can pass the limit after it, which is then
\* an error of the reading; an exit code of 125 or more is an error of the CLI.
Collect(c) ==
  /\ run[c].at = "wait"
  /\ run[c].box \in {"zero", "other"}
  /\ run' = [run EXCEPT ![c] = Returned(c, run[c].box)]
  /\ UNCHANGED registryVars

CollectFails(c) ==
  /\ run[c].at = "wait"
  /\ run[c].box \in {"zero", "other"}
  /\ \E e \in {"Io", "Docker"} : run' = [run EXCEPT ![c] = Returned(c, GrpcCode(e))]
  /\ UNCHANGED registryVars

\* The docker CLI ends before the container: killed by a signal, with an exit
\* code of its own, or with an error of waiting for it, or of its input or output
\* once it has ended.  The runner returns the error, and does not call terminate.
ClientFails(c) ==
  /\ run[c].at = "wait"
  /\ run[c].box = "running"
  /\ \E e \in {"Io", "Docker"} :
       run' = [run EXCEPT ![c] = [Returned(c, GrpcCode(e)) EXCEPT !.kept = "cli"]]
  /\ UNCHANGED registryVars

\* The other arms: terminate, then the error.  removed is FALSE when docker rm
\* failed, and then the container may still be there.
KeepContainer(c, removed) ==
  IF run[c].box = "running" /\ ~removed THEN [run[c] EXCEPT !.kept = "rm"] ELSE run[c]
Terminate(c, removed) ==
  IF run[c].box # "running" THEN run[c]
  ELSE IF removed THEN [run[c] EXCEPT !.box = "removed"]
  ELSE [run[c] EXCEPT !.kept = "rm"]

Limit(c, error) ==
  /\ run[c].at = "wait"
  /\ \E removed \in BOOLEAN :
       run' = [run EXCEPT ![c] = [Terminate(c, removed) EXCEPT
                                    !.at = "finish", !.code = GrpcCode(error)]]
  /\ UNCHANGED registryVars

NoTimeLimit(c) == FALSE
TimeLimit(c) == Limit(c, "Timeout")
OutputLimit(c) == Limit(c, "OutputLimitExceeded")
ReadFails(c) == Limit(c, "Io")

\* What may end the wait at any time, and need not.
WaitBreaks(c) == OutputLimit(c) \/ ReadFails(c) \/ ClientFails(c)

\* finish_invocation, whose failure is only logged; the answer goes out anyway.
FinishOutputsOnly(c) ==
  IF run[c].code \in {"zero", "other"} THEN RowStatus(run[c].code) ELSE run[c].row
FinishedRow(c) == RowStatus(run[c].code)

Finish(c) ==
  /\ run[c].at = "finish"
  /\ \E recorded \in BOOLEAN :
       run' = [run EXCEPT ![c].at = "done",
                          ![c].row = IF recorded THEN FinishedRow(c) ELSE @,
                          ![c].lost = ~recorded,
                          ![c].answer = Response(run[c].code)]
  /\ UNCHANGED registryVars

\* The worker's process ends: the call fails, the container goes on.
LoseWorker(c) ==
  [run[c] EXCEPT !.at = IF @ \in {"prepare", "wait"} THEN "finish" ELSE @,
                 !.code = IF run[c].at \in {"prepare", "wait"} THEN "Unavailable" ELSE @,
                 !.kept = IF run[c].at = "wait" /\ run[c].box = "running" THEN "gone" ELSE @]

WorkerStops ==
  /\ \E c \in Requests : run[c].at \in {"prepare", "wait"}
  /\ run' = [c \in Requests |-> LoseWorker(c)]
  /\ UNCHANGED registryVars

\* The handler is gone, answered or dropped, and its call with it: what stays is
\* the row, and a container that is still running.
Left(c) ==
  LET runs == run[c].box = "running" IN
  [NoRun EXCEPT !.row = run[c].row,
                !.box = IF runs THEN "running" ELSE "none",
                !.kept = IF runs THEN "gone" ELSE "no"]
EndCall(c) == run' = [run EXCEPT ![c] = Left(c)]

InvocationStep(c) ==
  \/ Resolve(c) \/ NotStarted(c) \/ Start(c) \/ Refuse(c) \/ StartContainer(c)
  \/ Collect(c) \/ CollectFails(c) \/ TimeLimit(c)
  \/ Finish(c)
=============================================================================
