---------------------------- MODULE RegistryLife ----------------------------
(***************************************************************************)
(* The registry implements JobLife: a lost worker, a lease taken over, a   *)
(* late statement and a claim that only counts an attempt are all stutters *)
(* of the life the user of a job sees.                                     *)
(***************************************************************************)
EXTENDS Registry

\* A version is visible to callers from its publication on (resolve_tool).
VersionSeen(j) ==
  IF version[j] = "ready" THEN "published"
  ELSE IF version[j] = "revoked" THEN "revoked" ELSE "unpublished"

Life == INSTANCE JobLife WITH
  Jobs <- Versions,
  question <- [j \in Versions |-> Pending(j) # {}],
  version <- [j \in Versions |-> VersionSeen(j)]

\* Every job lives as JobLife says: it starts from the queue, a question stops
\* it and an answer queues it again, its version appears in the very step that
\* makes it ready, and nothing else about it ever shows (publish_job,
\* suspend_job_for_input, answer_job_input, cancel_job, revoke_tool_version).
LivesAsPromised == Life!Spec
=============================================================================
