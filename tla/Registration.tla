---------------------------- MODULE Registration ----------------------------
(***************************************************************************)
(* Registering a tool under an idempotency key (jit-storage, register).    *)
(* The transaction reads and writes in several statements, other ones in   *)
(* between; what orders them are an advisory lock on the key, one on the   *)
(* tool's name, both kept until the transaction ends, and unique columns.  *)
(*                                                                         *)
(* A request is the tool and the rest of its body; its fingerprint covers  *)
(* both.  A new version's job and the tool's row come with it in one       *)
(* commit, so the job of a key is the version it made.  What becomes of    *)
(* the version later is in Registry; here it is published or not.          *)
(***************************************************************************)
EXTENDS Integers, FiniteSets, FiniteSetsExt

CONSTANTS
  Requests,  \* HTTP requests, each sent once; a retry is another one
  Tools, Bodies, Keys,
  None       \* NULL

\* Each key makes at most one revision.
Revisions == 1..Cardinality(Keys)
Versions == Tools \X Revisions

\* NULL is no value of a column, and the answers of a refusal are no versions.
ASSUME RegistrationAssumption ==
  /\ IsFiniteSet(Keys)
  /\ None \notin {"conflict", "internal"}
  /\ \A a \in {None, "conflict", "internal"} : a \notin Versions
  /\ None \notin [fingerprint : Tools \X Bodies, version : Versions]

VARIABLES
  tx,       \* per request: the transaction of its registration
  jobs,     \* synthesis_jobs by idempotency_key: fingerprint, version
  latest,   \* tools.latest_revision
  stable,   \* tools.stable_revision, 0 for NULL
  version   \* tool_versions.status

registryVars == <<jobs, latest, stable, version>>

NoTx == [at |-> "idle", key |-> None, tool |-> None, body |-> None,
         revision |-> 0, answer |-> None]

InitRegistration ==
  /\ tx = [c \in Requests |-> NoTx]
  /\ jobs = [k \in Keys |-> None]
  /\ latest = [t \in Tools |-> 0]
  /\ stable = [t \in Tools |-> 0]
  /\ version = [v \in Versions |-> "absent"]

Fingerprint(c) == <<tx[c].tool, tx[c].body>>

-----------------------------------------------------------------------------
(* The locks a transaction holds until it ends.                            *)

LocksNameOnly(c) == IF tx[c].at \in {"read", "write"} THEN {<<"name", tx[c].tool>>} ELSE {}

Locks(c) ==
  (IF tx[c].at \in {"lookup", "name", "read", "write"} THEN {<<"key", tx[c].key>>} ELSE {})
  \cup (IF tx[c].at \in {"read", "write"} THEN {<<"name", tx[c].tool>>} ELSE {})

Free(lock) == \A d \in Requests : lock \notin Locks(d)

Moves(c, at) == tx' = [tx EXCEPT ![c].at = at]
AnswersWith(c, a) == tx' = [tx EXCEPT ![c].at = "done", ![c].answer = a]

BeginRegistration(c, k, t, b) ==
  /\ tx' = [tx EXCEPT ![c] = [NoTx EXCEPT !.at = "key", !.key = k, !.tool = t, !.body = b]]
  /\ UNCHANGED registryVars

LockKey(c) ==
  /\ tx[c].at = "key"
  /\ Free(<<"key", tx[c].key>>)
  /\ Moves(c, "lookup")
  /\ UNCHANGED registryVars

\* What the row of the key says to a request with this fingerprint.
AnyFingerprint(c, job) == TRUE
SameRequest(c, job) == job.fingerprint = Fingerprint(c)

LookUpKey(c) ==
  LET job == jobs[tx[c].key] IN
  /\ tx[c].at = "lookup"
  /\ IF job = None THEN Moves(c, "name")
     ELSE AnswersWith(c, IF SameRequest(c, job) THEN job.version ELSE "conflict")
  /\ UNCHANGED registryVars

LockName(c) ==
  /\ tx[c].at = "name"
  /\ Free(<<"name", tx[c].tool>>)
  /\ Moves(c, "read")
  /\ UNCHANGED registryVars

\* The upsert of the tool and SELECT ... FOR UPDATE: the row's lock adds nothing
\* to the name's, which every registration of the tool holds.
ReadLatest(c) ==
  /\ tx[c].at = "read"
  /\ tx' = [tx EXCEPT ![c].at = "write", ![c].revision = latest[tx[c].tool] + 1]
  /\ UNCHANGED registryVars

\* The inserts and the commit; the key and the revision are unique columns.
Insertable(c) ==
  /\ jobs[tx[c].key] = None
  /\ version[<<tx[c].tool, tx[c].revision>>] = "absent"

CommitRegistration(c) ==
  LET v == <<tx[c].tool, tx[c].revision>> IN
  /\ tx[c].at = "write"
  /\ IF Insertable(c)
     THEN /\ latest' = [latest EXCEPT ![tx[c].tool] = tx[c].revision]
          /\ version' = [version EXCEPT ![v] = "draft"]
          /\ jobs' = [jobs EXCEPT ![tx[c].key] =
                        [fingerprint |-> Fingerprint(c), version |-> v]]
          /\ AnswersWith(c, v)
     ELSE AnswersWith(c, "internal") /\ UNCHANGED <<latest, version, jobs>>
  /\ UNCHANGED stable

RegistrationStep(c) ==
  \/ LockKey(c) \/ LookUpKey(c) \/ LockName(c) \/ ReadLatest(c)
  \/ CommitRegistration(c)

\* The handler is gone: what was not committed is rolled back.
EndTransaction(c) == tx' = [tx EXCEPT ![c] = NoTx]
=============================================================================
