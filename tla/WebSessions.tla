---------------------------- MODULE WebSessions -----------------------------
(***************************************************************************)
(* The browser sessions of jit-server (web.rs, SessionStore).  They live   *)
(* in a map of the server's process, which a restart empties.  A session   *)
(* ends by its term, by a logout, or because a login found the map full.   *)
(*                                                                         *)
(* An entry is its expiry, 0 when the map has none; an expired entry stays *)
(* until the next create or get removes it.  Identifiers are random; here  *)
(* they are numbers in the order of the logins.  The CSRF token is part of *)
(* the session: a request carries it or does not.  terms and loggedOut are *)
(* history: when a session ends by itself, and which ones were logged out. *)
(***************************************************************************)
EXTENDS Integers, FiniteSets

CONSTANTS
  MaxLogins,    \* bound: sessions ever issued
  MaxSessions,  \* MAX_SESSIONS
  Term,         \* SESSION_TTL_HOURS
  MaxTime       \* bound: where the clock stops

ASSUME SessionsAssumption ==
  /\ MaxLogins \in Nat /\ MaxTime \in Nat
  /\ MaxSessions \in Nat \ {0} /\ Term \in Nat \ {0}

Sessions == 1..MaxLogins

VARIABLES expires, now, terms, loggedOut

sessionVars == <<expires, now, terms, loggedOut>>

InitSessions ==
  /\ expires = [s \in Sessions |-> 0]
  /\ now = 0
  /\ terms = [s \in Sessions |-> 0]
  /\ loggedOut = {}

Entries(m) == {s \in Sessions : m[s] > 0}
Unexpired == {s \in Sessions : expires[s] > now}

\* sessions.retain(|_, session| session.expires_at > now)
RetainAll == expires
Retain == [s \in Sessions |-> IF expires[s] > now THEN expires[s] ELSE 0]

Earliest(m) == {s \in Entries(m) : \A t \in Entries(m) : m[s] <= m[t]}

\* The entries a login may remove: none while there is room.
NoneEvicted == {{}}
Evicted == IF Cardinality(Entries(Retain)) >= MaxSessions
           THEN {{s} : s \in Earliest(Retain)}
           ELSE {{}}

\* create_for, by a login whose token is right.
Login(s) ==
  /\ terms[s] = 0
  /\ \A t \in 1..s - 1 : terms[t] > 0
  /\ \E out \in Evicted :
       expires' = [t \in Sessions |-> IF t = s THEN now + Term
                                      ELSE IF t \in out THEN 0 ELSE Retain[t]]
  /\ terms' = [terms EXCEPT ![s] = now + Term]
  /\ UNCHANGED <<now, loggedOut>>

\* SessionStore::get: whether the map has it, after the expired ones are gone.
Get(s) ==
  /\ Retain[s] > 0
  /\ expires' = Retain
  /\ UNCHANGED <<now, terms, loggedOut>>

GetMisses(s) ==
  /\ terms[s] > 0
  /\ Retain[s] = 0
  /\ expires' = Retain
  /\ UNCHANGED <<now, terms, loggedOut>>

\* logout: get, the CSRF token, remove.
Logout(s) ==
  /\ Retain[s] > 0
  /\ expires' = [Retain EXCEPT ![s] = 0]
  /\ loggedOut' = loggedOut \cup {s}
  /\ UNCHANGED <<now, terms>>

Tick ==
  /\ now < MaxTime
  /\ now' = now + 1
  /\ UNCHANGED <<expires, terms, loggedOut>>

\* The map is gone with the process.
ForgetSessions ==
  /\ expires' = [s \in Sessions |-> 0]
  /\ UNCHANGED <<now, terms, loggedOut>>

SessionStep == Tick \/ \E s \in Sessions : Login(s) \/ Logout(s)

-----------------------------------------------------------------------------

SessionsTypeOK ==
  /\ expires \in [Sessions -> 0..MaxTime + Term]
  /\ now \in 0..MaxTime
  /\ terms \in [Sessions -> 0..MaxTime + Term]
  /\ loggedOut \subseteq Sessions

\* The map never outgrows MAX_SESSIONS, and an entry in it was issued, has not
\* been logged out and ends when its login said.
SessionsSound ==
  /\ Cardinality(Entries(expires)) <= MaxSessions
  /\ \A s \in Entries(expires) : expires[s] = terms[s] /\ s \notin loggedOut

\* What a session that has not run out can fall to: its logout, a login that
\* found MAX_SESSIONS unexpired ones and none earlier, or a restart, after which
\* the map is empty.
EndsFor(s) ==
  \/ s \in loggedOut'
  \/ /\ Cardinality(Unexpired) >= MaxSessions
     /\ \A t \in Unexpired : expires[s] <= expires[t]
  \/ Entries(expires') = {}

SessionsLast == \A s \in Unexpired : expires'[s] = expires[s] \/ EndsFor(s)
=============================================================================
