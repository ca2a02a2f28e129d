----------------------------- MODULE MCServer ------------------------------
(***************************************************************************)
(* Three requests for the run of Server: a registration; its retry, one    *)
(* with another body under the same key, one under another key, a          *)
(* revocation or a reading; and an invocation of the stable version or of  *)
(* the first.                                                              *)
(***************************************************************************)
EXTENDS Server, TLC

CONSTANTS first, second, third, key, key2, tool, body, body2

MCAsks ==
  LET Registration(k, b) == [kind |-> "register", key |-> k, tool |-> tool, body |-> b] IN
  first :> {Registration(key, body)} @@
  second :> {Registration(key, body), Registration(key, body2), Registration(key2, body),
             [kind |-> "revoke", tool |-> tool, revision |-> 1], [kind |-> "read"]} @@
  third :> {[kind |-> "invoke", tool |-> tool, revision |-> r] : r \in {0, 1}}
=============================================================================
