-------------------------- MODULE MCHttpApprovals --------------------------
(***************************************************************************)
(* Model values and symmetry for the runs of HttpApprovals.                *)
(***************************************************************************)
EXTENDS HttpApprovals

CONSTANTS slugify, weather, rates, news, tides, call1, call2

\* No action and no property names a job, a capability or a call.
Symmetry ==
  Permutations({slugify, weather}) \cup Permutations(Caps) \cup Permutations({call1, call2})
=============================================================================
