-------------------------- MODULE MCSiteDeployment --------------------------
(* SiteDeployment on small instances. *)
EXTENDS SiteDeployment, TLC

Symmetry == Permutations(Deployments) \cup Permutations(Requests)
=============================================================================
