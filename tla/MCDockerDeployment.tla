------------------------- MODULE MCDockerDeployment -------------------------
(* One workload, with up to three requests, two at a time, two deployments, *)
(* one GitHub run and up to two faults: three requests with one fault, two  *)
(* with two.  An application that GitHub builds has its three requests      *)
(* without a fault.  The requests are interchangeable.                      *)
EXTENDS DockerDeployment, TLC

Interchangeable == Permutations(Clients)
Together ==
  /\ requests + faults <= 4
  /\ kind = "application" /\ build = "github_actions" => requests <= 2 \/ faults = 0
=============================================================================
