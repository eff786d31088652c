--------------------------- MODULE MCServerLifecycle ---------------------------
(* Model-checking instance of ServerLifecycle. *)
EXTENDS ServerLifecycle, TLC

(* Bound: requests and faults are not at their own bounds together.        *)
Together == requests + faults <= 3
=============================================================================
