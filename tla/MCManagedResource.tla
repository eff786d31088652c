-------------------------- MODULE MCManagedResource --------------------------
(* One resource of any kind, two requests in flight and both jobs.         *)
EXTENDS ManagedResource
=============================================================================
