---------------------------- MODULE MCDropServer ----------------------------
(***************************************************************************)
(* What TLC needs to check DropServer on small instances.                  *)
(***************************************************************************)
EXTENDS DropServerInv, TLC

\* Requests are interchangeable, and so are replicas (not under liveness).
RequestSymmetry == Permutations(Reqs)
ReplicaSymmetry == RequestSymmetry \cup Permutations(Procs)

=============================================================================
