---------------------------- MODULE MCRateLimit ----------------------------
(* RateLimit for TLC: processes, addresses, files and nonces are alike.     *)
EXTENDS RateLimit, TLC

NoRequests == [k \in {"upload", "delete", "info", "fetch"} |-> 0]

\* Enough requests of one kind to fill a bucket and be refused (but for delete).
SomeBudgets ==
  {[NoRequests EXCEPT !["fetch"] = 2], [NoRequests EXCEPT !["info"] = 3],
   [NoRequests EXCEPT !["upload"] = 2], [NoRequests EXCEPT !["delete"] = 1]}

Symmetry == Permutations(Procs) \cup Permutations(Ips) \cup Permutations(Files)
              \cup Permutations(Nonces)

=============================================================================
