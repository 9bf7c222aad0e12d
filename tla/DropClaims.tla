----------------------------- MODULE DropClaims ------------------------------
(***************************************************************************)
(* What the documentation, comments and tests of drop-pensa say of the     *)
(* server that the code does not do.  Each claim is refuted by a run.      *)
(***************************************************************************)
EXTENDS DropServer

\* A GET with the returned name, looked up after the 201, finds the row
\* (upload.py:66 "store it, return metadata"; test_lifecycle.py:32-37).  The
\* run is too short for a purge, so the row can only be missing because the
\* upload has not been committed when its answer is already out.
UploadedIsFound ==
  \A u, g \in Reqs :
    /\ status[u] = "created"
    /\ pc[g] = "raw" /\ Owns(u, req[g].id)
    => files[req[g].id] # None

\* 410 says that a one-shot upload has been consumed, 404 everything else,
\* expired links included (fetch.py:34-36, api.html:79).
GoneMeansConsumed ==
  \A r \in Reqs : status[r] = "gone" =>
    \E s \in Reqs : ServedWhole(s) /\ req[s].id = req[r].id

=============================================================================
