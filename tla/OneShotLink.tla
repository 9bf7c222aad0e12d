----------------------------- MODULE OneShotLink -----------------------------
(***************************************************************************)
(* What drop-pensa promises about the link of an upload, without tables,   *)
(* files, locks or event loops: a link that is absent may be published     *)
(* once, a live link may die, a dead link stays dead, and a one-shot link  *)
(* is redeemed by at most one request, which leaves it dead.               *)
(***************************************************************************)
CONSTANTS Ids, Reqs

VARIABLES
  link,       \* per id: absent (not uploaded, or being uploaded), live, dead
  redeemers   \* per id: the requests that were promised the one-shot file

vars == <<link, redeemers>>

TypeOK ==
  /\ link \in [Ids -> {"absent", "live", "dead"}]
  /\ redeemers \in [Ids -> SUBSET Reqs]

Init ==
  /\ link = [id \in Ids |-> "absent"]
  /\ redeemers = [id \in Ids |-> {}]

Publish(id) ==
  /\ link[id] = "absent"
  /\ link' = [link EXCEPT ![id] = "live"]
  /\ UNCHANGED redeemers

\* Uploads failed, one or (in a crash) several at once: their ids will never
\* name a file.
Abandon(ids) ==
  /\ \A id \in ids : link[id] = "absent"
  /\ link' = [id \in Ids |-> IF id \in ids THEN "dead" ELSE link[id]]
  /\ UNCHANGED redeemers

\* Deleted by its owner, or expired.
Kill(id) ==
  /\ link[id] = "live"
  /\ link' = [link EXCEPT ![id] = "dead"]
  /\ UNCHANGED redeemers

\* The link may have been killed since the request looked it up.
Redeem(id, r) ==
  /\ link[id] # "absent"
  /\ redeemers[id] = {}
  /\ link' = [link EXCEPT ![id] = "dead"]
  /\ redeemers' = [redeemers EXCEPT ![id] = {r}]

Next ==
  \/ \E id \in Ids : Publish(id) \/ Kill(id) \/ \E r \in Reqs : Redeem(id, r)
  \/ \E ids \in SUBSET Ids : Abandon(ids)

Spec == Init /\ [][Next]_vars

=============================================================================
