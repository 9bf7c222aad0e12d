--------------------------- MODULE CleanupPasses -----------------------------
(***************************************************************************)
(* DropServer with a history variable: the deleted files each cleanup      *)
(* thread had to catch up with when its current (or last) pass started.    *)
(***************************************************************************)
EXTENDS DropServer

VARIABLE overdue

\* Deleted by DELETE or by expiry, nobody is about to unlink it, still on disk.
\* (The file of a consumed one-shot is not meant to go before the purge.)
LeftBehind ==
  {id \in Ids :
     /\ Tombstone(files[id]) /\ ~files[id].one_shot /\ disk[id] # None
     /\ ~\E r \in Reqs : pc[r] = "unlink" /\ req[r].id = id
     /\ ~\E p \in Procs : cw[p].pc = "unlink" /\ cw[p].fid = id}

PassInit == Init /\ overdue = [p \in Procs |-> {}]

Starts(p) == cw[p].pc = "sleep" /\ cw'[p].pc # "sleep"

Ends(p) == cw[p].pc # "sleep" /\ cw'[p].pc = "sleep"

PassNext ==
  /\ Next
  /\ overdue' = [p \in Procs |-> IF Starts(p) THEN LeftBehind ELSE overdue[p]]

PassSpec == PassInit /\ [][PassNext]_<<vars, overdue>>

\* When the unlink of DELETE or of the cleanup thread fails, "the cleanup
\* worker will retry on its next pass" (delete.py:87-88; README.md:220): the
\* pass that starts after it ends with the file gone from the disk.
FailedUnlinkIsRetried ==
  [][\A p \in Procs : Ends(p) => \A id \in overdue[p] : disk'[id] = None]_<<vars, overdue>>

=============================================================================
