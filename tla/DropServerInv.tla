---------------------------- MODULE DropServerInv ----------------------------
(***************************************************************************)
(* The inductive invariant behind the safety theorems of DropServer.       *)
(*                                                                         *)
(* It says who may still touch an id.  While an upload is busy it is the   *)
(* only one: no row names the id, so no handler and no cleanup pass can    *)
(* have picked it up.  Once the id is known (the upload is over) it stays  *)
(* known, and once it is settled (known and not live) it can never be live *)
(* again, so whoever unlinks a settled id does no harm however late.       *)
(***************************************************************************)
EXTENDS DropServer

UploadLabels == {"alloc", "save", "write", "replace", "put", "respond", "commit"}
FetchLabels  == {"exists", "mark", "consume", "open", "body"}
PeekLabels   == {"get", "raw"}
DeleteLabels == {"auth", "softdel", "unlink"}

\* The labels at which a handler occupies the event loop.
OnLoopLabels == {"alloc", "save", "write", "replace", "put", "get", "raw", "exists",
                 "mark", "consume", "auth", "softdel", "unlink"}

\* Known and not live: the file can go, and can never come back.
Settled(id) == Known(id) /\ ~Live(files[id])

KnownIds   == {id \in Ids : Known(id)}
SettledIds == {id \in Ids : Settled(id)}

RequestShape ==
  \A r \in Reqs : pc[r] # "idle" =>
    /\ req[r] \in Requests
    /\ pc[r] \in UploadLabels => req[r].kind = "upload"
    /\ pc[r] \in FetchLabels  => req[r].kind = "fetch"
    /\ pc[r] \in PeekLabels   => req[r].kind \in {"fetch", "head", "info"}
    /\ pc[r] \in DeleteLabels => req[r].kind = "delete"
    /\ pc[r] = "alloc" => req[r].id = None
    /\ pc[r] \in UploadLabels \ {"alloc"} => req[r].id \in Ids
    /\ pc[r] \in {"respond", "commit"} => meta[r] \in Rows
    /\ req[r].kind # "upload" => req[r].id \in Ids

WorkerShape == \A p \in Procs : cw[p].pc \in {"soft", "unlink"} => cw[p].fid \in Ids

\* The part of the invariant that holds whatever generate_id returns.
Shape == TypeOK /\ RequestShape /\ WorkerShape

\* A process runs one handler at a time.
OneOnLoop == \A r \in Reqs : pc[r] \in OnLoopLabels => loop[req[r].proc] = r

\* An id belongs to one upload, and nothing exists under an id nobody owns.
IdsAreOwned ==
  /\ \A r \in Reqs, id \in Ids : Owns(r, id) => id \in generated
  /\ \A r, s \in Reqs, id \in Ids : Owns(r, id) /\ Owns(s, id) => r = s
  /\ \A id \in Ids :
       files[id] # None \/ disk[id] # None \/ part[id] # None => id \in generated

\* No answer before the handler's last step on the event loop.
Unanswered ==
  \A r \in Reqs :
    pc[r] \in {"idle", "get", "raw", "exists", "mark", "consume", "auth", "softdel", "unlink"}
    => status[r] = "none"

\* What a busy upload has in its hands, and that no row names its id.
UploadStages ==
  \A r \in Reqs, id \in Ids : Owns(r, id) /\ Busy(r) =>
    /\ files[id] = None
    /\ pc[r] = "replace" => part[id] = Whole(r)
    /\ pc[r] \in {"put", "respond", "commit"} => disk[id] = Whole(r)
    /\ pc[r] \in {"respond", "commit"} =>
         meta[r].sha256 = r /\ meta[r].deleted_at = None

\* The cleanup threads hold ids that are known, and unlink settled ones only.
WorkersHoldKnown ==
  \A p \in Procs :
    /\ cw[p].pc \in {"expire", "soft", "unlink"} => cw[p].todo \subseteq KnownIds
    /\ cw[p].pc = "soft" => cw[p].fid \in KnownIds
    /\ cw[p].pc = "unlink" => cw[p].fid \in SettledIds
    /\ cw[p].pc \in {"purge", "sweep"} => cw[p].todo \subseteq SettledIds

\* What a pass is about to purge is gone already or an old tombstone.
PurgeIsOld ==
  \A p \in Procs : cw[p].pc = "purge" =>
    \A id \in cw[p].todo :
      files[id] # None => Tombstone(files[id]) /\ files[id].deleted_at + Grace < now

\* DELETE soft-deletes a known id, unlinks a settled one, and has left a
\* settled one behind when it reports success.
DeletesSettle ==
  \A r \in Reqs : pc[r] # "idle" /\ req[r].kind = "delete" =>
    /\ pc[r] = "softdel" => Known(req[r].id)
    /\ pc[r] = "unlink" => Settled(req[r].id)
    /\ pc[r] = "done" /\ status[r] \in {"ok", "already"} => Settled(req[r].id)

IInv ==
  /\ Shape
  /\ OneOnLoop
  /\ IdsAreOwned
  /\ Unanswered
  /\ UploadStages
  /\ NoHalfWritten
  /\ LiveFileBacked
  /\ WorkersHoldKnown
  /\ PurgeIsOld
  /\ DeletesSettle

\* A fetch that admits a request found the link live; a one-shot link that has
\* been redeemed is settled.
FetchesAdmitted ==
  \A r \in Reqs : pc[r] # "idle" /\ req[r].kind = "fetch" =>
    /\ pc[r] \in {"exists", "mark", "consume"} =>
         /\ meta[r] \in Rows
         /\ req[r].id \in KnownIds
         /\ Redeemers(req[r].id) = {}
    /\ ServedWhole(r) /\ meta[r].one_shot => req[r].id \in SettledIds

\* The strengthening for one process, where handlers do not interleave.
OneShotInv == IInv /\ FetchesAdmitted /\ OneShotServedOnce

-----------------------------------------------------------------------------
(***************************************************************************)
(* Accounts                                                                *)
(***************************************************************************)

Served(r) == status[r] = "ok" /\ req[r].kind = "fetch"

\* The fetches of id that the counter has counted: the answered ones, and the
\* ones that still have to consume the one-shot file.
Counted(id) ==
  {r \in Reqs : /\ Served(r) \/ pc[r] = "consume"
                /\ req[r].id = id}

\* A fetch beyond its look-up has found a row, so its id is known.
FetchesKnow ==
  \A r \in Reqs :
    pc[r] \in {"exists", "mark", "consume"} \/ (pc[r] # "idle" /\ Served(r))
    => req[r].id \in KnownIds

\* No counter is behind, also for the fetches between two of their statements.
CountersKeepUp ==
  \A id \in Ids :
    /\ IsFiniteSet(Counted(id))
    /\ files[id] # None => Cardinality(Counted(id)) <= files[id].fetched_count

CountInv == IInv /\ FetchesKnow /\ CountersKeepUp

\* A partial file is in the hands of the upload that writes it.
PartHeld ==
  \A id \in Ids : part[id] # None =>
    \E r \in Reqs : Owns(r, id) /\ pc[r] \in {"write", "replace"}

\* A finished file belongs to its row, to the upload that will insert it (or
\* has failed to), or to the purge that has just removed its row.
DiskHeld ==
  \A id \in Ids : disk[id] # None =>
    \/ files[id] # None
    \/ \E r \in Reqs : /\ Owns(r, id)
                       /\ \/ pc[r] \in {"put", "respond", "commit"}
                          \/ pc[r] = "done" /\ status[r] = "error"
    \/ \E p \in Procs : cw[p].pc = "sweep" /\ id \in cw[p].todo

\* What holds as long as neither errors nor crashes interfere.
AccountInv == IInv /\ PartHeld /\ DiskHeld

\* A partial file exists while its upload writes it, or after that upload has
\* failed: never beside a row or under a purge.
PartsAreYoung ==
  \A id \in Ids : part[id] # None =>
    /\ files[id] = None
    /\ \E r \in Reqs : Owns(r, id) /\ pc[r] \in {"write", "replace", "done"}
    /\ \A p \in Procs : cw[p].pc \in {"purge", "sweep"} => id \notin cw[p].todo

\* No finished file before the rename.
RenameIsFirst ==
  \A r \in Reqs, id \in Ids :
    Owns(r, id) /\ pc[r] \in {"save", "write", "replace"} => disk[id] = None

\* What keeps files within reach whatever errors and crashes do.
TrackInv == IInv /\ PartsAreYoung /\ RenameIsFirst

-----------------------------------------------------------------------------
(***************************************************************************)
(* Without fresh ids                                                       *)
(***************************************************************************)

\* An upload that has inserted its row holds the write lock until the row is
\* committed, so no other row can take the key.
InsertsAreLocked ==
  \A r \in Reqs : pc[r] \in {"respond", "commit"} =>
    writer = r /\ files[req[r].id] = None

\* Nobody writes to a partial file between its last chunk and its rename.
SavesAreWhole == \A r \in Reqs : pc[r] = "replace" => part[req[r].id] = Whole(r)

\* What a pass is about to purge is still there, and an old tombstone.
PurgeIsThere ==
  \A p \in Procs : cw[p].pc = "purge" =>
    \A id \in cw[p].todo : Tombstone(files[id]) /\ files[id].deleted_at + Grace < now

\* What the write lock protects, for any number of processes.
LockInv == Shape /\ InsertsAreLocked

\* What the event loop and the single cleanup thread of one process protect.
CollisionInv ==
  /\ LockInv
  /\ OneOnLoop
  /\ SavesAreWhole
  /\ NoHalfWritten
  /\ PurgeIsThere

=============================================================================
