------------------------------ MODULE DropServer -----------------------------
(***************************************************************************)
(* The drop-pensa server: the life of an uploaded file, from POST /upload  *)
(* to the cleanup worker that erases it.                                   *)
(*                                                                         *)
(* A process (uvicorn worker or replica) runs its request handlers on one  *)
(* event loop.  The handlers are coroutines that never await between their *)
(* database and file system calls, so loop[p] names the request whose      *)
(* handler is running on p, and two handlers interleave only when they run *)
(* in different processes.  Everything else does interleave with them: the *)
(* cleanup thread of every process, sending responses, streaming bodies,   *)
(* and the commit that closes a session after its response has been sent.  *)
(* Database and disk are shared by all processes and survive a crash.      *)
(***************************************************************************)
EXTENDS DbStore

CONSTANTS
  Procs,       \* server processes
  Kinds,       \* bound: the request kinds the clients of a run send
  MaxTtl,      \* bound: settings.max_ttl_seconds in clock units
  MaxTime,     \* bound on the clock
  MaxFaults,   \* bound on disk and database errors
  MaxCrashes,  \* bound on process crashes
  FreshIds     \* TRUE: generate_id never repeats an id (78 random bits)

ASSUME ServerAssumption ==
  /\ None \notin Procs
  /\ FreshIds \in BOOLEAN
  /\ MaxTtl \in Nat \ {0}
  /\ MaxTime \in Nat /\ MaxFaults \in Nat /\ MaxCrashes \in Nat

VARIABLES
  files,      \* the committed state of table `files`
  writer,     \* the request whose uncommitted INSERT holds SQLite's write lock
  disk,       \* contents of <storage_dir>/<shard>/<id>, or None
  part,       \* contents of <id>.part, or None
  generated,  \* ids returned by generate_id so far
  now,        \* the wall clock
  loop,       \* per process: the request whose handler occupies the event loop
  pc,         \* per request: the next step of its handler
  req,        \* per request: what the client asked
  meta,       \* per request: the FileMeta its handler holds
  status,     \* per request: the HTTP status it was answered
  body,       \* per request: what became of a streamed body
  cw,         \* per process: the cleanup thread
  faults, crashes

storage == <<files, writer, disk, part, generated>>
answers == <<status, body>>
budget  == <<faults, crashes>>
vars    == <<files, writer, disk, part, generated, now, loop, pc, req, meta,
             status, body, cw, faults, crashes>>

-----------------------------------------------------------------------------
(***************************************************************************)
(* Types                                                                   *)
(***************************************************************************)

AllKinds == {"upload", "fetch", "head", "info", "delete"}

\* How the Range header of a GET parses: absent or covering the whole file,
\* covering a part of it, or unsatisfiable.
Ranges == {"full", "partial", "bad"}

\* good: the filename (GET, HEAD) or the delete token (DELETE) is the right one.
Requests == [kind : AllKinds, proc : Procs, id : Ids \cup {None},
             one_shot : BOOLEAN, ttl : Nat, good : BOOLEAN, range : Ranges]

Labels == {"idle", "alloc", "save", "write", "replace", "put", "respond", "commit",
           "get", "raw", "exists", "mark", "consume", "open", "body",
           "auth", "softdel", "unlink", "done"}

Statuses == {"none", "created", "ok", "already", "gone", "not_found", "forbidden",
             "unsatisfiable", "too_large", "refused", "error"}

\* Bytes at a path: whose they are, and whether all of them are there.
Contents == [sha256 : Reqs, whole : BOOLEAN]

Workers == [pc   : {"sleep", "expire", "soft", "unlink", "purge", "sweep"},
            todo : SUBSET Ids,
            fid  : Ids \cup {None}]

TypeOK ==
  /\ files \in Tables
  /\ writer \in Reqs \cup {None}
  /\ disk \in [Ids -> Contents \cup {None}]
  /\ part \in [Ids -> Contents \cup {None}]
  /\ generated \in SUBSET Ids
  /\ now \in Nat
  /\ loop \in [Procs -> Reqs \cup {None}]
  /\ pc \in [Reqs -> Labels]
  /\ req \in [Reqs -> Requests \cup {None}]
  /\ meta \in [Reqs -> Rows \cup {None}]
  /\ status \in [Reqs -> Statuses]
  /\ body \in [Reqs -> {"none", "delivered", "broken", "aborted"}]
  /\ cw \in [Procs -> Workers]
  /\ faults \in Nat /\ crashes \in Nat

Asleep == [pc |-> "sleep", todo |-> {}, fid |-> None]

Init ==
  /\ files = [id \in Ids |-> None]
  /\ writer = None
  /\ disk = [id \in Ids |-> None]
  /\ part = [id \in Ids |-> None]
  /\ generated = {}
  /\ now = 0
  /\ loop = [p \in Procs |-> None]
  /\ pc = [r \in Reqs |-> "idle"]
  /\ req = [r \in Reqs |-> None]
  /\ meta = [r \in Reqs |-> None]
  /\ status = [r \in Reqs |-> "none"]
  /\ body = [r \in Reqs |-> "none"]
  /\ cw = [p \in Procs |-> Asleep]
  /\ faults = 0 /\ crashes = 0

-----------------------------------------------------------------------------
(***************************************************************************)
(* Handlers on the event loop                                              *)
(***************************************************************************)

\* The event loop runs the handler of r, which stands at label l.
Running(r, l) == pc[r] = l /\ loop[req[r].proc] = r

\* The event loop is free to resume r, which is suspended at label l.
Resumes(r, l) == pc[r] = l /\ loop[req[r].proc] = None

Goto(r, l) == pc' = [pc EXCEPT ![r] = l]

Release(r) == loop' = [loop EXCEPT ![req[r].proc] = None]

\* The handler returns or raises: the answer is s, nothing is left to do.
Reply(r, s) ==
  /\ Goto(r, "done")
  /\ status' = [status EXCEPT ![r] = s]
  /\ Release(r)
  /\ UNCHANGED <<req, meta, body>>

\* The handler returns a StreamingResponse: headers now, the body later.
Serve(r) ==
  /\ Goto(r, "open")
  /\ status' = [status EXCEPT ![r] = "ok"]
  /\ Release(r)

Fault == faults < MaxFaults /\ faults' = faults + 1 /\ UNCHANGED crashes

\* A request reaches a free event loop and its handler starts.
Begin(r, q, l) ==
  /\ pc[r] = "idle"
  /\ q.kind \in Kinds
  /\ loop[q.proc] = None
  /\ loop' = [loop EXCEPT ![q.proc] = r]
  /\ req' = [req EXCEPT ![r] = q]
  /\ Goto(r, l)
  /\ UNCHANGED <<storage, now, meta, answers, cw, budget>>

\* Rate limits, and the checks of the request alone (size header, TTL,
\* filename, extension): a refusal before any state is touched.
Refuse(r) ==
  /\ \E l \in {"alloc", "get", "auth"} : Running(r, l)
  /\ Reply(r, "refused")
  /\ UNCHANGED <<storage, now, cw, budget>>

\* Mutant: no busy timeout.
LockedOut_Never(r) == FALSE

\* sqlite3 raises "database is locked": the write lock stayed with another
\* session for the whole busy timeout.  The exception becomes a 500.
LockedOut(r) ==
  /\ \E l \in {"put", "mark", "consume", "softdel"} : Running(r, l)
  /\ writer # None
  /\ Reply(r, "error")
  /\ UNCHANGED <<storage, now, cw, budget>>

\* Any other exception out of a database statement.
DbError(r) ==
  /\ \E l \in {"alloc", "get", "raw", "auth", "put", "mark", "consume", "softdel"} : Running(r, l)
  /\ Fault
  /\ Reply(r, "error")
  /\ UNCHANGED <<storage, now, cw>>

-----------------------------------------------------------------------------
(***************************************************************************)
(* POST /upload                                                            *)
(***************************************************************************)

BeginUpload(r) ==
  \E p \in Procs, one_shot \in BOOLEAN, ttl \in 1..MaxTtl :
    Begin(r, [kind |-> "upload", proc |-> p, id |-> None, one_shot |-> one_shot,
              ttl |-> ttl, good |-> TRUE, range |-> "full"], "alloc")

\* Mutant: ids repeat.
GenerateId_Any(id) == TRUE

GenerateId(id) == FreshIds => id \notin generated

\* One of at most five candidates is not the id of a live row.
AllocateId(r) ==
  /\ Running(r, "alloc")
  /\ \E id \in Ids :
       /\ GenerateId(id)
       /\ Get(files, id) = None
       /\ generated' = generated \cup {id}
       /\ req' = [req EXCEPT ![r].id = id]
  /\ Goto(r, "save")
  /\ UNCHANGED <<files, writer, disk, part, now, loop, meta, answers, cw, budget>>

\* All five candidates are ids of live rows.
AllocateFails(r) ==
  /\ Running(r, "alloc")
  /\ \E id \in Ids : GenerateId(id) /\ Get(files, id) # None
  /\ Reply(r, "error")
  /\ UNCHANGED <<storage, now, cw, budget>>

\* Mutant: the stream is written to the canonical path.
SaveOpen_InPlace(r) ==
  /\ Running(r, "save")
  /\ disk' = [disk EXCEPT ![req[r].id] = [sha256 |-> r, whole |-> FALSE]]
  /\ Goto(r, "write")
  /\ UNCHANGED <<files, writer, part, generated, now, loop, req, meta, answers, cw, budget>>

\* save_stream: open <id>.part for writing, copy chunks, rename over <id>.
SaveOpen(r) ==
  /\ Running(r, "save")
  /\ part' = [part EXCEPT ![req[r].id] = [sha256 |-> r, whole |-> FALSE]]
  /\ Goto(r, "write")
  /\ UNCHANGED <<files, writer, disk, generated, now, loop, req, meta, answers, cw, budget>>

SaveChunks(r) ==
  /\ Running(r, "write")
  /\ part' = [part EXCEPT ![req[r].id] = [sha256 |-> r, whole |-> TRUE]]
  /\ Goto(r, "replace")
  /\ UNCHANGED <<files, writer, disk, generated, now, loop, req, meta, answers, cw, budget>>

SaveTooLarge(r) ==
  /\ Running(r, "write")
  /\ part' = [part EXCEPT ![req[r].id] = None]
  /\ Reply(r, "too_large")
  /\ UNCHANGED <<files, writer, disk, generated, now, cw, budget>>

\* Opening, copying or renaming fails; the unlink of the partial file is best effort.
SaveError(r) ==
  /\ \E l \in {"save", "write", "replace"} : Running(r, l)
  /\ Fault
  /\ \E c \in {None, part[req[r].id]} : part' = [part EXCEPT ![req[r].id] = c]
  /\ Reply(r, "error")
  /\ UNCHANGED <<files, writer, disk, generated, now, cw>>

\* Mutant: the partial file is copied to its place and stays.
SaveReplace_Copy(r) ==
  /\ Running(r, "replace")
  /\ disk' = [disk EXCEPT ![req[r].id] = part[req[r].id]]
  /\ Goto(r, "put")
  /\ UNCHANGED <<files, writer, part, generated, now, loop, req, meta, answers, cw, budget>>

SaveReplace(r) ==
  /\ Running(r, "replace")
  /\ disk' = [disk EXCEPT ![req[r].id] = part[req[r].id]]
  /\ part' = [part EXCEPT ![req[r].id] = None]
  /\ Goto(r, "put")
  /\ UNCHANGED <<files, writer, generated, now, loop, req, meta, answers, cw, budget>>

\* Mutant: no default TTL, the link has no expiry.
NewRow_Forever(r) == [sha256 |-> r, one_shot |-> req[r].one_shot, expires_at |-> None,
                      deleted_at |-> None, fetched_count |-> 0]

\* The row that step 10 of the handler builds.
NewRow(r) == [sha256 |-> r, one_shot |-> req[r].one_shot, expires_at |-> now + req[r].ttl,
              deleted_at |-> None, fetched_count |-> 0]

\* Mutant: INSERT OR REPLACE.
Put_Upsert(r) ==
  /\ Running(r, "put")
  /\ writer = None
  /\ writer' = r
  /\ meta' = [meta EXCEPT ![r] = NewRow(r)]
  /\ Goto(r, "respond")
  /\ Release(r)
  /\ UNCHANGED <<files, disk, part, generated, now, req, answers, cw, budget>>

\* INSERT opens a transaction and takes the write lock; the handler returns
\* with the transaction still open.
Put(r) ==
  /\ Running(r, "put")
  /\ writer = None
  /\ files[req[r].id] = None
  /\ writer' = r
  /\ meta' = [meta EXCEPT ![r] = NewRow(r)]
  /\ Goto(r, "respond")
  /\ Release(r)
  /\ UNCHANGED <<files, disk, part, generated, now, req, answers, cw, budget>>

\* The id is the key of a row: IntegrityError, a 500.
PutConflict(r) ==
  /\ Running(r, "put")
  /\ writer = None
  /\ files[req[r].id] # None
  /\ Reply(r, "error")
  /\ UNCHANGED <<storage, now, cw, budget>>

\* libmagic cannot read the stored file: the exception becomes a 500.
DetectFails(r) ==
  /\ Running(r, "put")
  /\ Fault
  /\ Reply(r, "error")
  /\ UNCHANGED <<storage, now, cw>>

\* The 201 goes out while the session is still open ...
Respond(r) ==
  /\ Resumes(r, "respond")
  /\ status' = [status EXCEPT ![r] = "created"]
  /\ Goto(r, "commit")
  /\ UNCHANGED <<storage, now, loop, req, meta, body, cw, budget>>

\* ... and the teardown of get_session commits it, in a pool thread.
Commit(r) ==
  /\ pc[r] = "commit"
  /\ files' = [files EXCEPT ![req[r].id] = meta[r]]
  /\ writer' = None
  /\ Goto(r, "done")
  /\ UNCHANGED <<disk, part, generated, now, loop, req, meta, answers, cw, budget>>

CommitFails(r) ==
  /\ pc[r] = "commit"
  /\ Fault
  /\ writer' = None
  /\ Goto(r, "done")
  /\ UNCHANGED <<files, disk, part, generated, now, loop, req, meta, answers, cw>>

-----------------------------------------------------------------------------
(***************************************************************************)
(* GET, HEAD /f/<id>/<filename> and GET /f/<id>/info                       *)
(***************************************************************************)

BeginFetch(r) ==
  \E p \in Procs, id \in Ids, good \in BOOLEAN, range \in Ranges :
    Begin(r, [kind |-> "fetch", proc |-> p, id |-> id, one_shot |-> FALSE,
              ttl |-> 0, good |-> good, range |-> range], "get")

\* HEAD names the file, /info does not.
BeginPeek(r) ==
  \E p \in Procs, id \in Ids, kind \in {"head", "info"}, good \in BOOLEAN :
    /\ kind = "info" => good
    /\ Begin(r, [kind |-> kind, proc |-> p, id |-> id, one_shot |-> FALSE,
                 ttl |-> 0, good |-> good, range |-> "full"], "get")

\* _check_meta up to the row being missing or soft-deleted.
CheckMeta(r) ==
  /\ Running(r, "get")
  /\ LET row == Get(files, req[r].id) IN
       \/ /\ row = None
          /\ Goto(r, "raw")
          /\ UNCHANGED <<loop, req, meta, answers>>
       \/ /\ row # None
          /\ ~req[r].good \/ row.expires_at <= now
          /\ Reply(r, "not_found")
       \/ /\ row # None
          /\ req[r].good /\ row.expires_at > now
          /\ IF req[r].kind = "fetch"
             THEN /\ Goto(r, "exists")
                  /\ meta' = [meta EXCEPT ![r] = row]
                  /\ UNCHANGED <<loop, req, answers>>
             ELSE Reply(r, "ok")
  /\ UNCHANGED <<storage, now, cw, budget>>

\* The second SELECT: a soft-deleted one-shot row is answered 410.
CheckRaw(r) ==
  /\ Running(r, "raw")
  /\ LET raw == GetRaw(files, req[r].id) IN
       IF Tombstone(raw) /\ req[r].good /\ raw.one_shot
       THEN Reply(r, "gone") ELSE Reply(r, "not_found")
  /\ UNCHANGED <<storage, now, cw, budget>>

PathExists(r) ==
  /\ Running(r, "exists")
  /\ IF disk[req[r].id] = None THEN Reply(r, "not_found")
     ELSE IF req[r].range = "bad" THEN Reply(r, "unsatisfiable")
     ELSE Goto(r, "mark") /\ UNCHANGED <<loop, req, meta, answers>>
  /\ UNCHANGED <<storage, now, cw, budget>>

Consumes(r) == meta[r].one_shot /\ req[r].range = "full"

\* Mutant: the counter is read with the metadata and written back.
CountFetch_ReadModifyWrite(r) ==
  /\ Running(r, "mark")
  /\ writer = None
  /\ files' = IF files[req[r].id] = None THEN files
              ELSE [files EXCEPT ![req[r].id].fetched_count = meta[r].fetched_count + 1]
  /\ IF Consumes(r) THEN Goto(r, "consume") /\ UNCHANGED <<loop, status>> ELSE Serve(r)
  /\ UNCHANGED <<writer, disk, part, generated, now, req, meta, body, cw, budget>>

CountFetch(r) ==
  /\ Running(r, "mark")
  /\ writer = None
  /\ files' = MarkFetched(files, req[r].id)
  /\ IF Consumes(r) THEN Goto(r, "consume") /\ UNCHANGED <<loop, status>> ELSE Serve(r)
  /\ UNCHANGED <<writer, disk, part, generated, now, req, meta, body, cw, budget>>

\* Mutant: the soft-delete is left to a later step.
ConsumeOneShot_LeavesRow(r) ==
  /\ Running(r, "consume")
  /\ Serve(r)
  /\ UNCHANGED <<storage, now, req, meta, body, cw, budget>>

ConsumeOneShot(r) ==
  /\ Running(r, "consume")
  /\ writer = None
  /\ files' = SoftDelete(files, req[r].id, now)
  /\ Serve(r)
  /\ UNCHANGED <<writer, disk, part, generated, now, req, meta, body, cw, budget>>

\* stream_file opens the path only when the body is first asked for.
OpenBody(r) ==
  /\ Resumes(r, "open")
  /\ IF disk[req[r].id] = None
     THEN Goto(r, "done") /\ body' = [body EXCEPT ![r] = "broken"]
     ELSE Goto(r, "body") /\ UNCHANGED body
  /\ UNCHANGED <<storage, now, loop, req, meta, status, cw, budget>>

\* The open descriptor outlives an unlink: all bytes go out, or the client leaves.
EndBody(r) ==
  /\ Resumes(r, "body")
  /\ \E b \in {"delivered", "aborted"} : body' = [body EXCEPT ![r] = b]
  /\ Goto(r, "done")
  /\ UNCHANGED <<storage, now, loop, req, meta, status, cw, budget>>

-----------------------------------------------------------------------------
(***************************************************************************)
(* DELETE /f/<id>?token=                                                   *)
(***************************************************************************)

BeginDelete(r) ==
  \E p \in Procs, id \in Ids, good \in BOOLEAN :
    Begin(r, [kind |-> "delete", proc |-> p, id |-> id, one_shot |-> FALSE,
              ttl |-> 0, good |-> good, range |-> "full"], "auth")

Authorize(r) ==
  /\ Running(r, "auth")
  /\ LET raw == GetRaw(files, req[r].id) IN
       IF raw = None \/ ~req[r].good THEN Reply(r, "forbidden")
       ELSE IF Tombstone(raw) THEN Reply(r, "already")
       ELSE Goto(r, "softdel") /\ UNCHANGED <<loop, req, meta, answers>>
  /\ UNCHANGED <<storage, now, cw, budget>>

\* Mutant: the soft-delete is rolled back with the session.
DeleteRow_Uncommitted(r) ==
  /\ Running(r, "softdel")
  /\ Goto(r, "unlink")
  /\ UNCHANGED <<storage, now, loop, req, meta, answers, cw, budget>>

\* Mutant: DELETE takes the row out of the table.
DeleteRow_Hard(r) ==
  /\ Running(r, "softdel")
  /\ writer = None
  /\ files' = HardDelete(files, {req[r].id})
  /\ Goto(r, "unlink")
  /\ UNCHANGED <<writer, disk, part, generated, now, loop, req, meta, answers, cw, budget>>

DeleteRow(r) ==
  /\ Running(r, "softdel")
  /\ writer = None
  /\ files' = SoftDelete(files, req[r].id, now)
  /\ Goto(r, "unlink")
  /\ UNCHANGED <<writer, disk, part, generated, now, loop, req, meta, answers, cw, budget>>

DeleteFile(r) ==
  /\ Running(r, "unlink")
  /\ disk' = [disk EXCEPT ![req[r].id] = None]
  /\ Reply(r, "ok")
  /\ UNCHANGED <<files, writer, part, generated, now, cw, budget>>

\* The unlink fails: logged, and still answered 200.
DeleteFileFails(r) ==
  /\ Running(r, "unlink")
  /\ Fault
  /\ Reply(r, "ok")
  /\ UNCHANGED <<storage, now, cw>>

-----------------------------------------------------------------------------
(***************************************************************************)
(* The cleanup thread (cleanup.py, one pass is _cleanup_once)              *)
(***************************************************************************)

Worker(p, l, todo, fid) == cw' = [cw EXCEPT ![p] = [pc |-> l, todo |-> todo, fid |-> fid]]

handlers == <<loop, pc, req, meta, status, body>>

CleanupStart(p) ==
  /\ cw[p].pc = "sleep"
  /\ \E ids \in Batches(ExpiredIds(files, now)) : Worker(p, "expire", ids, None)
  /\ UNCHANGED <<storage, now, handlers, budget>>

\* Mutant: the file goes before the row is soft-deleted.
CleanupGet_UnlinkFirst(p) ==
  /\ cw[p].pc = "expire"
  /\ \E fid \in cw[p].todo :
       IF Get(files, fid) = None
       THEN Worker(p, "expire", cw[p].todo \ {fid}, None)
       ELSE Worker(p, "unlink", cw[p].todo \ {fid}, fid)
  /\ UNCHANGED <<storage, now, handlers, budget>>

CleanupGet(p) ==
  /\ cw[p].pc = "expire"
  /\ \E fid \in cw[p].todo :
       IF Get(files, fid) = None
       THEN Worker(p, "expire", cw[p].todo \ {fid}, None)
       ELSE Worker(p, "soft", cw[p].todo \ {fid}, fid)
  /\ UNCHANGED <<storage, now, handlers, budget>>

CleanupSoftDelete(p) ==
  /\ cw[p].pc = "soft"
  /\ writer = None
  /\ files' = SoftDelete(files, cw[p].fid, now)
  /\ Worker(p, "unlink", cw[p].todo, cw[p].fid)
  /\ UNCHANGED <<writer, disk, part, generated, now, handlers, budget>>

CleanupUnlink(p) ==
  /\ cw[p].pc = "unlink"
  /\ disk' = [disk EXCEPT ![cw[p].fid] = None]
  /\ Worker(p, "expire", cw[p].todo, None)
  /\ UNCHANGED <<files, writer, part, generated, now, handlers, budget>>

\* Mutant: the error is caught inside the session, the unlink goes ahead.
CleanupSkips_Unlinks(p) ==
  /\ \/ cw[p].pc = "soft" /\ writer # None /\ UNCHANGED budget
     \/ cw[p].pc = "soft" /\ Fault
  /\ Worker(p, "unlink", cw[p].todo, cw[p].fid)
  /\ UNCHANGED <<storage, now, handlers>>

\* An exception while expiring one id is counted and the loop goes on.
CleanupSkips(p) ==
  /\ \/ cw[p].pc = "soft" /\ writer # None /\ UNCHANGED budget
     \/ cw[p].pc \in {"soft", "unlink"} /\ Fault
  /\ Worker(p, "expire", cw[p].todo, None)
  /\ UNCHANGED <<storage, now, handlers>>

\* Pass 2 begins: select the old tombstones.
CleanupSelectOld(p) ==
  /\ cw[p].pc = "expire" /\ cw[p].todo = {}
  /\ \E ids \in Batches(OldTombstones(files, now)) :
       Worker(p, IF ids = {} THEN "sleep" ELSE "purge", ids, None)
  /\ UNCHANGED <<storage, now, handlers, budget>>

\* Mutant: the rows go, their files are taken to be gone already.
CleanupHardDelete_NoSweep(p) ==
  /\ cw[p].pc = "purge"
  /\ writer = None
  /\ files' = HardDelete(files, cw[p].todo)
  /\ Worker(p, "sleep", {}, None)
  /\ UNCHANGED <<writer, disk, part, generated, now, handlers, budget>>

CleanupHardDelete(p) ==
  /\ cw[p].pc = "purge"
  /\ writer = None
  /\ files' = HardDelete(files, cw[p].todo)
  /\ Worker(p, "sweep", cw[p].todo, None)
  /\ UNCHANGED <<writer, disk, part, generated, now, handlers, budget>>

\* An exception in the hard-delete pass ends it.
CleanupPass2Fails(p) ==
  /\ cw[p].pc = "purge"
  /\ \/ writer # None /\ UNCHANGED budget
     \/ Fault
  /\ Worker(p, "sleep", {}, None)
  /\ UNCHANGED <<storage, now, handlers>>

\* Unlink one of the purged ids; an error here is swallowed.
CleanupSweep(p) ==
  /\ cw[p].pc = "sweep"
  /\ \E fid \in cw[p].todo :
       /\ \/ disk' = [disk EXCEPT ![fid] = None] /\ UNCHANGED budget
          \/ Fault /\ UNCHANGED disk
       /\ LET rest == cw[p].todo \ {fid} IN
            Worker(p, IF rest = {} THEN "sleep" ELSE "sweep", rest, None)
  /\ UNCHANGED <<files, writer, part, generated, now, handlers>>

-----------------------------------------------------------------------------
(***************************************************************************)
(* The environment                                                         *)
(***************************************************************************)

Tick ==
  /\ now < MaxTime
  /\ now' = now + 1
  /\ UNCHANGED <<storage, handlers, cw, budget>>

\* Process p dies and is restarted: its requests, its open transaction and
\* its cleanup pass are gone; table and disk stay as they are.
Crash(p) ==
  LET lost == {r \in Reqs : pc[r] \notin {"idle", "done"} /\ req[r].proc = p} IN
  /\ crashes < MaxCrashes
  /\ crashes' = crashes + 1
  /\ pc' = [r \in Reqs |-> IF r \in lost THEN "done" ELSE pc[r]]
  /\ body' = [r \in Reqs |-> IF r \in lost /\ pc[r] \in {"open", "body"}
                             THEN "aborted" ELSE body[r]]
  /\ writer' = IF writer \in lost THEN None ELSE writer
  /\ loop' = [loop EXCEPT ![p] = None]
  /\ cw' = [cw EXCEPT ![p] = Asleep]
  /\ UNCHANGED <<files, disk, part, generated, now, req, meta, status, faults>>

Upload(r) ==
  \/ AllocateId(r) \/ AllocateFails(r)
  \/ SaveOpen(r) \/ SaveChunks(r) \/ SaveTooLarge(r) \/ SaveError(r) \/ SaveReplace(r)
  \/ DetectFails(r) \/ Put(r) \/ PutConflict(r)
  \/ Respond(r) \/ Commit(r) \/ CommitFails(r)

Fetch(r) ==
  \/ CheckMeta(r) \/ CheckRaw(r) \/ PathExists(r)
  \/ CountFetch(r) \/ ConsumeOneShot(r) \/ OpenBody(r) \/ EndBody(r)

Delete(r) == Authorize(r) \/ DeleteRow(r) \/ DeleteFile(r) \/ DeleteFileFails(r)

Handler(r) == Upload(r) \/ Fetch(r) \/ Delete(r) \/ Refuse(r) \/ LockedOut(r) \/ DbError(r)

Arrive(r) == BeginUpload(r) \/ BeginFetch(r) \/ BeginPeek(r) \/ BeginDelete(r)

Cleanup(p) ==
  \/ CleanupStart(p) \/ CleanupGet(p) \/ CleanupSoftDelete(p) \/ CleanupUnlink(p)
  \/ CleanupSkips(p) \/ CleanupSelectOld(p) \/ CleanupHardDelete(p)
  \/ CleanupPass2Fails(p) \/ CleanupSweep(p)

Next ==
  \/ \E r \in Reqs : Arrive(r) \/ Handler(r)
  \/ \E p \in Procs : Cleanup(p) \/ Crash(p)
  \/ Tick

Spec == Init /\ [][Next]_vars

-----------------------------------------------------------------------------
(***************************************************************************)
(* Safety                                                                  *)
(***************************************************************************)

Whole(r) == [sha256 |-> r, whole |-> TRUE]

Busy(r) == pc[r] \notin {"idle", "done"}

\* r is the upload that was given id.
Owns(r, id) == pc[r] # "idle" /\ req[r].kind = "upload" /\ req[r].id = id

\* A whole file was promised to r, by a 200 or a range that covers the file.
ServedWhole(r) == status[r] = "ok" /\ req[r].kind = "fetch" /\ req[r].range = "full"

\* A committed, not deleted row always has its file: all the bytes that were
\* hashed into the row, at the canonical path.  No order of soft-delete,
\* unlink, rename, insert and commit, with or without errors and crashes,
\* may expose a link whose bytes are missing, partial or somebody else's.
LiveFileBacked ==
  \A id \in Ids : Live(files[id]) => disk[id] = Whole(files[id].sha256)

\* A crashed or failed upload never leaves a half-written file at the
\* canonical path (filesystem.py:58): the rename is the only way there.
NoHalfWritten == \A id \in Ids : disk[id] # None => disk[id].whole

\* The requests that were promised the whole of the one-shot file id.
Redeemers(id) ==
  {r \in Reqs : ServedWhole(r) /\ req[r].id = id /\ meta[r].one_shot}

\* The whole of a one-shot file is promised to one GET at most, however
\* fetches, deletes and the cleanup thread interleave with it.
OneShotServedOnce == \A id \in Ids : \A r, s \in Redeemers(id) : r = s

\* Once a DELETE has been answered with success its file is not live again:
\* no pending commit, retry or cleanup pass brings the row back.
DeletedStaysGone ==
  \A r \in Reqs :
    pc[r] = "done" /\ req[r].kind = "delete" /\ status[r] \in {"ok", "already"}
    => ~Live(files[req[r].id])

\* Every file on disk, finished or partial, can still be found by somebody
\* who will unlink it: its row, the upload that is writing it or the purge
\* that has just removed its row.  The exception is an upload that failed
\* after the rename (a database error or a lock timeout): see README.
FilesAccounted ==
  \A id \in Ids :
    disk[id] # None \/ part[id] # None =>
      \/ files[id] # None
      \/ \E r \in Reqs : Owns(r, id) /\ (Busy(r) \/ status[r] = "error")
      \/ \E p \in Procs : cw[p].pc = "sweep" /\ id \in cw[p].todo

\* Bytes of id are on disk, and nobody is left who will come across them.
Abandoned(id) ==
  /\ disk[id] # None \/ part[id] # None
  /\ files[id] = None
  /\ ~\E r \in Reqs : Owns(r, id) /\ Busy(r)
  /\ ~\E p \in Procs : cw[p].pc = "sweep" /\ id \in cw[p].todo

\* The steps that leave bytes of id to nobody: the copy, the INSERT or the
\* commit of its upload fails, the unlink of the purge that took its row
\* fails, or the process of one of them dies.
LosesTrack(id) ==
  \/ \E r \in Reqs :
       /\ Owns(r, id)
       /\ \/ SaveError(r) \/ DetectFails(r) \/ CommitFails(r)
          \/ pc[r] = "put" /\ (LockedOut(r) \/ DbError(r))
  \/ \E p \in Procs :
       /\ cw[p].pc = "sweep" /\ id \in cw[p].todo
       /\ Crash(p) \/ (CleanupSweep(p) /\ faults' # faults)
  \/ \E r \in Reqs, p \in Procs :
       Owns(r, id) /\ Busy(r) /\ req[r].proc = p /\ Crash(p)

\* With errors and crashes at any step, these are the only ways to lose track
\* of a file: no refusal, failed soft-delete, failed unlink of a DELETE or of
\* an expiry, nor any crash elsewhere takes the last way to it away, and
\* nothing that happens after a failure does.
OnlyFailuresAbandon ==
  [][\A id \in Ids : Abandoned(id)' => Abandoned(id) \/ LosesTrack(id)]_vars

\* A GET answered 200 or 206 has been counted in the row, even when several
\* processes count fetches of one file at the same time.
FetchesCounted ==
  \A id \in Ids : files[id] # None =>
    Cardinality({r \in Reqs : /\ status[r] = "ok" /\ req[r].kind = "fetch"
                              /\ req[r].id = id}) <= files[id].fetched_count

\* deleted_at is written once: a DELETE, a consumed one-shot and the cleanup
\* thread may all soft-delete one row, and only the first may say when.  The
\* row of a deleted file only ever leaves the table.
TombstonePermanent ==
  [][\A id \in Ids : Tombstone(files[id]) =>
       files'[id] = None \/ files'[id].deleted_at = files[id].deleted_at]_vars

\* A row leaves the table only as a tombstone older than the grace period,
\* although the ids to purge are selected some steps before the DELETE.
PurgeOnlyOldTombstones ==
  [][\A id \in Ids : files[id] # None /\ files'[id] = None =>
       Tombstone(files[id]) /\ files[id].deleted_at + Grace < now]_vars

-----------------------------------------------------------------------------
(***************************************************************************)
(* The promise this server keeps                                           *)
(***************************************************************************)

\* id was generated and the upload it was generated for is over.
Known(id) == id \in generated /\ \A r \in Reqs : Owns(r, id) => pc[r] = "done"

LinkState(id) ==
  IF ~Known(id) THEN "absent" ELSE IF Live(files[id]) THEN "live" ELSE "dead"

Promise == INSTANCE OneShotLink WITH
  link      <- [id \in Ids |-> LinkState(id)],
  redeemers <- [id \in Ids |-> Redeemers(id)]

\* The server implements OneShotLink: publication, death and redemption of a
\* link are single steps, in an order the abstract specification allows.
KeepsPromise == Promise!Spec

-----------------------------------------------------------------------------
(***************************************************************************)
(* Liveness                                                                *)
(***************************************************************************)

\* The event loop runs every handler and thread that can run (the busy
\* timeout of SQLite included), a process that lives polls its cleanup loop,
\* and time passes.  Nothing makes a client send a request, or read the body
\* of its download to the end.
Fairness ==
  /\ \A r \in Reqs : WF_vars(Handler(r) /\ pc[r] # "body")
  /\ \A p \in Procs : WF_vars(Cleanup(p))
  /\ WF_vars(Tick)

FairSpec == Spec /\ Fairness

\* Every request that reached a handler ends, or gets as far as a body that
\* its client has to read.  A handler that waits for the write lock on the
\* event loop keeps the holder of the lock from finishing: only SQLite's busy
\* timeout lets both go on.
RequestsTerminate == \A r \in Reqs : Busy(r) ~> pc[r] \in {"body", "done"}

\* A file that expires within the run stops being live.
ExpiredIsHidden ==
  \A id \in Ids :
    Live(files[id]) /\ files[id].expires_at <= MaxTime ~> ~Live(files[id])

\* A tombstone whose grace period ends within the run loses its row and its
\* file, whoever made it a tombstone and whatever became of the first unlink.
TombstoneReclaimed ==
  \A id \in Ids :
    Tombstone(files[id]) /\ files[id].deleted_at + Grace < MaxTime
    ~> files[id] = None /\ disk[id] = None

=============================================================================
