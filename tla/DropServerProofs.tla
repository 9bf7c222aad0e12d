-------------------------- MODULE DropServerProofs ---------------------------
(***************************************************************************)
(* Theorems about DropServer, for any number of requests, ids, processes,  *)
(* faults and crashes.                                                     *)
(***************************************************************************)
EXTENDS DropServerInv, DbStoreProofs

-----------------------------------------------------------------------------
(***************************************************************************)
(* Types                                                                   *)
(***************************************************************************)

\* A step of a handler that moves it within its own labels, and touches only
\* typed state, keeps the shape: what is left to show is what it assigns.
LEMMA ReplyShape ==
  ASSUME Shape, NEW r \in Reqs, NEW s \in Statuses, pc[r] \in Labels \ {"idle"},
         Reply(r, s), UNCHANGED <<storage, now, cw>>, faults' \in Nat, crashes' \in Nat
  PROVE  Shape'
<1>1. TypeOK'
  BY DEF Shape, TypeOK, RequestShape, Reply, Goto, Release, storage, Labels, Requests
<1>2. RequestShape'
  BY DEF Shape, TypeOK, RequestShape, Reply, Goto, UploadLabels, FetchLabels, PeekLabels, DeleteLabels
<1>3. WorkerShape'
  BY DEF Shape, WorkerShape
<1> QED BY <1>1, <1>2, <1>3 DEF Shape

\* What a request that arrives is, and which handler it starts.
Arrives(r, q, l) ==
  /\ Begin(r, q, l)
  /\ l = "alloc" => q.kind = "upload" /\ q.id = None
  /\ l = "get" => q.kind \in {"fetch", "head", "info"}
  /\ l = "auth" => q.kind = "delete"
  /\ q.kind # "upload" => q.id \in Ids

\* Every arrival starts the handler of its kind with a well-formed request.
LEMMA ArriveBegins ==
  ASSUME NEW r \in Reqs, Arrive(r)
  PROVE  \E q \in Requests, l \in {"alloc", "get", "auth"} : Arrives(r, q, l)
<1> USE DEF Arrives
<1>1. CASE BeginUpload(r)
  <2>1. PICK p \in Procs, one_shot \in BOOLEAN, ttl \in 1..MaxTtl :
          Begin(r, [kind |-> "upload", proc |-> p, id |-> None, one_shot |-> one_shot,
                    ttl |-> ttl, good |-> TRUE, range |-> "full"], "alloc")
    BY <1>1 DEF BeginUpload
  <2> DEFINE q ==
         [kind |-> "upload", proc |-> p, id |-> None, one_shot |-> one_shot,
           ttl |-> ttl, good |-> TRUE, range |-> "full"]
  <2>2. q \in Requests
    BY ServerAssumption DEF Requests, AllKinds, Ranges
  <2> QED BY <2>1, <2>2
<1>2. CASE BeginFetch(r)
  <2>1. PICK p \in Procs, id \in Ids, good \in BOOLEAN, range \in Ranges :
          Begin(r, [kind |-> "fetch", proc |-> p, id |-> id, one_shot |-> FALSE,
                    ttl |-> 0, good |-> good, range |-> range], "get")
    BY <1>2 DEF BeginFetch
  <2> DEFINE q ==
         [kind |-> "fetch", proc |-> p, id |-> id, one_shot |-> FALSE,
           ttl |-> 0, good |-> good, range |-> range]
  <2>2. q \in Requests
    BY DEF Requests, AllKinds
  <2> QED BY <2>1, <2>2
<1>3. CASE BeginPeek(r)
  <2>1. PICK p \in Procs, id \in Ids, kind \in {"head", "info"}, good \in BOOLEAN :
          Begin(r, [kind |-> kind, proc |-> p, id |-> id, one_shot |-> FALSE,
                    ttl |-> 0, good |-> good, range |-> "full"], "get")
    BY <1>3 DEF BeginPeek
  <2> DEFINE q ==
         [kind |-> kind, proc |-> p, id |-> id, one_shot |-> FALSE,
           ttl |-> 0, good |-> good, range |-> "full"]
  <2>2. q \in Requests
    BY DEF Requests, AllKinds, Ranges
  <2> QED BY <2>1, <2>2
<1>4. CASE BeginDelete(r)
  <2>1. PICK p \in Procs, id \in Ids, good \in BOOLEAN :
          Begin(r, [kind |-> "delete", proc |-> p, id |-> id, one_shot |-> FALSE,
                    ttl |-> 0, good |-> good, range |-> "full"], "auth")
    BY <1>4 DEF BeginDelete
  <2> DEFINE q ==
         [kind |-> "delete", proc |-> p, id |-> id, one_shot |-> FALSE,
           ttl |-> 0, good |-> good, range |-> "full"]
  <2>2. q \in Requests
    BY DEF Requests, AllKinds, Ranges
  <2> QED BY <2>1, <2>2
<1> QED BY <1>1, <1>2, <1>3, <1>4 DEF Arrive

\* A request that arrives has the shape of a request.
LEMMA ArriveShape ==
  ASSUME Shape, NEW r \in Reqs, Arrive(r)
  PROVE  Shape'
<1> USE DEF Shape, storage, answers, budget
<1>1. PICK q \in Requests, l \in {"alloc", "get", "auth"} : Arrives(r, q, l)
  BY ArriveBegins
<1>2. TypeOK'
  BY <1>1 DEF Arrives, Begin, Goto, TypeOK, Labels, Requests
<1>3. RequestShape'
  BY <1>1 DEF Arrives, Begin, Goto, TypeOK, RequestShape, UploadLabels, FetchLabels, PeekLabels, DeleteLabels
<1>4. WorkerShape'
  BY <1>1 DEF Arrives, Begin, WorkerShape
<1> QED BY <1>2, <1>3, <1>4

\* A step of an upload keeps the shape of the state.
LEMMA UploadShape ==
  ASSUME Shape, NEW r \in Reqs, Upload(r)
  PROVE  Shape'
<1> USE DEF Shape, storage, answers, budget
<1>0. pc[r] # "idle" => req[r] \in Requests
  BY DEF RequestShape
<1>1. CASE AllocateId(r)
  <2>1. PICK id \in Ids : /\ generated' = generated \cup {id}
                          /\ req' = [req EXCEPT ![r].id = id]
    BY <1>1 DEF AllocateId
  <2>2. req[r] \in Requests /\ [req[r] EXCEPT !.id = id] \in Requests
    BY <1>0, <1>1 DEF AllocateId, Running, Requests
  <2>3. req' = [req EXCEPT ![r] = [req[r] EXCEPT !.id = id]]
    BY <2>1
  <2>4. TypeOK'
    BY <1>1, <2>1, <2>2, <2>3 DEF AllocateId, Goto, TypeOK, Labels
  <2>5. RequestShape'
    BY <1>1, <2>2, <2>3 DEF AllocateId, Running, Goto, TypeOK, RequestShape, Requests,
       UploadLabels, FetchLabels, PeekLabels, DeleteLabels
  <2> QED BY <1>1, <2>4, <2>5 DEF AllocateId, WorkerShape
<1>2. CASE SaveOpen(r) \/ SaveChunks(r) \/ SaveReplace(r)
  <2>0. req[r].id \in Ids
    BY <1>2 DEF SaveOpen, SaveChunks, SaveReplace, Running, RequestShape, UploadLabels
  <2>1. \A b \in BOOLEAN : [sha256 |-> r, whole |-> b] \in Contents
    BY DEF Contents
  <2>2. /\ disk' \in [Ids -> Contents \cup {None}]
        /\ part' \in [Ids -> Contents \cup {None}]
    <3>1. CASE SaveOpen(r)
      BY <2>1, <3>1 DEF SaveOpen, TypeOK
    <3>2. CASE SaveChunks(r)
      BY <2>1, <3>2 DEF SaveChunks, TypeOK
    <3>3. CASE SaveReplace(r)
      BY <2>0, <3>3 DEF SaveReplace, TypeOK
    <3> QED BY <1>2, <3>1, <3>2, <3>3
  <2>3. TypeOK'
    BY <1>2, <2>2 DEF SaveOpen, SaveChunks, SaveReplace, Goto, TypeOK, Labels
  <2>4. RequestShape'
    BY <1>2 DEF SaveOpen, SaveChunks, SaveReplace, Running, Goto, TypeOK, RequestShape,
       UploadLabels, FetchLabels, PeekLabels, DeleteLabels
  <2> QED BY <1>2, <2>3, <2>4 DEF SaveOpen, SaveChunks, SaveReplace, WorkerShape
<1>3. CASE AllocateFails(r) \/ PutConflict(r) \/ DetectFails(r)
  <2>1. Reply(r, "error") /\ UNCHANGED <<storage, now, cw>> /\ pc[r] \in {"alloc", "put"}
    BY <1>3 DEF AllocateFails, PutConflict, DetectFails, Running
  <2>2. faults' \in Nat /\ crashes' \in Nat
    BY <1>3 DEF AllocateFails, PutConflict, DetectFails, Fault, TypeOK
  <2> QED BY <2>1, <2>2, ReplyShape DEF Statuses, Labels
<1>4. CASE SaveTooLarge(r) \/ SaveError(r)
  <2>1. PICK s \in {"too_large", "error"} : Reply(r, s)
    BY <1>4 DEF SaveTooLarge, SaveError
  <2>2. part' \in [Ids -> Contents \cup {None}]
    BY <1>4 DEF SaveTooLarge, SaveError, TypeOK
  <2>3. faults' \in Nat /\ crashes' \in Nat /\ UNCHANGED <<files, writer, disk, generated, now, cw>>
    BY <1>4 DEF SaveTooLarge, SaveError, Fault, TypeOK
  <2>4. pc[r] \in {"save", "write", "replace"}
    BY <1>4 DEF SaveTooLarge, SaveError, Running
  <2>5. TypeOK'
    BY <1>0, <2>1, <2>2, <2>3, <2>4 DEF Reply, Goto, Release, TypeOK, Labels, Statuses, Requests
  <2>6. RequestShape'
    BY <2>1, <2>4 DEF Reply, Goto, TypeOK, RequestShape, UploadLabels, FetchLabels, PeekLabels, DeleteLabels
  <2> QED BY <2>3, <2>5, <2>6 DEF WorkerShape
<1>5. CASE Put(r)
  <2>1. req[r] \in Requests /\ NewRow(r) \in Rows
    BY <1>0, <1>5 DEF Put, Running, NewRow, Rows, Requests, TypeOK
  <2>2. TypeOK'
    BY <1>5, <2>1 DEF Put, Goto, Release, TypeOK, Labels, Requests
  <2>3. RequestShape'
    BY <1>5, <2>1 DEF Put, Running, Goto, TypeOK, RequestShape,
       UploadLabels, FetchLabels, PeekLabels, DeleteLabels
  <2> QED BY <1>5, <2>2, <2>3 DEF Put, WorkerShape
<1>6. CASE Respond(r)
  <2>1. TypeOK'
    BY <1>6 DEF Respond, Goto, TypeOK, Labels, Statuses
  <2>2. RequestShape'
    BY <1>6 DEF Respond, Resumes, Goto, TypeOK, RequestShape,
       UploadLabels, FetchLabels, PeekLabels, DeleteLabels
  <2> QED BY <1>6, <2>1, <2>2 DEF Respond, WorkerShape
<1>7. CASE Commit(r) \/ CommitFails(r)
  <2>1. meta[r] \in Rows /\ pc[r] = "commit"
    BY <1>7 DEF Commit, CommitFails, RequestShape
  <2>2. files' \in Tables
    BY <1>7, <2>1 DEF Commit, CommitFails, TypeOK, Tables
  <2>3. TypeOK'
    BY <1>7, <2>2 DEF Commit, CommitFails, Fault, Goto, TypeOK, Labels
  <2>4. RequestShape'
    BY <1>7, <2>1 DEF Commit, CommitFails, Goto, TypeOK, RequestShape,
       UploadLabels, FetchLabels, PeekLabels, DeleteLabels
  <2> QED BY <1>7, <2>3, <2>4 DEF Commit, CommitFails, WorkerShape
<1> QED BY <1>1, <1>2, <1>3, <1>4, <1>5, <1>6, <1>7 DEF Upload

\* A step of GET, HEAD or /info keeps the shape of the state.
LEMMA FetchShape ==
  ASSUME Shape, NEW r \in Reqs, Fetch(r)
  PROVE  Shape'
<1> USE DEF Shape, storage, answers, budget
<1>0. pc[r] # "idle" => req[r] \in Requests
  BY DEF RequestShape
<1>1. CASE CheckMeta(r)
  <2> DEFINE row == Get(files, req[r].id)
  <2>1. pc[r] = "get" /\ req[r].id \in Ids /\ req[r].kind \in {"fetch", "head", "info"}
    BY <1>1 DEF CheckMeta, Running, RequestShape, PeekLabels
  <2>2. row \in Rows \cup {None}
    BY <2>1 DEF Get, TypeOK, Tables
  <2>3. UNCHANGED <<storage, now, cw, budget>> /\ faults' \in Nat /\ crashes' \in Nat
    BY <1>1 DEF CheckMeta, TypeOK
  <2>4. CASE \E s \in {"not_found", "ok"} : Reply(r, s)
    BY <2>1, <2>3, <2>4, ReplyShape DEF Statuses, Labels
  <2>5. CASE Goto(r, "raw") /\ UNCHANGED <<loop, req, meta, answers>>
    <3>1. TypeOK'
      BY <2>3, <2>5 DEF Goto, TypeOK, Labels
    <3>2. RequestShape'
      BY <2>1, <2>5 DEF Goto, TypeOK, RequestShape, UploadLabels, FetchLabels, PeekLabels, DeleteLabels
    <3> QED BY <2>3, <3>1, <3>2 DEF WorkerShape
  <2>6. CASE /\ req[r].kind = "fetch" /\ Goto(r, "exists")
             /\ meta' = [meta EXCEPT ![r] = row] /\ UNCHANGED <<loop, req, answers>>
    <3> HIDE DEF row
    <3>1. TypeOK'
      BY <2>2, <2>3, <2>6 DEF Goto, TypeOK, Labels
    <3>2. RequestShape'
      BY <2>1, <2>6 DEF Goto, TypeOK, RequestShape, UploadLabels, FetchLabels, PeekLabels, DeleteLabels
    <3> QED BY <2>3, <3>1, <3>2 DEF WorkerShape
  <2> QED BY <1>1, <2>4, <2>5, <2>6 DEF CheckMeta
<1>2. CASE CheckRaw(r)
  <2>1. \E s \in {"gone", "not_found"} : Reply(r, s)
    BY <1>2 DEF CheckRaw
  <2> QED BY <1>2, <2>1, ReplyShape DEF CheckRaw, Running, TypeOK, Statuses, Labels
<1>3. CASE PathExists(r)
  <2>1. UNCHANGED <<storage, now, cw, budget>> /\ faults' \in Nat /\ crashes' \in Nat /\ pc[r] = "exists"
    BY <1>3 DEF PathExists, Running, TypeOK
  <2>2. CASE \E s \in {"not_found", "unsatisfiable"} : Reply(r, s)
    BY <2>1, <2>2, ReplyShape DEF Statuses, Labels
  <2>3. CASE Goto(r, "mark") /\ UNCHANGED <<loop, req, meta, answers>>
    <3>1. TypeOK'
      BY <2>1, <2>3 DEF Goto, TypeOK, Labels
    <3>2. RequestShape'
      BY <2>1, <2>3 DEF Goto, TypeOK, RequestShape, UploadLabels, FetchLabels, PeekLabels, DeleteLabels
    <3> QED BY <2>1, <3>1, <3>2 DEF WorkerShape
  <2> QED BY <1>3, <2>2, <2>3 DEF PathExists
<1>4. CASE CountFetch(r) \/ ConsumeOneShot(r)
  <2>1. pc[r] \in {"mark", "consume"} /\ req[r].kind = "fetch" /\ req[r].id \in Ids
    BY <1>4 DEF CountFetch, ConsumeOneShot, Running, RequestShape, FetchLabels
  <2>2. files \in Tables /\ now \in Nat
    BY DEF TypeOK
  <2>3. files' \in Tables
    BY <1>4, <2>1, <2>2, MarkFetchedWanes, SoftDeleteWanes DEF CountFetch, ConsumeOneShot
  <2>4. /\ UNCHANGED <<writer, disk, part, generated, now, req, meta, body, cw, budget>>
        /\ \/ Goto(r, "consume") /\ UNCHANGED <<loop, status>>
           \/ Serve(r)
    BY <1>4 DEF CountFetch, ConsumeOneShot
  <2>5. TypeOK'
    BY <1>0, <2>1, <2>3, <2>4 DEF Goto, Serve, Release, TypeOK, Labels, Statuses, Requests
  <2>6. RequestShape'
    BY <2>1, <2>4 DEF Goto, Serve, TypeOK, RequestShape, UploadLabels, FetchLabels, PeekLabels, DeleteLabels
  <2> QED BY <2>4, <2>5, <2>6 DEF WorkerShape
<1>5. CASE OpenBody(r) \/ EndBody(r)
  <2>1. /\ UNCHANGED <<storage, now, loop, req, meta, status, cw, budget>>
        /\ pc[r] \in {"open", "body"} /\ req[r].kind = "fetch"
        /\ \E l \in {"body", "done"} : Goto(r, l)
    BY <1>5 DEF OpenBody, EndBody, Resumes, RequestShape, FetchLabels
  <2>2. body' \in [Reqs -> {"none", "delivered", "broken", "aborted"}]
    BY <1>5 DEF OpenBody, EndBody, TypeOK
  <2>3. TypeOK'
    BY <2>1, <2>2 DEF Goto, TypeOK, Labels
  <2>4. RequestShape'
    BY <2>1 DEF Goto, TypeOK, RequestShape, UploadLabels, FetchLabels, PeekLabels, DeleteLabels
  <2> QED BY <2>1, <2>3, <2>4 DEF WorkerShape
<1> QED BY <1>1, <1>2, <1>3, <1>4, <1>5 DEF Fetch

\* A step of DELETE keeps the shape of the state.
LEMMA DeleteShape ==
  ASSUME Shape, NEW r \in Reqs, Delete(r)
  PROVE  Shape'
<1> USE DEF Shape, storage, answers, budget
<1>0. pc[r] # "idle" => req[r] \in Requests
  BY DEF RequestShape
<1>1. CASE Authorize(r)
  <2>1. pc[r] = "auth" /\ UNCHANGED <<storage, now, cw, budget>> /\ faults' \in Nat /\ crashes' \in Nat
    BY <1>1 DEF Authorize, Running, TypeOK
  <2>2. CASE \E s \in {"forbidden", "already"} : Reply(r, s)
    BY <2>1, <2>2, ReplyShape DEF Statuses, Labels
  <2>3. CASE Goto(r, "softdel") /\ UNCHANGED <<loop, req, meta, answers>>
    <3>1. TypeOK'
      BY <2>1, <2>3 DEF Goto, TypeOK, Labels
    <3>2. RequestShape'
      BY <2>1, <2>3 DEF Goto, TypeOK, RequestShape, UploadLabels, FetchLabels, PeekLabels, DeleteLabels
    <3> QED BY <2>1, <3>1, <3>2 DEF WorkerShape
  <2> QED BY <1>1, <2>2, <2>3 DEF Authorize
<1>2. CASE DeleteRow(r)
  <2>1. pc[r] = "softdel" /\ req[r].kind = "delete" /\ req[r].id \in Ids
    BY <1>2 DEF DeleteRow, Running, RequestShape, DeleteLabels
  <2>2. files \in Tables /\ now \in Nat
    BY DEF TypeOK
  <2>3. files' \in Tables
    BY <1>2, <2>1, <2>2, SoftDeleteWanes DEF DeleteRow
  <2>4. TypeOK'
    BY <1>2, <2>3 DEF DeleteRow, Goto, TypeOK, Labels
  <2>5. RequestShape'
    BY <1>2, <2>1 DEF DeleteRow, Goto, TypeOK, RequestShape,
       UploadLabels, FetchLabels, PeekLabels, DeleteLabels
  <2> QED BY <1>2, <2>4, <2>5 DEF DeleteRow, WorkerShape
<1>3. CASE DeleteFile(r) \/ DeleteFileFails(r)
  <2>1. /\ Reply(r, "ok") /\ UNCHANGED <<files, writer, part, generated, now, cw>>
        /\ faults' \in Nat /\ crashes' \in Nat /\ pc[r] = "unlink"
    BY <1>3 DEF DeleteFile, DeleteFileFails, Running, Fault, TypeOK
  <2>2. disk' \in [Ids -> Contents \cup {None}]
    BY <1>3 DEF DeleteFile, DeleteFileFails, TypeOK
  <2>3. TypeOK'
    BY <1>0, <2>1, <2>2 DEF Reply, Goto, Release, TypeOK, Labels, Statuses, Requests
  <2>4. RequestShape'
    BY <2>1 DEF Reply, Goto, TypeOK, RequestShape, UploadLabels, FetchLabels, PeekLabels, DeleteLabels
  <2> QED BY <2>1, <2>3, <2>4 DEF WorkerShape
<1> QED BY <1>1, <1>2, <1>3 DEF Delete

\* Where a cleanup thread stands after a step, well formed.
LEMMA WorkerMoves ==
  ASSUME Shape, NEW p \in Procs, NEW l \in {"sleep", "expire", "soft", "unlink", "purge", "sweep"},
         NEW todo \in SUBSET Ids, NEW fid \in Ids \cup {None},
         l \in {"soft", "unlink"} => fid \in Ids, Worker(p, l, todo, fid)
  PROVE  cw' \in [Procs -> Workers] /\ WorkerShape'
<1> DEFINE w == [pc |-> l, todo |-> todo, fid |-> fid]
<1>1. w \in Workers
  BY DEF Workers
<1>2. cw' = [cw EXCEPT ![p] = w] /\ w.pc = l /\ w.fid = fid
  BY DEF Worker
<1> HIDE DEF w
<1> QED BY <1>1, <1>2 DEF Shape, TypeOK, WorkerShape

\* Where a step of a cleanup thread takes it.
LEMMA CleanupMoves ==
  ASSUME Shape, NEW p \in Procs, Cleanup(p)
  PROVE  cw' \in [Procs -> Workers] /\ WorkerShape'
<1>1. cw[p] \in Workers /\ cw[p].todo \in SUBSET Ids /\ cw[p].fid \in Ids \cup {None}
  BY DEF Shape, TypeOK, Workers
<1>2. CASE CleanupStart(p)
  <2>1. PICK ids \in Batches(ExpiredIds(files, now)) : Worker(p, "expire", ids, None)
    BY <1>2 DEF CleanupStart
  <2>2. ids \in SUBSET Ids
    BY BatchesSubset DEF ExpiredIds
  <2> QED BY <2>1, <2>2, WorkerMoves
<1>3. CASE CleanupGet(p)
  <2>1. PICK fid \in cw[p].todo : \/ Worker(p, "expire", cw[p].todo \ {fid}, None)
                                  \/ Worker(p, "soft", cw[p].todo \ {fid}, fid)
    BY <1>3 DEF CleanupGet
  <2>2. cw[p].todo \ {fid} \in SUBSET Ids /\ fid \in Ids
    BY <1>1
  <2> QED BY <2>1, <2>2, WorkerMoves
<1>4. CASE CleanupSoftDelete(p)
  BY <1>1, <1>4, WorkerMoves DEF CleanupSoftDelete, Shape, WorkerShape
<1>5. CASE CleanupUnlink(p) \/ CleanupSkips(p)
  BY <1>1, <1>5, WorkerMoves DEF CleanupUnlink, CleanupSkips
<1>6. CASE CleanupSelectOld(p)
  <2>1. PICK ids \in Batches(OldTombstones(files, now)) :
          Worker(p, "sleep", ids, None) \/ Worker(p, "purge", ids, None)
    BY <1>6 DEF CleanupSelectOld
  <2>2. ids \in SUBSET Ids
    BY BatchesSubset DEF OldTombstones
  <2> QED BY <2>1, <2>2, WorkerMoves
<1>7. CASE CleanupHardDelete(p) \/ CleanupPass2Fails(p)
  <2>1. Worker(p, "sweep", cw[p].todo, None) \/ Worker(p, "sleep", {}, None)
    BY <1>7 DEF CleanupHardDelete, CleanupPass2Fails
  <2>2. {} \in SUBSET Ids
    OBVIOUS
  <2> QED BY <1>1, <2>1, <2>2, WorkerMoves
<1>8. CASE CleanupSweep(p)
  <2>1. PICK fid \in cw[p].todo : \/ Worker(p, "sleep", cw[p].todo \ {fid}, None)
                                  \/ Worker(p, "sweep", cw[p].todo \ {fid}, None)
    BY <1>8 DEF CleanupSweep
  <2>2. cw[p].todo \ {fid} \in SUBSET Ids
    BY <1>1
  <2> QED BY <2>1, <2>2, WorkerMoves
<1> QED BY <1>2, <1>3, <1>4, <1>5, <1>6, <1>7, <1>8 DEF Cleanup

\* A step of a cleanup thread keeps the shape of the state.
LEMMA CleanupShape ==
  ASSUME Shape, NEW p \in Procs, Cleanup(p)
  PROVE  Shape'
<1> USE DEF Shape, storage, answers, budget, handlers
<1>1. UNCHANGED <<writer, part, generated, now, loop, pc, req, meta, status, body>>
  BY DEF Cleanup, CleanupStart, CleanupGet, CleanupSoftDelete, CleanupUnlink, CleanupSkips,
     CleanupSelectOld, CleanupHardDelete, CleanupPass2Fails, CleanupSweep
<1>2. UNCHANGED budget \/ Fault
  BY DEF Cleanup, CleanupStart, CleanupGet, CleanupSoftDelete, CleanupUnlink, CleanupSkips,
     CleanupSelectOld, CleanupHardDelete, CleanupPass2Fails, CleanupSweep
<1>3. disk' = disk \/ \E fid \in Ids \cup {None} : disk' = [disk EXCEPT ![fid] = None]
  <2>1. cw[p].fid \in Ids \cup {None} /\ cw[p].todo \in SUBSET Ids
    BY DEF TypeOK, Workers
  <2>2. CASE CleanupUnlink(p)
    BY <2>1, <2>2 DEF CleanupUnlink
  <2>3. CASE CleanupSweep(p)
    BY <2>1, <2>3 DEF CleanupSweep
  <2>4. CASE disk' = disk
    BY <2>4
  <2> QED BY <2>2, <2>3, <2>4 DEF Cleanup, CleanupStart, CleanupGet, CleanupSoftDelete, CleanupSkips,
     CleanupSelectOld, CleanupHardDelete, CleanupPass2Fails
<1>4. cw[p] \in Workers /\ files \in Tables /\ now \in Nat
  BY DEF TypeOK
<1>5. files' \in Tables
  <2>1. CASE CleanupSoftDelete(p)
    BY <1>4, <2>1, SoftDeleteWanes DEF CleanupSoftDelete, WorkerShape
  <2>2. CASE CleanupHardDelete(p)
    BY <1>4, <2>2, HardDeleteWanes DEF CleanupHardDelete, Workers
  <2>3. CASE UNCHANGED files
    BY <1>4, <2>3
  <2> QED
    BY <2>1, <2>2, <2>3 DEF Cleanup, CleanupStart, CleanupGet, CleanupUnlink, CleanupSkips,
       CleanupSelectOld, CleanupPass2Fails, CleanupSweep
<1>6. cw' \in [Procs -> Workers] /\ WorkerShape'
  BY CleanupMoves
<1>7. TypeOK'
  BY <1>1, <1>2, <1>3, <1>5, <1>6 DEF TypeOK, Fault
<1>8. RequestShape'
  BY <1>1 DEF RequestShape
<1> QED BY <1>6, <1>7, <1>8

\* A crash keeps the shape of the state.
LEMMA CrashShape ==
  ASSUME Shape, NEW p \in Procs, Crash(p)
  PROVE  Shape'
<1> USE DEF Shape
<1>1. \A r \in Reqs : pc'[r] \in {pc[r], "done"} /\ (pc'[r] # "idle" => pc[r] # "idle")
  BY DEF Crash, TypeOK
<1>2. /\ pc' \in [Reqs -> Labels]
      /\ body' \in [Reqs -> {"none", "delivered", "broken", "aborted"}]
  BY DEF Crash, TypeOK, Labels
<1>3. Asleep \in Workers
  BY DEF Asleep, Workers
<1>4. TypeOK'
  BY <1>2, <1>3 DEF Crash, TypeOK
<1>5. RequestShape'
  BY <1>1 DEF Crash, TypeOK, RequestShape, UploadLabels, FetchLabels, PeekLabels, DeleteLabels
<1>6. WorkerShape'
  BY DEF Crash, Asleep, TypeOK, WorkerShape
<1> QED BY <1>4, <1>5, <1>6

\* The shape of the state is an invariant, whatever ids generate_id returns.
LEMMA ShapeStep == Shape /\ [Next]_vars => Shape'
<1> SUFFICES ASSUME Shape, [Next]_vars PROVE Shape'
  OBVIOUS
<1>1. ASSUME NEW r \in Reqs, Handler(r) PROVE Shape'
  <2>1. CASE Upload(r) \/ Fetch(r) \/ Delete(r)
    BY <2>1, UploadShape, FetchShape, DeleteShape
  <2>2. CASE Refuse(r) \/ LockedOut(r) \/ DbError(r)
    <3>1. /\ \E s \in {"refused", "error"} : Reply(r, s)
          /\ UNCHANGED <<storage, now, cw>>
          /\ pc[r] \in {"alloc", "get", "raw", "auth", "put", "mark", "consume", "softdel"}
      BY <2>2 DEF Refuse, LockedOut, DbError, Running
    <3>2. faults' \in Nat /\ crashes' \in Nat
      BY <2>2 DEF Refuse, LockedOut, DbError, Fault, budget, Shape, TypeOK
    <3> QED BY <3>1, <3>2, ReplyShape DEF Labels, Statuses
  <2> QED BY <1>1, <2>1, <2>2 DEF Handler
<1>2. CASE Tick
  <2>1. TypeOK'
    BY <1>2 DEF Tick, Shape, TypeOK, storage, handlers, budget
  <2> QED BY <1>2, <2>1 DEF Tick, Shape, RequestShape, WorkerShape, handlers
<1>3. CASE UNCHANGED vars
  BY <1>3 DEF vars, Shape, TypeOK, RequestShape, WorkerShape
<1> QED BY <1>1, <1>2, <1>3, ArriveShape, CleanupShape, CrashShape DEF Next

\* The initial state has the shape.
LEMMA ShapeInit == Init => Shape
<1> SUFFICES ASSUME Init PROVE Shape
  OBVIOUS
<1>1. Asleep \in Workers /\ Asleep.pc = "sleep"
  BY DEF Asleep, Workers
<1>2. TypeOK
  BY <1>1 DEF Init, TypeOK, Tables, Labels, Statuses
<1> QED BY <1>1, <1>2 DEF Init, Shape, RequestShape, WorkerShape

\* Every variable keeps its type, at every step of every handler, thread,
\* fault and crash.
THEOREM TypeCorrect == Spec => []TypeOK
<1>1. Shape => TypeOK
  BY DEF Shape
<1> QED BY <1>1, ShapeInit, ShapeStep, PTL DEF Spec

-----------------------------------------------------------------------------
(***************************************************************************)
(* What a step may do to one part of the state                             *)
(***************************************************************************)

\* Nothing changes for requests other than r.
Only(r) ==
  \A s \in Reqs \ {r} : /\ pc'[s] = pc[s] /\ req'[s] = req[s]
                        /\ meta'[s] = meta[s] /\ status'[s] = status[s]

\* A handler changes nothing of another request.
LEMMA HandlerOnly ==
  ASSUME Shape, NEW r \in Reqs, Arrive(r) \/ Handler(r)
  PROVE  Only(r)
<1> USE DEF Shape, TypeOK, Only, answers
<1>1. CASE Arrive(r)
  BY <1>1 DEF Arrive, BeginUpload, BeginFetch, BeginPeek, BeginDelete, Begin, Goto
<1>2. CASE Upload(r)
  BY <1>2 DEF Upload, AllocateId, AllocateFails, SaveOpen, SaveChunks, SaveTooLarge, SaveError,
     SaveReplace, DetectFails, Put, PutConflict, Respond, Commit, CommitFails, Goto, Reply
<1>3. CASE Fetch(r)
  BY <1>3 DEF Fetch, CheckMeta, CheckRaw, PathExists, CountFetch, ConsumeOneShot, OpenBody, EndBody,
     Goto, Reply, Serve
<1>4. CASE Delete(r)
  BY <1>4 DEF Delete, Authorize, DeleteRow, DeleteFile, DeleteFileFails, Goto, Reply
<1>5. CASE Refuse(r) \/ LockedOut(r) \/ DbError(r)
  BY <1>5 DEF Refuse, LockedOut, DbError, Goto, Reply
<1> QED BY <1>1, <1>2, <1>3, <1>4, <1>5 DEF Handler

\* Nothing changes for a request when a cleanup thread runs or time passes.
LEMMA CleanupOnly ==
  ASSUME (\E p \in Procs : Cleanup(p)) \/ Tick \/ UNCHANGED vars
  PROVE  UNCHANGED <<handlers, writer, part, generated>>
  BY DEF Cleanup, CleanupStart, CleanupGet, CleanupSoftDelete, CleanupUnlink, CleanupSkips,
     CleanupSelectOld, CleanupHardDelete, CleanupPass2Fails, CleanupSweep, Tick, vars, storage, handlers

\* Handlers leave the cleanup threads alone.
LEMMA HandlersKeepWorkers ==
  ASSUME NEW r \in Reqs, Arrive(r) \/ Handler(r)
  PROVE  UNCHANGED cw
  BY DEF Arrive, BeginUpload, BeginFetch, BeginPeek, BeginDelete, Begin, Handler, Refuse, LockedOut,
     DbError, Upload, AllocateId, AllocateFails, SaveOpen, SaveChunks, SaveTooLarge, SaveError, SaveReplace,
     DetectFails, Put, PutConflict, Respond, Commit, CommitFails, Fetch, CheckMeta, CheckRaw, PathExists,
     CountFetch, ConsumeOneShot, OpenBody, EndBody, Delete, Authorize, DeleteRow, DeleteFile, DeleteFileFails

\* The label an upload's own step takes it to.
LEMMA UploadGoes ==
  ASSUME Shape, NEW r \in Reqs, Upload(r)
  PROVE  /\ pc[r] \in UploadLabels
         /\ \/ AllocateId(r) /\ pc'[r] = "save"
            \/ /\ UNCHANGED <<req, generated>>
               /\ \/ SaveOpen(r) /\ pc'[r] = "write"
                  \/ SaveChunks(r) /\ pc'[r] = "replace"
                  \/ SaveReplace(r) /\ pc'[r] = "put"
                  \/ Put(r) /\ pc'[r] = "respond"
                  \/ Respond(r) /\ pc'[r] = "commit"
                  \/ pc'[r] = "done"
  BY DEF Shape, TypeOK, UploadLabels, Upload, AllocateId, AllocateFails, SaveOpen, SaveChunks,
     SaveTooLarge, SaveError, SaveReplace, DetectFails, Put, PutConflict, Respond, Commit, CommitFails,
     Goto, Reply, Running, Resumes, storage

\* The label a fetch's own step takes it to.
LEMMA FetchGoes ==
  ASSUME Shape, NEW r \in Reqs, Fetch(r)
  PROVE  /\ pc[r] \in FetchLabels \cup PeekLabels
         /\ UNCHANGED <<req, generated>>
         /\ \/ CheckMeta(r) /\ pc'[r] \in {"raw", "exists"}
            \/ PathExists(r) /\ pc'[r] = "mark"
            \/ CountFetch(r) /\ pc'[r] = "consume"
            \/ pc'[r] \in {"open", "body", "done"}
  BY DEF Shape, TypeOK, FetchLabels, PeekLabels, Fetch, CheckMeta, CheckRaw, PathExists, CountFetch,
     ConsumeOneShot, OpenBody, EndBody, Goto, Reply, Serve, Running, Resumes, storage

\* The label a delete's own step takes it to.
LEMMA DeleteGoes ==
  ASSUME Shape, NEW r \in Reqs, Delete(r)
  PROVE  /\ pc[r] \in DeleteLabels
         /\ UNCHANGED <<req, generated>>
         /\ \/ Authorize(r) /\ pc'[r] = "softdel"
            \/ DeleteRow(r) /\ pc'[r] = "unlink"
            \/ (Authorize(r) \/ DeleteFile(r) \/ DeleteFileFails(r)) /\ pc'[r] = "done"
  BY DEF Shape, TypeOK, DeleteLabels, Delete, Authorize, DeleteRow, DeleteFile, DeleteFileFails,
     Goto, Reply, Running, storage

\* A refusal, a lock timeout or a database error ends a handler that holds
\* the event loop, and changes nothing else.
LEMMA RefusalGoes ==
  ASSUME Shape, NEW r \in Reqs, Refuse(r) \/ LockedOut(r) \/ DbError(r)
  PROVE  /\ pc[r] \in OnLoopLabels /\ loop[req[r].proc] = r
         /\ pc'[r] = "done" /\ status'[r] \in {"refused", "error"}
         /\ UNCHANGED <<req, storage, meta, now, cw>>
  BY DEF Shape, TypeOK, OnLoopLabels, Refuse, LockedOut, DbError, Reply, Goto, Running

\* A crash ends requests of its process, and touches neither table nor disk.
LEMMA CrashGoes ==
  ASSUME Shape, NEW p \in Procs, Crash(p)
  PROVE  /\ \A r \in Reqs : \/ pc'[r] = pc[r]
                            \/ pc[r] \notin {"idle", "done"} /\ pc'[r] = "done"
         /\ \A r \in Reqs : pc'[r] = pc[r] => (pc[r] \in {"idle", "done"} \/ req[r].proc # p)
         /\ loop' = [loop EXCEPT ![p] = None] /\ cw' = [cw EXCEPT ![p] = Asleep]
         /\ UNCHANGED <<files, disk, part, generated, now, req, meta, status>>
  BY DEF Shape, TypeOK, Crash

\* Only an upload runs the handler of an upload.
LEMMA UploadKind ==
  ASSUME Shape, NEW r \in Reqs, Upload(r)
  PROVE  req[r].kind = "upload" /\ req'[r].kind = "upload"
<1>1. pc[r] \in UploadLabels /\ pc[r] # "idle" /\ req[r].kind = "upload" /\ req[r] \in Requests
  BY UploadGoes DEF Shape, RequestShape, UploadLabels
<1>2. CASE UNCHANGED req
  BY <1>1, <1>2
<1>3. CASE AllocateId(r)
  <2>1. PICK id \in Ids : req' = [req EXCEPT ![r].id = id]
    BY <1>3 DEF AllocateId
  <2> QED BY <1>1, <2>1 DEF Shape, TypeOK, Requests
<1> QED BY <1>2, <1>3, UploadGoes

\* A delete that is running stands at a label of its handler.
LEMMA DeletesOnly ==
  ASSUME Shape, NEW r \in Reqs, Busy(r), req[r].kind = "delete"
  PROVE  pc[r] \in DeleteLabels
  BY DEF Shape, TypeOK, RequestShape, Busy, Labels, UploadLabels, FetchLabels, PeekLabels, DeleteLabels

\* An id that an upload was given stays its id, and an upload is given an id
\* that was never given before.
LEMMA OwnsStep ==
  ASSUME Shape, FreshIds, [Next]_vars, NEW r \in Reqs, NEW id \in Ids
  PROVE  /\ Owns(r, id) => Owns(r, id)'
         /\ Owns(r, id)' => \/ Owns(r, id)
                            \/ AllocateId(r) /\ id \notin generated /\ id \in generated'
         /\ pc[r] = "done" => pc'[r] = "done"
         /\ generated \subseteq generated'
<1>1. CASE \E s \in Reqs : Arrive(s)
  <2>1. PICK s \in Reqs : Arrive(s)
    BY <1>1
  <2>2. pc[s] = "idle" /\ UNCHANGED generated
    BY <2>1 DEF Arrive, BeginUpload, BeginFetch, BeginPeek, BeginDelete, Begin, storage
  <2>3. pc'[s] # "idle" /\ (req'[s].kind = "upload" => req'[s].id = None)
    BY <2>1, NoneAssumption DEF Arrive, BeginUpload, BeginFetch, BeginPeek, BeginDelete, Begin, Goto, Shape, TypeOK
  <2>4. r # s => pc'[r] = pc[r] /\ req'[r] = req[r]
    BY <2>1, HandlerOnly DEF Only
  <2> QED BY <2>2, <2>3, <2>4, NoneAssumption DEF Owns
<1>2. CASE \E s \in Reqs : Upload(s)
  <2>1. PICK s \in Reqs : Upload(s)
    BY <1>2
  <2>2. r # s => pc'[r] = pc[r] /\ req'[r] = req[r]
    BY <2>1, HandlerOnly DEF Only, Handler
  <2>3. CASE AllocateId(s)
    <3>1. PICK i \in Ids : /\ i \notin generated
                           /\ generated' = generated \cup {i}
                           /\ req' = [req EXCEPT ![s].id = i]
      BY <2>3 DEF AllocateId, GenerateId
    <3>2. req[s] \in Requests /\ pc[s] = "alloc" /\ req[s].id = None /\ pc'[s] = "save"
      BY <2>3 DEF AllocateId, Running, Goto, Shape, TypeOK, RequestShape
    <3>3. req'[s] = [req[s] EXCEPT !.id = i] /\ req'[s].id = i
      BY <3>1, <3>2 DEF Shape, TypeOK, Requests
    <3> QED BY <2>2, <2>3, <3>1, <3>2, <3>3, NoneAssumption DEF Owns
  <2>4. CASE UNCHANGED <<req, generated>> /\ pc'[s] # "idle"
    BY <2>1, <2>2, <2>4, UploadGoes DEF Owns, UploadLabels
  <2> QED BY <2>1, <2>3, <2>4, UploadGoes
<1>3. CASE \E s \in Reqs : Fetch(s) \/ Delete(s) \/ Refuse(s) \/ LockedOut(s) \/ DbError(s)
  <2>1. PICK s \in Reqs : Fetch(s) \/ Delete(s) \/ Refuse(s) \/ LockedOut(s) \/ DbError(s)
    BY <1>3
  <2>2. r # s => pc'[r] = pc[r] /\ req'[r] = req[r]
    BY <2>1, HandlerOnly DEF Only, Handler
  <2>3. UNCHANGED <<req, generated>> /\ pc'[s] # "idle" /\ pc[s] \notin {"idle", "done"}
    BY <2>1, FetchGoes, DeleteGoes, RefusalGoes
       DEF FetchLabels, PeekLabels, DeleteLabels, OnLoopLabels, storage
  <2> QED BY <2>2, <2>3 DEF Owns
<1>4. CASE (\E p \in Procs : Cleanup(p)) \/ Tick \/ UNCHANGED vars
  BY <1>4, CleanupOnly DEF Owns, handlers
<1>5. CASE \E p \in Procs : Crash(p)
  <2>1. /\ pc'[r] = pc[r] \/ (pc[r] \notin {"idle", "done"} /\ pc'[r] = "done")
        /\ UNCHANGED <<req, generated>>
    BY <1>5, CrashGoes
  <2> QED BY <2>1 DEF Owns
<1> QED BY <1>1, <1>2, <1>3, <1>4, <1>5 DEF Next, Handler

\* A known id stays known.
LEMMA KnownStable ==
  ASSUME Shape, FreshIds, [Next]_vars, NEW id \in Ids, Known(id)
  PROVE  Known(id)'
<1>1. generated \subseteq generated'
  <2>1. CASE \E r \in Reqs : Arrive(r) \/ Handler(r)
    BY <2>1, OwnsStep
  <2> QED BY <2>1, CleanupOnly, CrashGoes DEF Next
<1>2. ASSUME NEW r \in Reqs, Owns(r, id)' PROVE pc'[r] = "done"
  <2>1. Owns(r, id)
    BY <1>2, OwnsStep DEF Known
  <2> QED BY <2>1, OwnsStep DEF Known
<1> QED BY <1>1, <1>2 DEF Known

\* The statements that write the table.
LEMMA TableWriters ==
  ASSUME [Next]_vars
  PROVE  \/ UNCHANGED files
         \/ \E r \in Reqs : Commit(r) \/ CountFetch(r) \/ ConsumeOneShot(r) \/ DeleteRow(r)
         \/ \E p \in Procs : CleanupSoftDelete(p) \/ CleanupHardDelete(p)
<1>1. ASSUME NEW r \in Reqs, Arrive(r) \/ Handler(r)
      PROVE  UNCHANGED files \/ Commit(r) \/ CountFetch(r) \/ ConsumeOneShot(r) \/ DeleteRow(r)
  BY <1>1 DEF Arrive, BeginUpload, BeginFetch, BeginPeek, BeginDelete, Begin, Handler, Refuse, LockedOut,
     DbError, Upload, AllocateId, AllocateFails, SaveOpen, SaveChunks, SaveTooLarge, SaveError, SaveReplace,
     DetectFails, Put, PutConflict, Respond, CommitFails, Fetch, CheckMeta, CheckRaw, PathExists, OpenBody,
     EndBody, Delete, Authorize, DeleteFile, DeleteFileFails, storage
<1>2. ASSUME NEW p \in Procs, Cleanup(p)
      PROVE  UNCHANGED files \/ CleanupSoftDelete(p) \/ CleanupHardDelete(p)
  BY <1>2 DEF Cleanup, CleanupStart, CleanupGet, CleanupUnlink, CleanupSkips, CleanupSelectOld,
     CleanupPass2Fails, CleanupSweep, storage
<1>3. (\E p \in Procs : Crash(p)) \/ Tick \/ UNCHANGED vars => UNCHANGED files
  BY DEF Crash, Tick, vars, storage
<1> QED BY <1>1, <1>2, <1>3 DEF Next

\* Only the commit of an upload brings a row to life, and only the purge
\* takes one away.
LEMMA TableStep ==
  ASSUME Shape, [Next]_vars
  PROVE  /\ Wanes(files, files') \/ \E r \in Reqs : Commit(r)
         /\ \A id \in Ids : files[id] # None /\ files'[id] = None =>
              \E p \in Procs : cw[p].pc = "purge" /\ id \in cw[p].todo
<1>1. files \in Tables /\ now \in Nat
  BY DEF Shape, TypeOK
<1>2. CASE UNCHANGED files
  BY <1>2 DEF Wanes
<1>3. CASE \E r \in Reqs : CountFetch(r) \/ ConsumeOneShot(r) \/ DeleteRow(r)
  <2>1. PICK r \in Reqs : CountFetch(r) \/ ConsumeOneShot(r) \/ DeleteRow(r)
    BY <1>3
  <2>2. req[r].id \in Ids
    BY <2>1 DEF CountFetch, ConsumeOneShot, DeleteRow, Running, Shape, RequestShape, FetchLabels, DeleteLabels
  <2> QED BY <1>1, <2>1, <2>2, MarkFetchedWanes, SoftDeleteWanes DEF CountFetch, ConsumeOneShot, DeleteRow
<1>4. CASE \E p \in Procs : CleanupSoftDelete(p)
  BY <1>1, <1>4, SoftDeleteWanes DEF CleanupSoftDelete, Shape, WorkerShape
<1>5. CASE \E p \in Procs : CleanupHardDelete(p)
  <2>1. PICK p \in Procs : CleanupHardDelete(p)
    BY <1>5
  <2>2. cw[p].todo \in SUBSET Ids
    BY DEF Shape, TypeOK, Workers
  <2> QED BY <1>1, <2>1, <2>2, HardDeleteWanes DEF CleanupHardDelete
<1>6. ASSUME NEW r \in Reqs, Commit(r)
      PROVE  \A id \in Ids : files[id] # None => files'[id] # None
  <2>1. meta[r] # None /\ req[r].id \in Ids
    BY <1>6, NoRowAssumption DEF Commit, Shape, RequestShape, UploadLabels
  <2> QED BY <1>1, <1>6, <2>1 DEF Commit, Tables
<1> QED BY <1>2, <1>3, <1>4, <1>5, <1>6, TableWriters

\* A file appears by the rename of an upload, and goes by the unlink of a
\* DELETE or of a cleanup thread.
LEMMA DiskStep ==
  ASSUME Shape, [Next]_vars, NEW id \in Ids
  PROVE  \/ disk'[id] = disk[id]
         \/ \E r \in Reqs : SaveReplace(r) /\ Owns(r, id) /\ disk'[id] = part[id]
         \/ /\ disk'[id] = None
            /\ \/ \E r \in Reqs : pc[r] = "unlink" /\ req[r].id = id
               \/ \E p \in Procs : cw[p].pc = "unlink" /\ cw[p].fid = id
               \/ \E p \in Procs : cw[p].pc = "sweep" /\ id \in cw[p].todo
<1> USE DEF Shape, TypeOK
<1>1. CASE UNCHANGED disk
  BY <1>1
<1>2. CASE \E r \in Reqs : SaveReplace(r)
  <2>1. PICK r \in Reqs : SaveReplace(r)
    BY <1>2
  <2>2. disk' = [disk EXCEPT ![req[r].id] = part[req[r].id]]
    BY <2>1 DEF SaveReplace
  <2>3. pc[r] = "replace" /\ req[r].kind = "upload" /\ req[r].id \in Ids
    BY <2>1 DEF SaveReplace, Running, RequestShape, UploadLabels
  <2> QED BY <2>1, <2>2, <2>3 DEF Owns
<1>3. CASE \E r \in Reqs : DeleteFile(r)
  BY <1>3 DEF DeleteFile, Running
<1>4. CASE \E p \in Procs : CleanupUnlink(p) \/ CleanupSweep(p)
  BY <1>4 DEF CleanupUnlink, CleanupSweep
<1>5. ASSUME NEW r \in Reqs, Arrive(r) \/ Handler(r)
      PROVE  UNCHANGED disk \/ SaveReplace(r) \/ DeleteFile(r)
  BY <1>5 DEF Arrive, BeginUpload, BeginFetch, BeginPeek, BeginDelete, Begin, Handler, Refuse, LockedOut,
     DbError, Upload, AllocateId, AllocateFails, SaveOpen, SaveChunks, SaveTooLarge, SaveError,
     DetectFails, Put, PutConflict, Respond, Commit, CommitFails, Fetch, CheckMeta, CheckRaw, PathExists,
     CountFetch, ConsumeOneShot, OpenBody, EndBody, Delete, Authorize, DeleteRow, DeleteFileFails, storage
<1>6. ASSUME NEW p \in Procs, Cleanup(p)
      PROVE  UNCHANGED disk \/ CleanupUnlink(p) \/ CleanupSweep(p)
  BY <1>6 DEF Cleanup, CleanupStart, CleanupGet, CleanupSoftDelete, CleanupSkips, CleanupSelectOld,
     CleanupHardDelete, CleanupPass2Fails, storage
<1>7. (\E p \in Procs : Crash(p)) \/ Tick \/ UNCHANGED vars => UNCHANGED disk
  BY DEF Crash, Tick, vars, storage
<1> QED BY <1>1, <1>2, <1>3, <1>4, <1>5, <1>6, <1>7 DEF Next

\* Only the upload an id was given to touches the partial file.
LEMMA PartStep ==
  ASSUME Shape, [Next]_vars, NEW id \in Ids
  PROVE  part'[id] = part[id] \/ \E r \in Reqs : Upload(r) /\ Owns(r, id)
<1> USE DEF Shape, TypeOK
<1>1. CASE UNCHANGED part
  BY <1>1
<1>2. CASE \E r \in Reqs : SaveOpen(r) \/ SaveChunks(r) \/ SaveTooLarge(r) \/ SaveError(r) \/ SaveReplace(r)
  BY <1>2 DEF SaveOpen, SaveChunks, SaveTooLarge, SaveError, SaveReplace, Upload, Running, Owns,
     RequestShape, UploadLabels
<1>3. ASSUME NEW r \in Reqs, Arrive(r) \/ Handler(r)
      PROVE  \/ UNCHANGED part
             \/ SaveOpen(r) \/ SaveChunks(r) \/ SaveTooLarge(r) \/ SaveError(r) \/ SaveReplace(r)
  BY <1>3 DEF Arrive, BeginUpload, BeginFetch, BeginPeek, BeginDelete, Begin, Handler, Refuse, LockedOut,
     DbError, Upload, AllocateId, AllocateFails, DetectFails, Put, PutConflict, Respond, Commit,
     CommitFails, Fetch, CheckMeta, CheckRaw, PathExists, CountFetch, ConsumeOneShot, OpenBody, EndBody,
     Delete, Authorize, DeleteRow, DeleteFile, DeleteFileFails, storage
<1>4. (\E p \in Procs : Cleanup(p) \/ Crash(p)) \/ Tick \/ UNCHANGED vars => UNCHANGED part
  BY CleanupOnly DEF Crash
<1> QED BY <1>1, <1>2, <1>3, <1>4 DEF Next

-----------------------------------------------------------------------------
(***************************************************************************)
(* The inductive invariant                                                 *)
(***************************************************************************)

\* An id that has a row is known: its upload is over.
LEMMA RowIsKnown ==
  ASSUME IInv, NEW id \in Ids, files[id] # None
  PROVE  Known(id)
  BY DEF IInv, IdsAreOwned, UploadStages, Known, Owns, Busy

\* The upload that commits has the id to itself.
LEMMA CommitOwns ==
  ASSUME IInv, NEW r \in Reqs, Commit(r)
  PROVE  /\ req[r].id \in Ids /\ Owns(r, req[r].id) /\ Busy(r) /\ ~Known(req[r].id)
         /\ files' = [files EXCEPT ![req[r].id] = meta[r]]
         /\ meta[r] \in Rows /\ meta[r].sha256 = r /\ meta[r].deleted_at = None
         /\ UNCHANGED <<disk, part, generated, now, req, cw>>
<1>1. pc[r] = "commit" /\ req[r].kind = "upload" /\ req[r].id \in Ids /\ meta[r] \in Rows
  BY DEF Commit, IInv, Shape, RequestShape, UploadLabels
<1>2. Owns(r, req[r].id) /\ Busy(r) /\ ~Known(req[r].id)
  BY <1>1 DEF Owns, Busy, Known
<1> QED BY <1>1, <1>2 DEF Commit, IInv, UploadStages

\* A settled id stays settled.
LEMMA SettledStable ==
  ASSUME IInv, FreshIds, [Next]_vars, NEW id \in Ids, Settled(id)
  PROVE  Settled(id)'
<1>1. Known(id)'
  BY KnownStable DEF Settled, IInv
<1>2. CASE Wanes(files, files')
  BY <1>1, <1>2 DEF Settled, Wanes, Live
<1>3. ASSUME NEW r \in Reqs, Commit(r) PROVE Settled(id)'
  BY <1>1, <1>3, CommitOwns DEF Settled, IInv, Shape, TypeOK, Tables
<1> QED BY <1>2, <1>3, TableStep DEF IInv

\* Whoever unlinks a file unlinks a settled one.
LEMMA UnlinksSettled ==
  ASSUME IInv, [Next]_vars, NEW id \in Ids
  PROVE  \/ disk'[id] = disk[id]
         \/ \E r \in Reqs : SaveReplace(r) /\ Owns(r, id) /\ disk'[id] = part[id]
         \/ disk'[id] = None /\ Settled(id)
<1>1. ASSUME NEW r \in Reqs, pc[r] = "unlink", req[r].id = id PROVE Settled(id)
  BY <1>1 DEF IInv, Shape, RequestShape, DeleteLabels, DeletesSettle
<1>2. ASSUME NEW p \in Procs, \/ cw[p].pc = "unlink" /\ cw[p].fid = id
                              \/ cw[p].pc = "sweep" /\ id \in cw[p].todo
      PROVE  Settled(id)
  BY <1>2 DEF IInv, WorkersHoldKnown, SettledIds
<1> QED BY <1>1, <1>2, DiskStep DEF IInv

\* A handler leaves the event loop to others only when it holds it.
LEMMA HandlerLoop ==
  ASSUME Shape, NEW s \in Reqs, Handler(s)
  PROVE  loop' = loop \/ (loop[req[s].proc] = s /\ loop' = [loop EXCEPT ![req[s].proc] = None])
<1>1. CASE Upload(s)
  BY <1>1 DEF Upload, AllocateId, AllocateFails, SaveOpen, SaveChunks, SaveTooLarge, SaveError,
     SaveReplace, DetectFails, Put, PutConflict, Respond, Commit, CommitFails, Running, Reply, Release
<1>2. CASE Fetch(s)
  BY <1>2 DEF Fetch, CheckMeta, CheckRaw, PathExists, CountFetch, ConsumeOneShot, OpenBody, EndBody,
     Running, Reply, Serve, Release
<1>3. CASE Delete(s)
  BY <1>3 DEF Delete, Authorize, DeleteRow, DeleteFile, DeleteFileFails, Running, Reply, Release
<1>4. CASE Refuse(s) \/ LockedOut(s) \/ DbError(s)
  BY <1>4 DEF Refuse, LockedOut, DbError, Running, Reply, Release
<1> QED BY <1>1, <1>2, <1>3, <1>4 DEF Handler

\* A handler that goes on at a label of the event loop still holds the loop.
LEMMA HandlerKeepsLoop ==
  ASSUME Shape, NEW s \in Reqs, Handler(s), pc'[s] \in OnLoopLabels
  PROVE  loop'[req'[s].proc] = s
<1> USE DEF Shape, TypeOK, OnLoopLabels
<1>0. pc[s] # "idle" => req[s] \in Requests
  BY DEF RequestShape
<1>1. CASE AllocateId(s)
  <2>1. PICK id \in Ids : req' = [req EXCEPT ![s].id = id]
    BY <1>1 DEF AllocateId
  <2>2. req[s] \in Requests /\ loop[req[s].proc] = s /\ loop' = loop
    BY <1>0, <1>1 DEF AllocateId, Running
  <2>3. req'[s].proc = req[s].proc
    BY <2>1, <2>2 DEF Requests
  <2> QED BY <2>2, <2>3
<1>2. CASE Upload(s) /\ ~AllocateId(s)
  BY <1>2 DEF Upload, AllocateFails, SaveOpen, SaveChunks, SaveTooLarge, SaveError,
     SaveReplace, DetectFails, Put, PutConflict, Respond, Commit, CommitFails, Running, Reply, Goto, answers
<1>3. CASE Fetch(s)
  BY <1>3 DEF Fetch, CheckMeta, CheckRaw, PathExists, CountFetch, ConsumeOneShot, OpenBody, EndBody,
     Running, Reply, Serve, Goto, answers
<1>4. CASE Delete(s)
  BY <1>4 DEF Delete, Authorize, DeleteRow, DeleteFile, DeleteFileFails, Running, Reply, Goto, answers
<1>5. CASE Refuse(s) \/ LockedOut(s) \/ DbError(s)
  BY <1>5, RefusalGoes
<1> QED BY <1>1, <1>2, <1>3, <1>4, <1>5 DEF Handler

\* Handlers keep taking turns on the event loop.
LEMMA OneOnLoopStep ==
  ASSUME Shape, OneOnLoop, [Next]_vars
  PROVE  OneOnLoop'
<1> USE DEF Shape, TypeOK
<1> SUFFICES ASSUME NEW r \in Reqs, pc'[r] \in OnLoopLabels
             PROVE  loop'[req'[r].proc] = r
  BY DEF OneOnLoop
<1>1. ASSUME NEW s \in Reqs, Arrive(s) PROVE loop'[req'[r].proc] = r
  <2>1. PICK q \in Requests, l \in {"alloc", "get", "auth"} : Arrives(s, q, l)
    BY <1>1, ArriveBegins
  <2>2. /\ loop[q.proc] = None /\ loop' = [loop EXCEPT ![q.proc] = s]
        /\ req' = [req EXCEPT ![s] = q] /\ pc' = [pc EXCEPT ![s] = l] /\ q.proc \in Procs
    BY <2>1 DEF Arrives, Begin, Goto, Requests
  <2> QED BY <2>2, NoneAssumption DEF OneOnLoop
<1>2. ASSUME NEW s \in Reqs, Handler(s) PROVE loop'[req'[r].proc] = r
  <2>1. CASE r # s
    <3>1. pc'[r] = pc[r] /\ req'[r] = req[r] /\ loop[req[r].proc] = r
      BY <1>2, <2>1, HandlerOnly DEF Only, OneOnLoop
    <3>2. loop' = loop \/ (loop[req[s].proc] = s /\ loop' = [loop EXCEPT ![req[s].proc] = None])
      BY <1>2, HandlerLoop
    <3>3. req[r].proc \in Procs
      BY <3>1 DEF RequestShape, Requests, OnLoopLabels
    <3> QED BY <2>1, <3>1, <3>2, <3>3
  <2>2. CASE r = s
    BY <1>2, <2>2, HandlerKeepsLoop
  <2> QED BY <2>1, <2>2
<1>3. CASE (\E p \in Procs : Cleanup(p)) \/ Tick \/ UNCHANGED vars
  BY <1>3, CleanupOnly DEF OneOnLoop, handlers
<1>4. ASSUME NEW p \in Procs, Crash(p) PROVE loop'[req'[r].proc] = r
  <2>1. pc'[r] = pc[r] /\ req[r].proc # p /\ req'[r] = req[r] /\ loop' = [loop EXCEPT ![p] = None]
    BY <1>4, CrashGoes DEF OnLoopLabels
  <2>2. req[r].proc \in Procs
    BY <2>1 DEF RequestShape, Requests, OnLoopLabels
  <2> QED BY <2>1, <2>2 DEF OneOnLoop
<1> QED BY <1>1, <1>2, <1>3, <1>4 DEF Next

\* An id goes to one upload, and nothing exists under an id nobody owns.
LEMMA IdsAreOwnedStep ==
  ASSUME IInv, FreshIds, [Next]_vars
  PROVE  IdsAreOwned'
<1>1. ASSUME NEW r \in Reqs, NEW id \in Ids, Owns(r, id)' PROVE id \in generated'
  BY <1>1, OwnsStep DEF IInv, IdsAreOwned
<1>2. ASSUME NEW r \in Reqs, NEW s \in Reqs, NEW id \in Ids, Owns(r, id)', Owns(s, id)'
      PROVE  r = s
  <2>1. CASE id \in generated
    BY <1>2, <2>1, OwnsStep DEF IInv, IdsAreOwned
  <2>2. CASE id \notin generated
    <3>1. AllocateId(r) /\ AllocateId(s)
      BY <1>2, <2>2, OwnsStep DEF IInv, IdsAreOwned
    <3> QED BY <3>1 DEF AllocateId, Running, Goto, IInv, Shape, TypeOK
  <2> QED BY <2>1, <2>2
<1>3. ASSUME NEW id \in Ids, files'[id] # None \/ disk'[id] # None \/ part'[id] # None
      PROVE  id \in generated'
  <2>1. generated \subseteq generated'
    <3>1. CASE \E r \in Reqs : Arrive(r) \/ Handler(r)
      BY <3>1, OwnsStep DEF IInv
    <3> QED BY <3>1, CleanupOnly, CrashGoes DEF Next, IInv
  <2>2. CASE files'[id] # None
    <3>1. CASE files[id] # None
      BY <2>1, <3>1 DEF IInv, IdsAreOwned
    <3>2. CASE files[id] = None
      <4>1. PICK r \in Reqs : Commit(r)
        BY <2>2, <3>2, TableStep DEF Wanes, IInv
      <4>2. Owns(r, id)
        BY <2>2, <3>2, <4>1, CommitOwns DEF IInv, Shape, TypeOK, Tables
      <4> QED BY <2>1, <4>2 DEF IInv, IdsAreOwned
    <3> QED BY <3>1, <3>2
  <2>3. CASE disk'[id] # None
    BY <2>1, <2>3, DiskStep DEF IInv, IdsAreOwned
  <2>4. CASE part'[id] # None
    BY <2>1, <2>4, PartStep DEF IInv, IdsAreOwned
  <2> QED BY <1>3, <2>2, <2>3, <2>4
<1> QED BY <1>1, <1>2, <1>3 DEF IdsAreOwned

\* How a busy upload came to the label it stands at after a step.
LEMMA UploadCameFrom ==
  ASSUME Shape, [Next]_vars, NEW r \in Reqs
  PROVE  /\ pc'[r] = "replace" => pc[r] = "replace" \/ SaveChunks(r)
         /\ pc'[r] = "put" => pc[r] = "put" \/ SaveReplace(r)
         /\ pc'[r] = "respond" => Put(r) \/ (pc[r] = "respond" /\ meta'[r] = meta[r])
         /\ pc'[r] = "commit" => pc[r] \in {"respond", "commit"} /\ meta'[r] = meta[r]
<1>1. ASSUME NEW s \in Reqs, Arrive(s) \/ Handler(s), s # r
      PROVE  pc'[r] = pc[r] /\ meta'[r] = meta[r]
  BY <1>1, HandlerOnly DEF Only
<1>2. CASE Arrive(r)
  BY <1>2, ArriveBegins DEF Arrives, Begin, Goto, Shape, TypeOK
<1>3. CASE Handler(r)
  <2>1. CASE Upload(r)
    BY <2>1, UploadGoes DEF Respond, Resumes
  <2>2. CASE Fetch(r) \/ Delete(r) \/ Refuse(r) \/ LockedOut(r) \/ DbError(r)
    BY <2>2, FetchGoes, DeleteGoes, RefusalGoes
  <2> QED BY <1>3, <2>1, <2>2 DEF Handler
<1>4. CASE (\E p \in Procs : Cleanup(p)) \/ Tick \/ UNCHANGED vars
  BY <1>4, CleanupOnly DEF handlers
<1>5. CASE \E p \in Procs : Crash(p)
  BY <1>5, CrashGoes
<1> QED BY <1>1, <1>2, <1>3, <1>4, <1>5 DEF Next

\* An upload keeps what it has in its hands until it is over.
LEMMA UploadStagesStep ==
  ASSUME IInv, FreshIds, [Next]_vars
  PROVE  UploadStages'
<1> SUFFICES ASSUME NEW r \in Reqs, NEW id \in Ids, Owns(r, id)', Busy(r)'
    PROVE /\ files'[id] = None
          /\ pc'[r] = "replace" => part'[id] = Whole(r)
          /\ pc'[r] \in {"put", "respond", "commit"} => disk'[id] = Whole(r)
          /\ pc'[r] \in {"respond", "commit"} =>
               meta'[r].sha256 = r /\ meta'[r].deleted_at = None
  BY DEF UploadStages, Whole
<1>1. CASE AllocateId(r) /\ id \notin generated
  BY <1>1 DEF AllocateId, Goto, IInv, Shape, TypeOK, IdsAreOwned
<1>2. CASE Owns(r, id)
  <2>1. Busy(r) /\ ~Known(id)
    BY <1>2, OwnsStep DEF Busy, Known, Owns, IInv
  <2>2. files'[id] = None
    <3>1. CASE Wanes(files, files')
      BY <1>2, <2>1, <3>1 DEF Wanes, IInv, UploadStages
    <3>2. ASSUME NEW s \in Reqs, Commit(s) PROVE files'[id] = None
      <4>1. CASE req[s].id = id
        <5>1. s = r
          BY <1>2, <3>2, <4>1, CommitOwns DEF IInv, IdsAreOwned
        <5> QED BY <3>2, <5>1 DEF Commit, Goto, Busy, IInv, Shape, TypeOK
      <4>2. CASE req[s].id # id
        BY <1>2, <2>1, <3>2, <4>2, CommitOwns DEF IInv, Shape, TypeOK, Tables, UploadStages
      <4> QED BY <4>1, <4>2
    <3> QED BY <3>1, <3>2, TableStep DEF IInv
  <2>3. ASSUME pc'[r] = "replace" PROVE part'[id] = Whole(r)
    <3>1. CASE SaveChunks(r)
      BY <1>2, <3>1 DEF SaveChunks, Owns, Whole, IInv, Shape, TypeOK
    <3>2. CASE pc[r] = "replace"
      <4>1. part'[id] = part[id]
        <5>1. ASSUME NEW s \in Reqs, Upload(s), Owns(s, id) PROVE FALSE
          <6>1. s = r
            BY <1>2, <5>1 DEF IInv, IdsAreOwned
          <6> QED BY <2>3, <3>2, <5>1, <6>1, UploadGoes DEF IInv, SaveChunks, Running
        <5> QED BY <5>1, PartStep DEF IInv
      <4> QED BY <1>2, <2>1, <3>2, <4>1 DEF IInv, UploadStages
    <3> QED BY <2>3, <3>1, <3>2, UploadCameFrom DEF IInv
  <2>4. ASSUME pc'[r] \in {"put", "respond", "commit"} PROVE disk'[id] = Whole(r)
    <3>1. CASE SaveReplace(r)
      BY <1>2, <2>1, <3>1 DEF SaveReplace, Running, Owns, IInv, Shape, TypeOK, UploadStages
    <3>2. CASE pc[r] \in {"put", "respond", "commit"}
      <4>1. ASSUME NEW s \in Reqs, SaveReplace(s), Owns(s, id) PROVE FALSE
        BY <1>2, <3>2, <4>1 DEF SaveReplace, Running, IInv, IdsAreOwned
      <4>2. disk'[id] = disk[id]
        BY <2>1, <4>1, UnlinksSettled DEF Settled
      <4> QED BY <1>2, <2>1, <3>2, <4>2 DEF IInv, UploadStages
    <3>3. SaveReplace(r) \/ pc[r] \in {"put", "respond", "commit"}
      BY <2>4, UploadCameFrom DEF IInv, Put, Running
    <3> QED BY <3>1, <3>2, <3>3
  <2>5. ASSUME pc'[r] \in {"respond", "commit"}
        PROVE  meta'[r].sha256 = r /\ meta'[r].deleted_at = None
    <3>1. CASE Put(r)
      BY <3>1 DEF Put, NewRow, IInv, Shape, TypeOK
    <3>2. CASE pc[r] \in {"respond", "commit"} /\ meta'[r] = meta[r]
      BY <1>2, <2>1, <3>2 DEF IInv, UploadStages
    <3> QED BY <2>5, <3>1, <3>2, UploadCameFrom DEF IInv
  <2> QED BY <2>2, <2>3, <2>4, <2>5
<1> QED BY <1>1, <1>2, OwnsStep DEF IInv

\* Bytes reach the canonical path by the rename of a whole file only.
LEMMA NoHalfWrittenStep ==
  ASSUME IInv, [Next]_vars
  PROVE  NoHalfWritten'
<1> SUFFICES ASSUME NEW id \in Ids, disk'[id] # None PROVE disk'[id].whole
  BY DEF NoHalfWritten
<1>1. CASE disk'[id] = disk[id]
  BY <1>1 DEF IInv, NoHalfWritten
<1>2. ASSUME NEW r \in Reqs, SaveReplace(r), Owns(r, id), disk'[id] = part[id]
      PROVE  disk'[id].whole
  <2>1. part[id] = Whole(r)
    BY <1>2 DEF SaveReplace, Running, Busy, IInv, UploadStages
  <2> QED BY <1>2, <2>1 DEF Whole
<1> QED BY <1>1, <1>2, UnlinksSettled

\* A live row keeps its file, and a row that comes to life has one.
LEMMA LiveFileBackedStep ==
  ASSUME IInv, FreshIds, [Next]_vars
  PROVE  LiveFileBacked'
<1> SUFFICES ASSUME NEW id \in Ids, Live(files'[id])
             PROVE  disk'[id] = Whole(files'[id].sha256)
  BY DEF LiveFileBacked, Whole, Live
<1>1. ASSUME Live(files[id]), files'[id].sha256 = files[id].sha256
      PROVE  disk'[id] = Whole(files'[id].sha256)
  <2>1. ~Settled(id)
    BY <1>1 DEF Settled
  <2>2. ASSUME NEW r \in Reqs, SaveReplace(r), Owns(r, id) PROVE FALSE
    BY <1>1, <2>2 DEF SaveReplace, Running, Busy, Live, IInv, UploadStages
  <2>3. disk'[id] = disk[id]
    BY <2>1, <2>2, UnlinksSettled
  <2> QED BY <1>1, <2>3 DEF IInv, LiveFileBacked
<1>2. CASE Wanes(files, files')
  BY <1>1, <1>2 DEF Wanes, Live
<1>3. ASSUME NEW r \in Reqs, Commit(r) PROVE disk'[id] = Whole(files'[id].sha256)
  <2>1. CASE req[r].id = id
    <3>1. files'[id] = meta[r] /\ disk'[id] = disk[id] /\ meta[r].sha256 = r
      BY <1>3, <2>1, CommitOwns DEF IInv, Shape, TypeOK, Tables
    <3>2. disk[id] = Whole(r)
      BY <1>3, <2>1, CommitOwns DEF Commit, IInv, UploadStages
    <3> QED BY <3>1, <3>2
  <2>2. CASE req[r].id # id
    BY <1>1, <1>3, <2>2, CommitOwns DEF IInv, Shape, TypeOK, Tables
  <2> QED BY <2>1, <2>2
<1> QED BY <1>2, <1>3, TableStep DEF IInv

\* A tombstone only ever leaves the table.
LEMMA TombstoneStep ==
  ASSUME IInv, [Next]_vars, NEW id \in Ids, Tombstone(files[id]), files'[id] # None
  PROVE  Tombstone(files'[id]) /\ files'[id].deleted_at = files[id].deleted_at
<1>1. CASE Wanes(files, files')
  BY <1>1 DEF Wanes, Tombstone
<1>2. ASSUME NEW r \in Reqs, Commit(r) PROVE files'[id] = files[id]
  BY <1>2, CommitOwns, RowIsKnown DEF Tombstone, IInv, Shape, TypeOK, Tables
<1> QED BY <1>1, <1>2, TableStep DEF IInv, Tombstone

\* Requests are answered by the step that ends their handler.
LEMMA UnansweredStep ==
  ASSUME IInv, [Next]_vars
  PROVE  Unanswered'
<1> USE DEF IInv, Shape, TypeOK
<1> DEFINE L == {"idle", "get", "raw", "exists", "mark", "consume", "auth", "softdel", "unlink"}
<1> SUFFICES ASSUME NEW r \in Reqs, pc'[r] \in L PROVE status'[r] = "none"
  BY DEF Unanswered
<1>1. pc[r] \in L => status[r] = "none"
  BY DEF Unanswered
<1>2. ASSUME NEW s \in Reqs, Arrive(s) \/ Handler(s), s # r PROVE status'[r] = "none"
  BY <1>1, <1>2, HandlerOnly DEF Only
<1>3. CASE Arrive(r)
  BY <1>1, <1>3 DEF Arrive, BeginUpload, BeginFetch, BeginPeek, BeginDelete, Begin, answers
<1>4. CASE Upload(r)
  BY <1>4, UploadGoes
<1>5. CASE Fetch(r)
  <2>1. CASE /\ CheckMeta(r) /\ pc'[r] \in {"raw", "exists"}
    BY <1>1, <2>1 DEF CheckMeta, Reply, Goto, Running, answers
  <2>2. CASE PathExists(r) /\ pc'[r] = "mark"
    BY <1>1, <2>2 DEF PathExists, Reply, Goto, Running, answers
  <2>3. CASE CountFetch(r) /\ pc'[r] = "consume"
    BY <1>1, <2>3 DEF CountFetch, Serve, Goto, Running, answers
  <2> QED BY <1>5, <2>1, <2>2, <2>3, FetchGoes
<1>6. CASE Delete(r)
  <2>1. CASE Authorize(r) /\ pc'[r] = "softdel"
    BY <1>1, <2>1 DEF Authorize, Reply, Goto, Running, answers
  <2>2. CASE DeleteRow(r) /\ pc'[r] = "unlink"
    BY <1>1, <2>2 DEF DeleteRow, Goto, Running, answers
  <2> QED BY <1>6, <2>1, <2>2, DeleteGoes
<1>7. CASE Refuse(r) \/ LockedOut(r) \/ DbError(r)
  BY <1>7, RefusalGoes
<1>8. CASE (\E p \in Procs : Cleanup(p)) \/ Tick \/ UNCHANGED vars
  BY <1>1, <1>8, CleanupOnly DEF handlers
<1>9. CASE \E p \in Procs : Crash(p)
  BY <1>1, <1>9, CrashGoes
<1> QED BY <1>2, <1>3, <1>4, <1>5, <1>6, <1>7, <1>8, <1>9 DEF Next, Handler

\* What a cleanup thread moves on with keeps the invariant of the threads, and
\* what the others hold stays known, or settled.
LEMMA WorkerHolds ==
  ASSUME IInv, FreshIds, [Next]_vars, NEW p \in Procs,
         NEW l \in {"sleep", "expire", "soft", "unlink", "purge", "sweep"},
         NEW todo, NEW fid, Worker(p, l, todo, fid),
         l \in {"expire", "soft", "unlink"} => todo \subseteq KnownIds,
         l = "soft" => fid \in KnownIds,
         l = "unlink" => fid \in SettledIds',
         l \in {"purge", "sweep"} => todo \subseteq SettledIds
  PROVE  WorkersHoldKnown'
<1>1. KnownIds \subseteq KnownIds'
  BY KnownStable DEF IInv, KnownIds
<1>2. SettledIds \subseteq SettledIds'
  BY SettledStable DEF SettledIds
<1>3. cw'[p].pc = l /\ cw'[p].todo = todo /\ cw'[p].fid = fid
  BY DEF Worker, IInv, Shape, TypeOK
<1>4. \A q \in Procs \ {p} : cw'[q] = cw[q]
  BY DEF Worker, IInv, Shape, TypeOK
<1> QED BY <1>1, <1>2, <1>3, <1>4 DEF WorkersHoldKnown, IInv

\* The cleanup threads take up known ids, and unlink or purge settled ones.
LEMMA WorkersHoldKnownStep ==
  ASSUME IInv, FreshIds, [Next]_vars
  PROVE  WorkersHoldKnown'
<1>1. KnownIds \subseteq KnownIds' /\ SettledIds \subseteq SettledIds'
  BY KnownStable, SettledStable DEF IInv, KnownIds, SettledIds
<1>2. CASE UNCHANGED cw
  BY <1>1, <1>2 DEF WorkersHoldKnown, IInv
<1>3. ASSUME NEW p \in Procs, Crash(p) PROVE WorkersHoldKnown'
  <2>1. cw' = [cw EXCEPT ![p] = Asleep] /\ Asleep.pc = "sleep"
    BY <1>3 DEF Crash, Asleep
  <2> QED BY <1>1, <2>1 DEF WorkersHoldKnown, IInv, Shape, TypeOK
<1>4. ASSUME NEW p \in Procs, Cleanup(p) PROVE WorkersHoldKnown'
  <2>1. /\ cw[p].pc \in {"expire", "soft", "unlink"} => cw[p].todo \subseteq KnownIds
        /\ cw[p].pc = "soft" => cw[p].fid \in KnownIds
        /\ cw[p].pc = "unlink" => cw[p].fid \in SettledIds
        /\ cw[p].pc \in {"purge", "sweep"} => cw[p].todo \subseteq SettledIds
    BY DEF WorkersHoldKnown, IInv
  <2>2. CASE CleanupStart(p)
    <3>1. PICK ids \in Batches(ExpiredIds(files, now)) : Worker(p, "expire", ids, None)
      BY <2>2 DEF CleanupStart
    <3>2. ids \subseteq KnownIds
      BY BatchesSubset, RowIsKnown DEF ExpiredIds, Live, KnownIds
    <3> QED BY <3>1, <3>2, WorkerHolds
  <2>3. CASE CleanupGet(p)
    <3>1. PICK fid \in cw[p].todo : \/ Worker(p, "expire", cw[p].todo \ {fid}, None)
                                    \/ Worker(p, "soft", cw[p].todo \ {fid}, fid)
      BY <2>3 DEF CleanupGet
    <3>2. cw[p].todo \ {fid} \subseteq KnownIds /\ fid \in KnownIds
      BY <2>1, <2>3 DEF CleanupGet
    <3> QED BY <3>1, <3>2, WorkerHolds
  <2>4. CASE CleanupSoftDelete(p)
    <3>1. cw[p].fid \in Ids /\ cw[p].fid \in KnownIds' /\ cw[p].todo \subseteq KnownIds
      BY <1>1, <2>1, <2>4 DEF CleanupSoftDelete, KnownIds
    <3>2. ~Live(files'[cw[p].fid])
      BY <2>4, <3>1, SoftDeleteWanes DEF CleanupSoftDelete, IInv, Shape, TypeOK
    <3>3. cw[p].fid \in SettledIds'
      BY <3>1, <3>2 DEF KnownIds, SettledIds, Settled
    <3>4. Worker(p, "unlink", cw[p].todo, cw[p].fid)
      BY <2>4 DEF CleanupSoftDelete
    <3> QED BY <3>1, <3>3, <3>4, WorkerHolds
  <2>5. CASE CleanupUnlink(p) \/ CleanupSkips(p)
    <3>1. Worker(p, "expire", cw[p].todo, None) /\ cw[p].todo \subseteq KnownIds
      BY <2>1, <2>5 DEF CleanupUnlink, CleanupSkips
    <3> QED BY <3>1, WorkerHolds
  <2>6. CASE CleanupSelectOld(p)
    <3>1. PICK ids \in Batches(OldTombstones(files, now)) :
            Worker(p, "sleep", ids, None) \/ Worker(p, "purge", ids, None)
      BY <2>6 DEF CleanupSelectOld
    <3>2. ids \subseteq SettledIds
      BY BatchesSubset, RowIsKnown DEF OldTombstones, Tombstone, Live, Settled, SettledIds
    <3> QED BY <3>1, <3>2, WorkerHolds
  <2>7. CASE CleanupHardDelete(p) \/ CleanupPass2Fails(p)
    <3>1. Worker(p, "sweep", cw[p].todo, None) \/ Worker(p, "sleep", {}, None)
      BY <2>7 DEF CleanupHardDelete, CleanupPass2Fails
    <3>2. cw[p].todo \subseteq SettledIds
      BY <2>1, <2>7 DEF CleanupHardDelete, CleanupPass2Fails
    <3> QED BY <3>1, <3>2, WorkerHolds
  <2>8. CASE CleanupSweep(p)
    <3>1. PICK fid \in cw[p].todo : \/ Worker(p, "sleep", cw[p].todo \ {fid}, None)
                                    \/ Worker(p, "sweep", cw[p].todo \ {fid}, None)
      BY <2>8 DEF CleanupSweep
    <3>2. cw[p].todo \ {fid} \subseteq SettledIds
      BY <2>1, <2>8 DEF CleanupSweep
    <3> QED BY <3>1, <3>2, WorkerHolds
  <2> QED BY <1>4, <2>2, <2>3, <2>4, <2>5, <2>6, <2>7, <2>8 DEF Cleanup
<1>5. CASE \E r \in Reqs : Arrive(r) \/ Handler(r)
  BY <1>2, <1>5, HandlersKeepWorkers
<1>6. CASE Tick
  BY <1>2, <1>6 DEF Tick
<1> QED BY <1>2, <1>3, <1>4, <1>5, <1>6 DEF Next, vars

\* The clock does not go back.
LEMMA ClockStep ==
  ASSUME Shape, [Next]_vars
  PROVE  now' = now \/ now' = now + 1
<1>1. ASSUME NEW r \in Reqs, Arrive(r) \/ Handler(r) PROVE now' = now
  BY <1>1 DEF Arrive, BeginUpload, BeginFetch, BeginPeek, BeginDelete, Begin, Handler, Refuse, LockedOut,
     DbError, Upload, AllocateId, AllocateFails, SaveOpen, SaveChunks, SaveTooLarge, SaveError, SaveReplace,
     DetectFails, Put, PutConflict, Respond, Commit, CommitFails, Fetch, CheckMeta, CheckRaw, PathExists,
     CountFetch, ConsumeOneShot, OpenBody, EndBody, Delete, Authorize, DeleteRow, DeleteFile, DeleteFileFails
<1>2. ASSUME NEW p \in Procs, Cleanup(p) PROVE now' = now
  BY <1>2 DEF Cleanup, CleanupStart, CleanupGet, CleanupSoftDelete, CleanupUnlink, CleanupSkips,
     CleanupSelectOld, CleanupHardDelete, CleanupPass2Fails, CleanupSweep
<1> QED BY <1>1, <1>2 DEF Next, Crash, Tick, vars

\* What is about to be purged was an old tombstone when it was selected, and
\* is one or is gone whenever the DELETE runs.
LEMMA PurgeIsOldStep ==
  ASSUME IInv, [Next]_vars
  PROVE  PurgeIsOld'
<1> USE DEF IInv, Shape, TypeOK
<1> SUFFICES ASSUME NEW p \in Procs, cw'[p].pc = "purge", NEW id \in cw'[p].todo, files'[id] # None
             PROVE  Tombstone(files'[id]) /\ files'[id].deleted_at + Grace < now'
  BY DEF PurgeIsOld
<1>1. ASSUME id \in Ids, Tombstone(files[id]), files[id].deleted_at + Grace < now
      PROVE  Tombstone(files'[id]) /\ files'[id].deleted_at + Grace < now'
  <2>1. files[id].deleted_at \in Nat
    BY <1>1 DEF Tables, Rows, Tombstone
  <2>2. now' = now \/ now' = now + 1
    BY ClockStep
  <2>3. Tombstone(files'[id]) /\ files'[id].deleted_at = files[id].deleted_at
    BY <1>1, TombstoneStep
  <2> QED BY <1>1, <2>1, <2>2, <2>3, GraceAssumption
<1>2. CASE cw[p] = cw'[p]
  <2>1. id \in SettledIds
    BY <1>2 DEF WorkersHoldKnown
  <2>2. files[id] # None
    <3>1. CASE Wanes(files, files')
      BY <2>1, <3>1 DEF Wanes, SettledIds
    <3>2. ASSUME NEW r \in Reqs, Commit(r) PROVE files'[id] = files[id]
      BY <2>1, <3>2, CommitOwns DEF SettledIds, Settled, Tables
    <3> QED BY <3>1, <3>2, TableStep
  <2> QED BY <1>1, <1>2, <2>1, <2>2 DEF PurgeIsOld, SettledIds
<1>3. CASE CleanupSelectOld(p)
  <2>1. PICK ids \in Batches(OldTombstones(files, now)) :
          Worker(p, "sleep", ids, None) \/ Worker(p, "purge", ids, None)
    BY <1>3 DEF CleanupSelectOld
  <2>2. id \in ids
    BY <2>1 DEF Worker
  <2> QED BY <1>1, <2>2, BatchesSubset DEF OldTombstones
<1>4. ASSUME NEW q \in Procs, Cleanup(q), ~CleanupSelectOld(p)
      PROVE  cw'[p] = cw[p]
  BY <1>4 DEF Cleanup, CleanupStart, CleanupGet, CleanupSoftDelete, CleanupUnlink, CleanupSkips,
     CleanupSelectOld, CleanupHardDelete, CleanupPass2Fails, CleanupSweep, Worker
<1>5. ASSUME NEW q \in Procs, Crash(q)
      PROVE  cw'[p] = cw[p]
  BY <1>5 DEF Crash, Asleep
<1>6. (\E r \in Reqs : Arrive(r) \/ Handler(r)) \/ Tick \/ UNCHANGED vars => UNCHANGED cw
  BY HandlersKeepWorkers DEF Tick, vars
<1> QED BY <1>2, <1>3, <1>4, <1>5, <1>6 DEF Next

\* A fetch that is admitted was looked up in this step or before.
LEMMA AdmittedFrom ==
  ASSUME IInv, [Next]_vars, NEW r \in Reqs, pc'[r] \in {"exists", "mark", "consume"}
  PROVE  /\ req'[r] = req[r]
         /\ \/ CheckMeta(r) /\ pc'[r] = "exists"
            \/ pc[r] \in {"exists", "mark", "consume"} /\ meta'[r] = meta[r]
<1> USE DEF IInv, Shape, TypeOK
<1>1. CASE pc'[r] = pc[r] /\ req'[r] = req[r] /\ meta'[r] = meta[r]
  BY <1>1
<1>2. ASSUME NEW s \in Reqs, Arrive(s) \/ Handler(s), s # r
      PROVE  pc'[r] = pc[r] /\ req'[r] = req[r] /\ meta'[r] = meta[r]
  BY <1>2, HandlerOnly DEF Only
<1>3. ASSUME Arrive(r) PROVE FALSE
  BY <1>3, ArriveBegins DEF Arrives, Begin, Goto
<1>4. ASSUME Upload(r) PROVE FALSE
  BY <1>4, UploadGoes
<1>5. CASE Fetch(r)
  <2>1. CASE CheckMeta(r) /\ pc'[r] \in {"raw", "exists"}
    BY <1>5, <2>1, FetchGoes
  <2>2. CASE PathExists(r) /\ pc'[r] = "mark"
    BY <1>5, <2>2, FetchGoes DEF PathExists, Running, Reply
  <2>3. CASE CountFetch(r) /\ pc'[r] = "consume"
    BY <1>5, <2>3, FetchGoes DEF CountFetch, Running
  <2> QED BY <1>5, <2>1, <2>2, <2>3, FetchGoes
<1>6. ASSUME Delete(r) PROVE FALSE
  BY <1>6, DeleteGoes
<1>7. ASSUME Refuse(r) \/ LockedOut(r) \/ DbError(r) PROVE FALSE
  BY <1>7, RefusalGoes
<1>8. CASE (\E p \in Procs : Cleanup(p)) \/ Tick \/ UNCHANGED vars
  BY <1>1, <1>8, CleanupOnly DEF handlers
<1>9. CASE \E p \in Procs : Crash(p)
  BY <1>9, CrashGoes
<1> QED BY <1>1, <1>2, <1>3, <1>4, <1>5, <1>6, <1>7, <1>8, <1>9 DEF Next, Handler

\* A DELETE that goes on has found a row, and one that succeeds has left a
\* settled id behind.
LEMMA DeletesSettleStep ==
  ASSUME IInv, FreshIds, [Next]_vars
  PROVE  DeletesSettle'
<1> USE DEF IInv, Shape, TypeOK
<1> SUFFICES ASSUME NEW r \in Reqs, pc'[r] # "idle", req'[r].kind = "delete"
             PROVE  /\ pc'[r] = "softdel" => req'[r].id \in KnownIds'
                    /\ pc'[r] = "unlink" => req'[r].id \in SettledIds'
                    /\ pc'[r] = "done" /\ status'[r] \in {"ok", "already"}
                       => req'[r].id \in SettledIds'
  BY DEF DeletesSettle, KnownIds, SettledIds
<1>1. KnownIds \subseteq KnownIds' /\ SettledIds \subseteq SettledIds'
  BY KnownStable, SettledStable DEF KnownIds, SettledIds
<1>2. pc[r] # "idle" /\ req[r].kind = "delete" =>
        /\ req[r].id \in Ids
        /\ pc[r] = "softdel" => req[r].id \in KnownIds
        /\ pc[r] = "unlink" => req[r].id \in SettledIds
        /\ pc[r] = "done" /\ status[r] \in {"ok", "already"} => req[r].id \in SettledIds
  BY DEF RequestShape, DeletesSettle, KnownIds, SettledIds
<1>3. CASE pc'[r] = pc[r] /\ req'[r] = req[r] /\ status'[r] = status[r]
  BY <1>1, <1>2, <1>3
<1>4. ASSUME NEW s \in Reqs, Arrive(s) \/ Handler(s), s # r
      PROVE  pc'[r] = pc[r] /\ req'[r] = req[r] /\ status'[r] = status[r]
  BY <1>4, HandlerOnly DEF Only
<1>5. Arrive(r) => pc'[r] \in {"alloc", "get", "auth"}
  BY ArriveBegins DEF Arrives, Begin, Goto
<1>6. ASSUME Upload(r) PROVE FALSE
  BY <1>6, UploadKind
<1>7. ASSUME Fetch(r) PROVE FALSE
  BY <1>7, FetchGoes DEF FetchLabels, PeekLabels, RequestShape
<1>8. CASE Delete(r)
  <2>1. req'[r] = req[r] /\ pc[r] \in DeleteLabels /\ req[r].id \in Ids
    BY <1>2, <1>8, DeleteGoes DEF DeleteLabels
  <2>2. CASE Authorize(r)
    <3>1. CASE pc'[r] = "softdel"
      <4>1. files[req[r].id] # None
        BY <2>2, <3>1 DEF Authorize, GetRaw, Reply, Goto
      <4> QED BY <1>1, <2>1, <3>1, <4>1, RowIsKnown DEF KnownIds
    <3>2. CASE pc'[r] = "done" /\ status'[r] \in {"ok", "already"}
      <4>1. files[req[r].id] # None /\ Tombstone(files[req[r].id])
        BY <2>2, <3>2 DEF Authorize, GetRaw, Reply, Goto
      <4>2. req[r].id \in SettledIds
        BY <2>1, <4>1, RowIsKnown DEF SettledIds, Settled, Tombstone, Live
      <4> QED BY <1>1, <2>1, <3>2, <4>2
    <3>3. pc'[r] \in {"softdel", "done"}
      BY <2>2 DEF Authorize, Reply, Goto
    <3> QED BY <3>1, <3>2, <3>3
  <2>3. CASE DeleteRow(r)
    <3>1. pc'[r] = "unlink" /\ req[r].id \in KnownIds
      BY <1>2, <2>3 DEF DeleteRow, Goto, Running, RequestShape, DeleteLabels
    <3>2. ~Live(files'[req[r].id])
      BY <2>1, <2>3, SoftDeleteWanes DEF DeleteRow
    <3>3. req[r].id \in SettledIds'
      BY <1>1, <2>1, <3>1, <3>2 DEF KnownIds, SettledIds, Settled
    <3> QED BY <2>1, <3>1, <3>3
  <2>4. CASE DeleteFile(r) \/ DeleteFileFails(r)
    <3>1. pc'[r] = "done" /\ req[r].id \in SettledIds
      BY <1>2, <2>1, <2>4 DEF DeleteFile, DeleteFileFails, Reply, Goto, Running
    <3> QED BY <1>1, <2>1, <3>1
  <2> QED BY <1>8, <2>2, <2>3, <2>4 DEF Delete
<1>9. CASE Refuse(r) \/ LockedOut(r) \/ DbError(r)
  BY <1>9, RefusalGoes
<1>10. CASE (\E p \in Procs : Cleanup(p)) \/ Tick \/ UNCHANGED vars
  BY <1>3, <1>10, CleanupOnly DEF handlers
<1>11. CASE \E p \in Procs : Crash(p)
  <2>1. /\ pc'[r] = pc[r] \/ (pc[r] \notin {"idle", "done"} /\ pc'[r] = "done")
        /\ req'[r] = req[r] /\ status'[r] = status[r]
    BY <1>11, CrashGoes
  <2>2. CASE pc'[r] = pc[r]
    BY <1>3, <2>1, <2>2
  <2>3. CASE pc[r] \notin {"idle", "done"} /\ pc'[r] = "done"
    <3>1. pc[r] \in DeleteLabels
      BY <2>1, <2>3, DeletesOnly DEF Busy
    <3>2. status[r] = "none"
      BY <3>1 DEF Unanswered, DeleteLabels
    <3> QED BY <2>1, <2>3, <3>2
  <2> QED BY <2>1, <2>2, <2>3
<1> QED BY <1>3, <1>4, <1>5, <1>6, <1>7, <1>8, <1>9, <1>10, <1>11 DEF Next, Handler

\* The initial state satisfies the invariant.
LEMMA IInvInit == Init => IInv
<1> SUFFICES ASSUME Init PROVE IInv
  OBVIOUS
<1>1. Shape
  BY ShapeInit
<1>2. \A r \in Reqs : pc[r] = "idle" /\ status[r] = "none"
  BY DEF Init
<1>3. \A id \in Ids : files[id] = None /\ disk[id] = None /\ part[id] = None
  BY DEF Init
<1>4. \A p \in Procs : cw[p].pc = "sleep"
  BY DEF Init, Asleep
<1>5. OneOnLoop /\ Unanswered /\ UploadStages /\ DeletesSettle
  BY <1>2 DEF OneOnLoop, OnLoopLabels, Unanswered, UploadStages, DeletesSettle, Busy
<1>6. IdsAreOwned /\ NoHalfWritten /\ LiveFileBacked
  BY <1>2, <1>3 DEF IdsAreOwned, Owns, NoHalfWritten, LiveFileBacked, Live
<1>7. WorkersHoldKnown /\ PurgeIsOld
  BY <1>4 DEF WorkersHoldKnown, PurgeIsOld
<1> QED BY <1>1, <1>5, <1>6, <1>7 DEF IInv

\* Every step keeps the invariant, as long as ids are fresh.
LEMMA IInvStep ==
  ASSUME IInv, FreshIds, [Next]_vars
  PROVE  IInv'
<1>1. Shape' /\ OneOnLoop'
  BY ShapeStep, OneOnLoopStep DEF IInv
<1> QED BY <1>1, IdsAreOwnedStep, UnansweredStep, UploadStagesStep, NoHalfWrittenStep,
           LiveFileBackedStep, WorkersHoldKnownStep, PurgeIsOldStep, DeletesSettleStep DEF IInv

-----------------------------------------------------------------------------
(***************************************************************************)
(* Without fresh ids                                                       *)
(***************************************************************************)

OneProcess == \A p, q \in Procs : p = q

\* An upload that has its id keeps it.
LEMMA SameUpload ==
  ASSUME Shape, [Next]_vars, NEW r \in Reqs, pc'[r] \in UploadLabels \ {"alloc", "save"}
  PROVE  req'[r] = req[r]
<1>1. ASSUME NEW s \in Reqs, Arrive(s) \/ Handler(s), s # r
      PROVE  req'[r] = req[r]
  BY <1>1, HandlerOnly DEF Only
<1>2. ASSUME Arrive(r) PROVE FALSE
  BY <1>2, ArriveBegins DEF Arrives, Begin, Goto, Shape, TypeOK, UploadLabels
<1>3. CASE Handler(r)
  BY <1>3, UploadGoes, FetchGoes, DeleteGoes, RefusalGoes DEF Handler
<1>4. CASE (\E p \in Procs : Cleanup(p)) \/ Tick \/ UNCHANGED vars
  BY <1>4, CleanupOnly DEF handlers
<1>5. CASE \E p \in Procs : Crash(p)
  BY <1>5, CrashGoes
<1> QED BY <1>1, <1>2, <1>3, <1>4, <1>5 DEF Next

\* The statements that take the write lock or give it back.
LEMMA LockStep ==
  ASSUME Shape, [Next]_vars
  PROVE  \/ UNCHANGED writer
         \/ \E r \in Reqs : Put(r) \/ Commit(r) \/ CommitFails(r)
         \/ \E p \in Procs : Crash(p)
<1>1. ASSUME NEW r \in Reqs, Arrive(r) \/ Handler(r)
      PROVE  UNCHANGED writer \/ Put(r) \/ Commit(r) \/ CommitFails(r)
  BY <1>1 DEF Arrive, BeginUpload, BeginFetch, BeginPeek, BeginDelete, Begin, Handler, Refuse, LockedOut,
     DbError, Upload, AllocateId, AllocateFails, SaveOpen, SaveChunks, SaveTooLarge, SaveError, SaveReplace,
     DetectFails, PutConflict, Respond, Fetch, CheckMeta, CheckRaw, PathExists, CountFetch,
     ConsumeOneShot, OpenBody, EndBody, Delete, Authorize, DeleteRow, DeleteFile, DeleteFileFails, storage
<1> QED BY <1>1, CleanupOnly DEF Next

\* Who commits has the write lock, for an id that has no row.
LEMMA CommitsAlone ==
  ASSUME LockInv, NEW r \in Reqs, Commit(r)
  PROVE  /\ req[r].id \in Ids /\ files[req[r].id] = None /\ writer = r
         /\ \A id \in Ids \ {req[r].id} : files'[id] = files[id]
<1>1. pc[r] = "commit" /\ files' = [files EXCEPT ![req[r].id] = meta[r]]
  BY DEF Commit
<1> QED BY <1>1 DEF LockInv, InsertsAreLocked, Shape, TypeOK, RequestShape, UploadLabels, Tables

\* The upload that has inserted its row keeps the lock and the key.
LEMMA InsertsAreLockedStep ==
  ASSUME LockInv, [Next]_vars
  PROVE  InsertsAreLocked'
<1> USE DEF LockInv, Shape, TypeOK
<1> SUFFICES ASSUME NEW r \in Reqs, pc'[r] \in {"respond", "commit"}
             PROVE  writer' = r /\ files'[req'[r].id] = None
  BY DEF InsertsAreLocked
<1>1. req'[r] = req[r]
  BY SameUpload DEF UploadLabels
<1>2. CASE Put(r)
  BY <1>1, <1>2 DEF Put
<1>3. CASE pc[r] \in {"respond", "commit"}
  <2>1. writer = r /\ files[req[r].id] = None /\ req[r].id \in Ids
    BY <1>3 DEF InsertsAreLocked, RequestShape, UploadLabels
  <2>2. ASSUME NEW s \in Reqs, Commit(s) \/ CommitFails(s) PROVE FALSE
    <3>1. s = r
      BY <2>1, <2>2 DEF InsertsAreLocked, Commit, CommitFails
    <3> QED BY <2>2, <3>1 DEF Commit, CommitFails, Goto
  <2>3. ASSUME NEW s \in Reqs, Put(s) PROVE FALSE
    BY <2>1, <2>3, NoneAssumption DEF Put
  <2>4. ASSUME NEW p \in Procs, Crash(p) PROVE writer' = writer
    BY <1>3, <2>1, <2>4 DEF Crash
  <2>5. writer' = r
    BY <2>1, <2>2, <2>3, <2>4, LockStep
  <2>6. files'[req[r].id] = None
    BY <2>1, <2>2, TableStep DEF Wanes
  <2> QED BY <1>1, <2>5, <2>6
<1> QED BY <1>2, <1>3, UploadCameFrom

\* A row keeps the time of its deletion as long as it is there.
LEMMA DeletionStays ==
  ASSUME LockInv, [Next]_vars, NEW id \in Ids, Tombstone(files[id]), files'[id] # None
  PROVE  Tombstone(files'[id]) /\ files'[id].deleted_at = files[id].deleted_at
<1>1. CASE Wanes(files, files')
  BY <1>1 DEF Wanes, Tombstone
<1>2. ASSUME NEW r \in Reqs, Commit(r)
      PROVE  Tombstone(files'[id]) /\ files'[id].deleted_at = files[id].deleted_at
  BY <1>2, CommitsAlone DEF Tombstone
<1> QED BY <1>1, <1>2, TableStep DEF LockInv

\* Nobody else writes a partial file while the handler of an upload is at it.
LEMMA SavesAreWholeStep ==
  ASSUME CollisionInv, OneProcess, [Next]_vars
  PROVE  SavesAreWhole'
<1> USE DEF CollisionInv, LockInv, Shape, TypeOK
<1> SUFFICES ASSUME NEW r \in Reqs, pc'[r] = "replace"
             PROVE  part'[req'[r].id] = Whole(r)
  BY DEF SavesAreWhole, Whole
<1>1. req'[r] = req[r]
  BY SameUpload DEF UploadLabels
<1>2. CASE SaveChunks(r)
  <2>1. req[r].id \in Ids
    BY <1>2 DEF SaveChunks, Running, RequestShape, UploadLabels
  <2> QED BY <1>1, <1>2, <2>1 DEF SaveChunks, Whole
<1>3. CASE pc[r] = "replace"
  <2>1. req[r].id \in Ids /\ part[req[r].id] = Whole(r) /\ loop[req[r].proc] = r
    BY <1>3 DEF RequestShape, UploadLabels, SavesAreWhole, OneOnLoop, OnLoopLabels
  <2>2. ASSUME NEW s \in Reqs, Upload(s), part' # part PROVE FALSE
    <3>1. pc[s] \in {"save", "write", "replace"}
      BY <2>2 DEF Upload, AllocateId, AllocateFails, SaveOpen, SaveChunks, SaveTooLarge, SaveError,
         SaveReplace, DetectFails, Put, PutConflict, Respond, Commit, CommitFails, Running, storage
    <3>2. req[r].proc \in Procs /\ req[s].proc \in Procs /\ loop[req[s].proc] = s
      BY <1>3, <3>1 DEF RequestShape, Requests, OneOnLoop, OnLoopLabels
    <3>3. s = r
      BY <2>1, <3>2 DEF OneProcess
    <3> QED BY <1>3, <2>2, <3>3, UploadGoes DEF SaveChunks, Running
  <2>3. part'[req[r].id] = part[req[r].id]
    BY <2>1, <2>2, PartStep
  <2> QED BY <1>1, <2>1, <2>3
<1> QED BY <1>2, <1>3, UploadCameFrom

\* The rename takes a whole file to the canonical path, whoever else was given
\* the id.
LEMMA WholeFilesStep ==
  ASSUME CollisionInv, [Next]_vars
  PROVE  NoHalfWritten'
<1> SUFFICES ASSUME NEW id \in Ids, disk'[id] # None PROVE disk'[id].whole
  BY DEF NoHalfWritten
<1>1. CASE disk'[id] = disk[id]
  BY <1>1 DEF CollisionInv, NoHalfWritten
<1>2. ASSUME NEW r \in Reqs, SaveReplace(r), Owns(r, id), disk'[id] = part[id]
      PROVE  disk'[id].whole
  <2>1. part[id] = Whole(r)
    BY <1>2 DEF SaveReplace, Running, Owns, CollisionInv, SavesAreWhole
  <2> QED BY <1>2, <2>1 DEF Whole
<1> QED BY <1>1, <1>2, DiskStep DEF CollisionInv, LockInv

\* With one cleanup thread a row that was selected for the purge is still
\* there, and still the same tombstone, when the DELETE runs.
LEMMA PurgeIsThereStep ==
  ASSUME CollisionInv, OneProcess, [Next]_vars
  PROVE  PurgeIsThere'
<1> USE DEF CollisionInv, LockInv, Shape, TypeOK
<1> SUFFICES ASSUME NEW p \in Procs, cw'[p].pc = "purge", NEW id \in cw'[p].todo
             PROVE  Tombstone(files'[id]) /\ files'[id].deleted_at + Grace < now'
  BY DEF PurgeIsThere
<1>1. ASSUME id \in Ids, Tombstone(files[id]), files[id].deleted_at + Grace < now,
             files'[id] # None
      PROVE  Tombstone(files'[id]) /\ files'[id].deleted_at + Grace < now'
  <2>1. files[id].deleted_at \in Nat
    BY <1>1 DEF Tables, Rows, Tombstone
  <2>2. now' = now \/ now' = now + 1
    BY ClockStep
  <2>3. Tombstone(files'[id]) /\ files'[id].deleted_at = files[id].deleted_at
    BY <1>1, DeletionStays
  <2> QED BY <1>1, <2>1, <2>2, <2>3, GraceAssumption
<1>2. CASE cw[p] = cw'[p]
  <2>1. id \in Ids
    BY <1>2 DEF Workers
  <2>2. Tombstone(files[id]) /\ files[id].deleted_at + Grace < now
    BY <1>2 DEF PurgeIsThere
  <2>3. ASSUME NEW q \in Procs, CleanupHardDelete(q) PROVE FALSE
    <3>1. q = p /\ cw'[q].pc = "sweep"
      BY <2>3 DEF OneProcess, CleanupHardDelete, Worker
    <3> QED BY <3>1
  <2>4. files'[id] # None
    <3>1. ASSUME NEW r \in Reqs, CountFetch(r) \/ ConsumeOneShot(r) \/ DeleteRow(r)
          PROVE  files'[id] # None
      <4>1. req[r].id \in Ids
        BY <3>1 DEF CountFetch, ConsumeOneShot, DeleteRow, Running, RequestShape, FetchLabels, DeleteLabels
      <4> QED BY <2>1, <2>2, <3>1, <4>1, MarkFetchedWanes, SoftDeleteWanes
                 DEF CountFetch, ConsumeOneShot, DeleteRow, Tombstone
    <3>2. ASSUME NEW q \in Procs, CleanupSoftDelete(q) PROVE files'[id] # None
      BY <2>1, <2>2, <3>2, SoftDeleteWanes DEF CleanupSoftDelete, WorkerShape, Tombstone
    <3>3. ASSUME NEW r \in Reqs, Commit(r) PROVE files'[id] # None
      BY <2>1, <2>2, <3>3, CommitsAlone DEF Tombstone
    <3> QED BY <2>2, <2>3, <3>1, <3>2, <3>3, TableWriters DEF Tombstone
  <2> QED BY <1>1, <2>1, <2>2, <2>4
<1>3. CASE CleanupSelectOld(p)
  <2>1. PICK ids \in Batches(OldTombstones(files, now)) :
          Worker(p, "sleep", ids, None) \/ Worker(p, "purge", ids, None)
    BY <1>3 DEF CleanupSelectOld
  <2>2. id \in ids
    BY <2>1 DEF Worker
  <2>3. files' = files
    BY <1>3 DEF CleanupSelectOld, storage
  <2> QED BY <1>1, <2>2, <2>3, BatchesSubset DEF OldTombstones, Tombstone
<1>4. ASSUME NEW q \in Procs, Cleanup(q), ~CleanupSelectOld(p)
      PROVE  cw'[p] = cw[p]
  BY <1>4 DEF Cleanup, CleanupStart, CleanupGet, CleanupSoftDelete, CleanupUnlink, CleanupSkips,
     CleanupSelectOld, CleanupHardDelete, CleanupPass2Fails, CleanupSweep, Worker
<1>5. ASSUME NEW q \in Procs, Crash(q)
      PROVE  cw'[p] = cw[p]
  BY <1>5 DEF Crash, Asleep
<1>6. (\E r \in Reqs : Arrive(r) \/ Handler(r)) \/ Tick \/ UNCHANGED vars => UNCHANGED cw
  BY HandlersKeepWorkers DEF Tick, vars
<1> QED BY <1>2, <1>3, <1>4, <1>5, <1>6 DEF Next

LEMMA CollisionInvInit == Init => CollisionInv
<1> SUFFICES ASSUME Init PROVE CollisionInv
  OBVIOUS
<1>1. \A r \in Reqs : pc[r] = "idle"
  BY DEF Init
<1>2. \A p \in Procs : cw[p].pc = "sleep"
  BY DEF Init, Asleep
<1>3. NoHalfWritten
  BY DEF Init, NoHalfWritten
<1> QED BY <1>1, <1>2, <1>3, ShapeInit
        DEF CollisionInv, LockInv, InsertsAreLocked, OneOnLoop, OnLoopLabels, SavesAreWhole, PurgeIsThere

-----------------------------------------------------------------------------
(***************************************************************************)
(* Theorems                                                                *)
(***************************************************************************)

\* The inductive invariant holds in every reachable state.
THEOREM Invariance == ASSUME FreshIds PROVE Spec => []IInv
<1>1. Init => IInv
  BY IInvInit
<1>2. IInv /\ [Next]_vars => IInv'
  BY IInvStep
<1> QED BY <1>1, <1>2, PTL DEF Spec

\* A live link always has all the bytes of its upload on disk, whatever
\* handlers, cleanup threads, disk errors and crashes do in between.
THEOREM LinksAreBacked == ASSUME FreshIds PROVE Spec => []LiveFileBacked
<1>1. IInv => LiveFileBacked
  BY DEF IInv
<1> QED BY <1>1, Invariance, PTL

\* A file whose DELETE was answered with success is never live again.
THEOREM DeletionIsFinal == ASSUME FreshIds PROVE Spec => []DeletedStaysGone
<1>1. IInv => DeletedStaysGone
  BY DEF IInv, DeletedStaysGone, DeletesSettle, Settled
<1> QED BY <1>1, Invariance, PTL

\* What the write lock protects: an upload that has inserted its row is alone
\* with the key until it commits, even if ids repeat.
THEOREM LockInvariance == Spec => []LockInv
<1>1. Init => LockInv
  BY ShapeInit DEF LockInv, InsertsAreLocked, Init
<1>2. LockInv /\ [Next]_vars => LockInv'
  BY ShapeStep, InsertsAreLockedStep DEF LockInv
<1> QED BY <1>1, <1>2, PTL DEF Spec

\* What one process protects by running one handler and one pass at a time,
\* even if ids repeat.
THEOREM CollisionInvariance == ASSUME OneProcess PROVE Spec => []CollisionInv
<1>1. Init => CollisionInv
  BY CollisionInvInit
<1>2. CollisionInv /\ [Next]_vars => CollisionInv'
  BY ShapeStep, OneOnLoopStep, InsertsAreLockedStep, SavesAreWholeStep, WholeFilesStep,
     PurgeIsThereStep DEF CollisionInv, LockInv
<1> QED BY <1>1, <1>2, PTL DEF Spec

\* No half-written file is ever at a canonical path: two uploads write one
\* partial file only if they run in two processes and were given one id.
THEOREM FilesAreWhole == ASSUME FreshIds \/ OneProcess PROVE Spec => []NoHalfWritten
<1>1. CASE FreshIds
  <2>1. IInv => NoHalfWritten
    BY DEF IInv
  <2> QED BY <1>1, <2>1, Invariance, PTL
<1>2. CASE OneProcess
  <2>1. CollisionInv => NoHalfWritten
    BY DEF CollisionInv
  <2> QED BY <1>2, <2>1, CollisionInvariance, PTL
<1> QED BY <1>1, <1>2

\* The time of a deletion is written once, for any number of processes and
\* whatever ids generate_id returns.
THEOREM TombstonesStay == Spec => TombstonePermanent
<1>1. LockInv /\ [Next]_vars =>
        [\A id \in Ids : Tombstone(files[id]) =>
           files'[id] = None \/ files'[id].deleted_at = files[id].deleted_at]_vars
  BY DeletionStays
<1> QED BY <1>1, LockInvariance, PTL DEF Spec, TombstonePermanent

\* A row leaves the table only as a tombstone older than the grace period.
THEOREM PurgeIsLate == ASSUME FreshIds \/ OneProcess PROVE Spec => PurgeOnlyOldTombstones
<1> DEFINE Late == \A id \in Ids : files[id] # None /\ files'[id] = None =>
                     Tombstone(files[id]) /\ files[id].deleted_at + Grace < now
<1>1. CASE FreshIds
  <2>1. IInv /\ [Next]_vars => [Late]_vars
    BY TableStep DEF IInv, PurgeIsOld
  <2> QED BY <1>1, <2>1, Invariance, PTL DEF Spec, PurgeOnlyOldTombstones
<1>2. CASE OneProcess
  <2>1. CollisionInv /\ [Next]_vars => [Late]_vars
    BY TableStep DEF CollisionInv, LockInv, PurgeIsThere
  <2> QED BY <1>2, <2>1, CollisionInvariance, PTL DEF Spec, PurgeOnlyOldTombstones
<1> QED BY <1>1, <1>2

=============================================================================
