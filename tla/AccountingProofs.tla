-------------------------- MODULE AccountingProofs ---------------------------
(***************************************************************************)
(* What the server keeps account of: every fetch it answers in the counter *)
(* of the row, and every file it writes by somebody who will unlink it,    *)
(* for any number of processes; and which failures leave a file to nobody. *)
(***************************************************************************)
EXTENDS DropServerProofs, FiniteSetTheorems

-----------------------------------------------------------------------------
(***************************************************************************)
(* Fetches are counted                                                     *)
(***************************************************************************)

\* Where a fetch stands when it is answered or has been counted.
LEMMA CountedStands ==
  ASSUME IInv, NEW id \in Ids, NEW r \in Counted(id)
  PROVE  /\ r \in Reqs /\ req[r].id = id /\ req[r].kind = "fetch"
         /\ pc[r] \in {"consume", "open", "body", "done"}
         /\ pc[r] # "consume" => Served(r)
<1> USE DEF IInv, Shape, TypeOK
<1>1. r \in Reqs /\ req[r].id = id /\ (Served(r) \/ pc[r] = "consume")
  BY DEF Counted
<1>2. CASE pc[r] = "consume"
  BY <1>1, <1>2 DEF RequestShape, FetchLabels
<1>3. CASE pc[r] # "consume"
  BY <1>1, <1>3 DEF Served, Unanswered, Labels, RequestShape, UploadLabels
<1> QED BY <1>1, <1>2, <1>3

\* Only the UPDATE of the counter makes a fetch a counted one.
LEMMA CountedFrom ==
  ASSUME IInv, [Next]_vars, NEW id \in Ids, NEW s \in Counted(id)', s \notin Counted(id)
  PROVE  CountFetch(s) /\ s \in Reqs /\ req[s].id = id
<1> USE DEF IInv, Shape, TypeOK
<1>1. /\ s \in Reqs /\ req'[s].id = id
      /\ \/ status'[s] = "ok" /\ req'[s].kind = "fetch"
         \/ pc'[s] = "consume"
  BY DEF Counted, Served
<1>2. ASSUME status'[s] = status[s], req'[s] = req[s], pc'[s] = "consume" => pc[s] = "consume"
      PROVE  FALSE
  BY <1>1, <1>2 DEF Counted, Served
<1>3. ASSUME NEW r \in Reqs, Arrive(r) \/ Handler(r), s # r PROVE FALSE
  BY <1>1, <1>2, <1>3, HandlerOnly DEF Only
<1>4. ASSUME Arrive(s) PROVE FALSE
  <2>1. PICK q \in Requests, l \in {"alloc", "get", "auth"} : Begin(s, q, l)
    BY <1>1, <1>4, ArriveBegins DEF Arrives
  <2>2. pc'[s] = l /\ status' = status /\ pc[s] = "idle"
    BY <1>1, <2>1 DEF Begin, Goto, answers
  <2> QED BY <1>1, <2>2 DEF Unanswered
<1>5. ASSUME Upload(s) PROVE FALSE
  BY <1>1, <1>5, UploadKind, UploadGoes
<1>6. ASSUME Delete(s) PROVE FALSE
  BY <1>1, <1>6, DeleteGoes DEF DeleteLabels, RequestShape
<1>7. ASSUME Refuse(s) \/ LockedOut(s) \/ DbError(s) PROVE FALSE
  BY <1>1, <1>7, RefusalGoes
<1>8. CASE Fetch(s)
  <2>1. req' = req /\ (pc[s] \in {"get", "raw", "exists", "mark", "consume"} => status[s] = "none")
    BY <1>1, <1>8, FetchGoes DEF Unanswered
  <2>2. ASSUME CheckMeta(s) \/ CheckRaw(s) \/ PathExists(s) PROVE FALSE
    BY <1>1, <2>1, <2>2 DEF CheckMeta, CheckRaw, PathExists, Running, Reply, Goto, answers
  <2>3. ASSUME ConsumeOneShot(s) PROVE FALSE
    BY <1>1, <2>1, <2>3 DEF ConsumeOneShot, Running, Counted
  <2>4. ASSUME OpenBody(s) \/ EndBody(s) PROVE FALSE
    BY <1>1, <1>2, <2>4 DEF OpenBody, EndBody, Goto
  <2> QED BY <1>1, <1>8, <2>1, <2>2, <2>3, <2>4 DEF Fetch
<1>9. ASSUME (\E p \in Procs : Cleanup(p)) \/ Tick \/ UNCHANGED vars PROVE FALSE
  BY <1>2, <1>9, CleanupOnly DEF handlers
<1>10. ASSUME \E p \in Procs : Crash(p) PROVE FALSE
  <2>1. PICK p \in Procs : Crash(p)
    BY <1>10
  <2>2. /\ status'[s] = status[s] /\ req'[s] = req[s]
        /\ pc'[s] \in {pc[s], "done"}
    BY <1>1, <2>1, CrashGoes
  <2> QED BY <1>2, <2>2
<1> QED BY <1>3, <1>4, <1>5, <1>6, <1>7, <1>8, <1>9, <1>10 DEF Next, Handler

\* How the counter of a row came to its value.
LEMMA CounterStep ==
  ASSUME IInv, [Next]_vars, NEW id \in Ids, files'[id] # None
  PROVE  \/ /\ files[id] # None /\ files[id].fetched_count \in Nat
            /\ files'[id].fetched_count \in Nat
            /\ files'[id].fetched_count >= files[id].fetched_count
         \/ ~Known(id) /\ files'[id].fetched_count \in Nat
<1>1. /\ files \in Tables /\ files' \in Tables /\ now \in Nat
      /\ files'[id] \in Rows /\ files'[id].fetched_count \in Nat
  <2>1. files \in Tables /\ files' \in Tables /\ now \in Nat
    BY ShapeStep DEF IInv, Shape, TypeOK
  <2>2. files'[id] \in Rows
    BY <2>1 DEF Tables
  <2> QED BY <2>1, <2>2 DEF Rows
<1>2. ASSUME files[id] # None, files'[id].fetched_count = files[id].fetched_count
      PROVE  /\ files[id].fetched_count \in Nat
             /\ files'[id].fetched_count >= files[id].fetched_count
  BY <1>1, <1>2
<1>3. CASE UNCHANGED files
  BY <1>1, <1>2, <1>3
<1>4. ASSUME NEW r \in Reqs, CountFetch(r) \/ ConsumeOneShot(r) \/ DeleteRow(r)
      PROVE  /\ files[id] # None /\ files[id].fetched_count \in Nat
             /\ files'[id].fetched_count >= files[id].fetched_count
  <2>1. req[r].id \in Ids
    BY <1>4 DEF CountFetch, ConsumeOneShot, DeleteRow, Running, IInv, Shape, RequestShape,
       FetchLabels, DeleteLabels
  <2>2. CASE CountFetch(r)
    <3>1. files' = MarkFetched(files, req[r].id)
      BY <2>2 DEF CountFetch
    <3>2. files[id] # None
      BY <1>1, <2>1, <3>1, MarkFetchedWanes DEF Wanes
    <3> QED BY <1>1, <2>1, <3>1, <3>2, MarkFetchedCounts
  <2>3. CASE ConsumeOneShot(r) \/ DeleteRow(r)
    <3>1. files' = SoftDelete(files, req[r].id, now)
      BY <2>3 DEF ConsumeOneShot, DeleteRow
    <3>2. files[id] # None
      BY <1>1, <2>1, <3>1, SoftDeleteWanes DEF Wanes
    <3> QED BY <1>1, <1>2, <2>1, <3>1, <3>2, DeletesKeepCounters
  <2> QED BY <1>4, <2>2, <2>3
<1>5. ASSUME NEW p \in Procs, CleanupSoftDelete(p) \/ CleanupHardDelete(p)
      PROVE  /\ files[id] # None /\ files[id].fetched_count \in Nat
             /\ files'[id].fetched_count >= files[id].fetched_count
  <2>1. CASE CleanupSoftDelete(p)
    <3>1. files' = SoftDelete(files, cw[p].fid, now) /\ cw[p].fid \in Ids
      BY <2>1 DEF CleanupSoftDelete, IInv, Shape, WorkerShape
    <3>2. files[id] # None
      BY <1>1, <3>1, SoftDeleteWanes DEF Wanes
    <3> QED BY <1>1, <1>2, <3>1, <3>2, DeletesKeepCounters
  <2>2. CASE CleanupHardDelete(p)
    <3>1. files' = HardDelete(files, cw[p].todo) /\ cw[p].todo \in SUBSET Ids
      BY <2>2 DEF CleanupHardDelete, IInv, Shape, TypeOK, Workers
    <3>2. files[id] # None
      BY <1>1, <3>1, HardDeleteWanes DEF Wanes
    <3> QED BY <1>1, <1>2, <3>1, <3>2, DeletesKeepCounters
  <2> QED BY <1>5, <2>1, <2>2
<1>6. ASSUME NEW r \in Reqs, Commit(r)
      PROVE  (files[id] # None /\ files'[id] = files[id]) \/ ~Known(id)
  <2>1. CASE req[r].id = id
    BY <1>6, <2>1, CommitOwns
  <2>2. CASE req[r].id # id
    BY <1>1, <1>6, <2>2, CommitOwns DEF Tables
  <2> QED BY <2>1, <2>2
<1> QED BY <1>1, <1>2, <1>3, <1>4, <1>5, <1>6, TableWriters

\* A fetch that looks up a live row, or counts or consumes one, knows its id.
LEMMA FetchesKnowStep ==
  ASSUME IInv, FetchesKnow, FreshIds, [Next]_vars
  PROVE  FetchesKnow'
<1> USE DEF IInv
<1> SUFFICES ASSUME NEW r \in Reqs,
                    pc'[r] \in {"exists", "mark", "consume"} \/ (pc'[r] # "idle" /\ Served(r)')
             PROVE  req'[r].id \in KnownIds'
  BY DEF FetchesKnow
<1>1. KnownIds \subseteq KnownIds'
  BY KnownStable DEF KnownIds
<1>2. CASE pc'[r] \in {"exists", "mark", "consume"}
  <2>1. CASE CheckMeta(r) /\ pc'[r] = "exists" /\ req'[r] = req[r]
    <3>1. req[r].id \in Ids /\ files[req[r].id] # None
      BY <2>1 DEF CheckMeta, Running, Get, Reply, Goto, Live, Shape, TypeOK, RequestShape, PeekLabels
    <3> QED BY <1>1, <2>1, <3>1, RowIsKnown DEF KnownIds
  <2>2. CASE pc[r] \in {"exists", "mark", "consume"} /\ req'[r] = req[r]
    BY <1>1, <2>2 DEF FetchesKnow
  <2> QED BY <1>2, <2>1, <2>2, AdmittedFrom
<1>3. CASE pc'[r] # "idle" /\ Served(r)'
  <2>1. PICK id \in Ids : id = req'[r].id
    BY <1>3, ShapeStep DEF Served, Shape, RequestShape
  <2>2. r \in Counted(id)'
    BY <1>3, <2>1 DEF Counted
  <2>3. CASE r \in Counted(id)
    <3>1. req[r].id = id /\ (pc[r] = "consume" \/ (pc[r] # "idle" /\ Served(r)))
      BY <2>3, CountedStands
    <3> QED BY <1>1, <2>1, <3>1 DEF FetchesKnow
  <2>4. CASE r \notin Counted(id)
    <3>1. pc[r] = "mark" /\ req[r].id = id
      BY <2>2, <2>4, CountedFrom DEF CountFetch, Running
    <3> QED BY <1>1, <2>1, <3>1 DEF FetchesKnow
  <2> QED BY <2>3, <2>4
<1> QED BY <1>2, <1>3

\* The counter moves in the step that makes a fetch a counted one.
LEMMA CountersKeepUpStep ==
  ASSUME CountInv, [Next]_vars
  PROVE  CountersKeepUp'
<1> USE DEF CountInv
<1> SUFFICES ASSUME NEW id \in Ids
             PROVE  /\ IsFiniteSet(Counted(id)')
                    /\ files'[id] # None =>
                         Cardinality(Counted(id)') <= files'[id].fetched_count
  BY DEF CountersKeepUp
<1>1. /\ IsFiniteSet(Counted(id)) /\ Cardinality(Counted(id)) \in Nat
      /\ files[id] # None => Cardinality(Counted(id)) <= files[id].fetched_count
  BY FS_CardinalityType DEF CountersKeepUp
<1>2. CASE Counted(id)' \subseteq Counted(id)
  <2>1. /\ IsFiniteSet(Counted(id)') /\ Cardinality(Counted(id)') \in Nat
        /\ Cardinality(Counted(id)') <= Cardinality(Counted(id))
    BY <1>1, <1>2, FS_Subset, FS_CardinalityType
  <2>2. ASSUME ~Known(id) PROVE Cardinality(Counted(id)) = 0
    <3>1. Counted(id) = {}
      BY <2>2, CountedStands DEF FetchesKnow, KnownIds
    <3> QED BY <3>1, FS_EmptySet
  <2> QED BY <1>1, <2>1, <2>2, CounterStep
<1>3. CASE ~(Counted(id)' \subseteq Counted(id))
  <2>1. PICK s \in Counted(id)' : s \notin Counted(id)
    BY <1>3
  <2>2. CountFetch(s) /\ s \in Reqs /\ req[s].id = id
    BY <2>1, CountedFrom
  <2>3. ASSUME NEW t \in Counted(id)', t \notin Counted(id) PROVE t = s
    <3>1. CountFetch(t) /\ t \in Reqs
      BY <2>3, CountedFrom
    <3>2. pc[t] = "mark" /\ pc'[t] # "mark"
      BY <3>1 DEF CountFetch, Running, Goto, Serve, IInv, Shape, TypeOK
    <3>3. t # s => pc'[t] = pc[t]
      BY <2>2, <3>1, HandlerOnly DEF Only, Handler, Fetch, IInv
    <3> QED BY <3>2, <3>3
  <2>4. Counted(id)' \subseteq Counted(id) \cup {s}
    BY <2>3
  <2>5. /\ IsFiniteSet(Counted(id) \cup {s})
        /\ Cardinality(Counted(id) \cup {s}) = Cardinality(Counted(id)) + 1
    BY <1>1, <2>1, FS_AddElement
  <2>6. /\ IsFiniteSet(Counted(id)') /\ Cardinality(Counted(id)') \in Nat
        /\ Cardinality(Counted(id)') <= Cardinality(Counted(id)) + 1
    BY <2>4, <2>5, FS_Subset, FS_CardinalityType
  <2>7. ASSUME files'[id] # None
        PROVE  /\ files[id] # None /\ files[id].fetched_count \in Nat
               /\ files'[id].fetched_count = files[id].fetched_count + 1
    <3>1. files' = MarkFetched(files, id) /\ files \in Tables
      BY <2>2 DEF CountFetch, IInv, Shape, TypeOK
    <3>2. files[id] # None
      BY <2>7, <3>1, MarkFetchedWanes DEF Wanes
    <3> QED BY <3>1, <3>2, MarkFetchedCounts
  <2> QED BY <1>1, <2>6, <2>7
<1> QED BY <1>2, <1>3

\* The counters keep up with the fetches in every reachable state.
THEOREM CountInvariance == ASSUME FreshIds PROVE Spec => []CountInv
<1>1. Init => CountInv
  <2> SUFFICES ASSUME Init PROVE CountInv
    OBVIOUS
  <2>1. IInv /\ \A r \in Reqs : pc[r] = "idle" /\ status[r] = "none"
    BY IInvInit DEF Init
  <2>2. FetchesKnow
    BY <2>1 DEF FetchesKnow
  <2>3. ASSUME NEW id \in Ids PROVE Counted(id) = {} /\ files[id] = None
    BY <2>1 DEF Counted, Served, Init
  <2>4. CountersKeepUp
    BY <2>3, FS_EmptySet DEF CountersKeepUp
  <2> QED BY <2>1, <2>2, <2>4 DEF CountInv
<1>2. CountInv /\ [Next]_vars => CountInv'
  BY IInvStep, FetchesKnowStep, CountersKeepUpStep DEF CountInv
<1> QED BY <1>1, <1>2, PTL DEF Spec

\* Every fetch answered 200 or 206 is counted in the row, for any number of
\* processes that count fetches of one file at the same time.
THEOREM FetchesAreCounted == ASSUME FreshIds PROVE Spec => []FetchesCounted
<1>1. CountInv => FetchesCounted
  <2> SUFFICES ASSUME CountInv, NEW id \in Ids, files[id] # None
               PROVE  Cardinality({r \in Reqs : /\ status[r] = "ok" /\ req[r].kind = "fetch"
                                                /\ req[r].id = id}) <= files[id].fetched_count
    BY DEF FetchesCounted
  <2> DEFINE answered == {r \in Reqs : /\ status[r] = "ok" /\ req[r].kind = "fetch"
                                       /\ req[r].id = id}
  <2>1. answered \subseteq Counted(id)
    BY DEF Counted, Served
  <2>2. IsFiniteSet(Counted(id)) /\ Cardinality(Counted(id)) <= files[id].fetched_count
    BY DEF CountInv, CountersKeepUp
  <2>3. files[id].fetched_count \in Nat
    <3>1. files[id] \in Rows
      BY DEF CountInv, IInv, Shape, TypeOK, Tables
    <3> QED BY <3>1 DEF Rows
  <2> HIDE DEF answered
  <2>4. Cardinality(answered) <= Cardinality(Counted(id)) /\ Cardinality(answered) \in Nat
    BY <2>1, <2>2, FS_Subset, FS_CardinalityType
  <2>5. Cardinality(Counted(id)) \in Nat
    BY <2>2, FS_CardinalityType
  <2> QED BY <2>2, <2>3, <2>4, <2>5 DEF answered
<1> QED BY <1>1, CountInvariance, PTL

-----------------------------------------------------------------------------
(***************************************************************************)
(* Files are accounted for                                                 *)
(***************************************************************************)

\* Neither errors of the disk or the database nor crashes: either may leave a
\* file behind that nobody will unlink.
Undisturbed == MaxFaults = 0 /\ MaxCrashes = 0

LEMMA NoFaultNoCrash ==
  ASSUME Shape, Undisturbed
  PROVE  ~Fault /\ \A p \in Procs : ~Crash(p)
  BY DEF Shape, TypeOK, Undisturbed, Fault, Crash

\* An upload between two of its statements is moved by its own steps only, and
\* a request that is over keeps its answer.
LEMMA UploadMoves ==
  ASSUME Shape, Undisturbed, [Next]_vars, NEW r \in Reqs
  PROVE  /\ pc[r] \in {"write", "replace", "respond", "commit"} =>
              pc'[r] = pc[r] \/ Upload(r)
         /\ pc[r] = "put" =>
              pc'[r] = pc[r] \/ Upload(r) \/ (pc'[r] = "done" /\ status'[r] = "error")
         /\ pc[r] = "done" => pc'[r] = "done" /\ status'[r] = status[r]
<1>1. ASSUME NEW s \in Reqs, Arrive(s) \/ Handler(s), s # r
      PROVE  pc'[r] = pc[r] /\ status'[r] = status[r]
  BY <1>1, HandlerOnly DEF Only
<1>2. Arrive(r) => pc[r] = "idle"
  BY ArriveBegins DEF Arrives, Begin
<1>3. ASSUME Fetch(r) \/ Delete(r)
      PROVE  pc[r] \notin {"write", "replace", "put", "respond", "commit", "done"}
  BY <1>3, FetchGoes, DeleteGoes DEF FetchLabels, PeekLabels, DeleteLabels
<1>4. Upload(r) => pc[r] # "done"
  BY UploadGoes DEF UploadLabels
<1>5. ASSUME Refuse(r) \/ LockedOut(r) \/ DbError(r)
      PROVE  /\ pc[r] \notin {"write", "replace", "respond", "commit", "done"}
             /\ pc[r] = "put" => pc'[r] = "done" /\ status'[r] = "error"
  BY <1>5, NoFaultNoCrash DEF Refuse, LockedOut, DbError, Running, Reply, Goto, Shape, TypeOK
<1>6. ((\E p \in Procs : Cleanup(p)) \/ Tick \/ UNCHANGED vars)
        => pc'[r] = pc[r] /\ status'[r] = status[r]
  BY CleanupOnly DEF handlers
<1> QED BY <1>1, <1>2, <1>3, <1>4, <1>5, <1>6, NoFaultNoCrash DEF Next, Handler

\* The upload that has opened a partial file renames it or removes it.
LEMMA PartHeldStep ==
  ASSUME AccountInv, FreshIds, Undisturbed, [Next]_vars
  PROVE  PartHeld'
<1> USE DEF AccountInv, IInv
<1> SUFFICES ASSUME NEW id \in Ids, part'[id] # None
             PROVE  \E r \in Reqs : Owns(r, id)' /\ pc'[r] \in {"write", "replace"}
  BY DEF PartHeld
<1>1. ASSUME NEW r \in Reqs, Upload(r), Owns(r, id)
      PROVE  pc'[r] \in {"write", "replace"}
  <2>1. CASE SaveOpen(r) \/ SaveChunks(r)
    BY <2>1 DEF SaveOpen, SaveChunks, Goto, Shape, TypeOK
  <2>2. ASSUME SaveTooLarge(r) \/ SaveReplace(r) PROVE FALSE
    BY <1>1, <2>2 DEF SaveTooLarge, SaveReplace, Owns, Shape, TypeOK
  <2>3. ASSUME SaveError(r) \/ DetectFails(r) \/ CommitFails(r) PROVE FALSE
    BY <2>3, NoFaultNoCrash DEF SaveError, DetectFails, CommitFails
  <2>4. ASSUME AllocateId(r) \/ AllocateFails(r) PROVE FALSE
    BY <1>1, <2>4, NoneAssumption DEF AllocateId, AllocateFails, Running, Owns, Shape, RequestShape
  <2>5. ASSUME Put(r) \/ PutConflict(r) \/ Respond(r) \/ Commit(r) PROVE FALSE
    <3>1. part[id] # None /\ pc[r] \notin {"write", "replace"}
      BY <2>5 DEF Put, PutConflict, Respond, Commit, Running, Resumes, storage
    <3>2. PICK s \in Reqs : Owns(s, id) /\ pc[s] \in {"write", "replace"}
      BY <3>1 DEF PartHeld
    <3> QED BY <1>1, <3>1, <3>2 DEF IdsAreOwned
  <2> QED BY <1>1, <2>1, <2>2, <2>3, <2>4, <2>5 DEF Upload
<1>2. ASSUME part[id] # None, \A r \in Reqs : ~(Upload(r) /\ Owns(r, id))
      PROVE  \E r \in Reqs : Owns(r, id)' /\ pc'[r] \in {"write", "replace"}
  <2>1. PICK r \in Reqs : Owns(r, id) /\ pc[r] \in {"write", "replace"}
    BY <1>2 DEF PartHeld
  <2>2. pc'[r] = pc[r]
    BY <1>2, <2>1, UploadMoves
  <2> QED BY <2>1, <2>2, OwnsStep
<1>3. CASE \E r \in Reqs : Upload(r) /\ Owns(r, id)
  BY <1>1, <1>3, OwnsStep
<1> QED BY <1>2, <1>3, PartStep

\* The row of a file leaves the table in the step that begins its sweep.
LEMMA PurgeBeginsSweep ==
  ASSUME IInv, [Next]_vars, NEW id \in Ids, files[id] # None, files'[id] = None
  PROVE  \E p \in Procs : cw'[p].pc = "sweep" /\ id \in cw'[p].todo
<1>1. files \in Tables /\ now \in Nat
  BY DEF IInv, Shape, TypeOK
<1>2. ASSUME NEW r \in Reqs, Commit(r) \/ CountFetch(r) \/ ConsumeOneShot(r) \/ DeleteRow(r)
      PROVE  FALSE
  <2>1. req[r].id \in Ids
    BY <1>2 DEF Commit, CountFetch, ConsumeOneShot, DeleteRow, Running, IInv, Shape, RequestShape,
       UploadLabels, FetchLabels, DeleteLabels
  <2>2. ASSUME Commit(r) PROVE FALSE
    BY <1>1, <2>1, <2>2, CommitOwns, NoRowAssumption DEF Tables
  <2> QED BY <1>1, <1>2, <2>1, <2>2, MarkFetchedWanes, SoftDeleteWanes
          DEF CountFetch, ConsumeOneShot, DeleteRow
<1>3. ASSUME NEW p \in Procs, CleanupSoftDelete(p) PROVE FALSE
  BY <1>1, <1>3, SoftDeleteWanes DEF CleanupSoftDelete, IInv, Shape, WorkerShape
<1>4. ASSUME NEW p \in Procs, CleanupHardDelete(p)
      PROVE  cw'[p].pc = "sweep" /\ id \in cw'[p].todo
  BY <1>4 DEF CleanupHardDelete, HardDelete, Worker, IInv, Shape, TypeOK
<1> QED BY <1>2, <1>3, <1>4, TableWriters

\* A sweep unlinks what it strikes off its list.
LEMMA SweepStep ==
  ASSUME Shape, Undisturbed, [Next]_vars, NEW id \in Ids, disk'[id] # None,
         NEW p \in Procs, cw[p].pc = "sweep", id \in cw[p].todo
  PROVE  cw'[p].pc = "sweep" /\ id \in cw'[p].todo
<1> USE DEF Shape, TypeOK
<1>1. CASE CleanupSweep(p)
  <2>1. PICK fid \in cw[p].todo :
          /\ disk' = [disk EXCEPT ![fid] = None]
          /\ LET rest == cw[p].todo \ {fid} IN
               Worker(p, IF rest = {} THEN "sleep" ELSE "sweep", rest, None)
    BY <1>1, NoFaultNoCrash DEF CleanupSweep
  <2>2. fid # id
    BY <2>1
  <2> QED BY <2>1, <2>2 DEF Worker
<1>2. ASSUME Cleanup(p), ~CleanupSweep(p) PROVE FALSE
  BY <1>2 DEF Cleanup, CleanupStart, CleanupGet, CleanupSoftDelete, CleanupUnlink, CleanupSkips,
     CleanupSelectOld, CleanupHardDelete, CleanupPass2Fails
<1>3. ASSUME NEW q \in Procs \ {p}, Cleanup(q) PROVE cw'[p] = cw[p]
  BY <1>3 DEF Cleanup, CleanupStart, CleanupGet, CleanupSoftDelete, CleanupUnlink, CleanupSkips,
     CleanupSelectOld, CleanupHardDelete, CleanupPass2Fails, CleanupSweep, Worker
<1>4. (\E r \in Reqs : Arrive(r) \/ Handler(r)) \/ Tick \/ UNCHANGED vars => UNCHANGED cw
  BY HandlersKeepWorkers DEF Tick, vars
<1> QED BY <1>1, <1>2, <1>3, <1>4, NoFaultNoCrash DEF Next

\* A file goes from its upload to its row and from its row to a sweep.
LEMMA DiskHeldStep ==
  ASSUME AccountInv, FreshIds, Undisturbed, [Next]_vars
  PROVE  DiskHeld'
<1> USE DEF AccountInv, IInv
<1> DEFINE Has(r) == \/ pc[r] \in {"put", "respond", "commit"}
                     \/ pc[r] = "done" /\ status[r] = "error"
<1> SUFFICES ASSUME NEW id \in Ids, disk'[id] # None, files'[id] = None,
                    \A p \in Procs : ~(cw'[p].pc = "sweep" /\ id \in cw'[p].todo)
             PROVE  \E r \in Reqs : Owns(r, id)' /\ Has(r)'
  BY DEF DiskHeld
<1>1. ASSUME NEW r \in Reqs, Owns(r, id), Has(r) PROVE Owns(r, id)' /\ Has(r)'
  <2>1. Owns(r, id)'
    BY <1>1, OwnsStep
  <2>2. CASE pc[r] = "put"
    <3>1. CASE Upload(r)
      <4>1. Put(r) \/ PutConflict(r)
        BY <2>2, <3>1, NoFaultNoCrash DEF Upload, AllocateId, AllocateFails, SaveOpen, SaveChunks,
           SaveTooLarge, SaveError, SaveReplace, DetectFails, Respond, Commit, CommitFails, Running, Resumes
      <4> QED BY <2>1, <4>1 DEF Put, PutConflict, Reply, Goto, Shape, TypeOK
    <3> QED BY <2>1, <2>2, <3>1, UploadMoves
  <2>3. CASE pc[r] = "respond"
    BY <2>1, <2>3, UploadMoves, UploadGoes, NoFaultNoCrash
       DEF Upload, AllocateId, AllocateFails, SaveOpen, SaveChunks, SaveTooLarge, SaveError, SaveReplace,
           DetectFails, Put, PutConflict, Respond, Commit, CommitFails, Running, Resumes, Goto, Shape, TypeOK
  <2>4. CASE pc[r] = "commit"
    <3>1. ASSUME Upload(r) PROVE FALSE
      <4>1. Commit(r)
        BY <2>4, <3>1, NoFaultNoCrash DEF Upload, AllocateId, AllocateFails, SaveOpen, SaveChunks,
           SaveTooLarge, SaveError, SaveReplace, DetectFails, Put, PutConflict, Respond, CommitFails,
           Running, Resumes
      <4>2. files'[id] = meta[r] /\ meta[r] # None
        BY <1>1, <4>1, CommitOwns, NoRowAssumption DEF Owns, Shape, TypeOK, Tables
      <4> QED BY <4>2
    <3> QED BY <2>1, <2>4, <3>1, UploadMoves
  <2>5. CASE pc[r] = "done" /\ status[r] = "error"
    BY <2>1, <2>5, UploadMoves
  <2> QED BY <1>1, <2>1, <2>2, <2>3, <2>4, <2>5
<1>2. CASE disk[id] # None
  <2>1. files[id] = None
    BY PurgeBeginsSweep
  <2>2. ASSUME NEW p \in Procs, cw[p].pc = "sweep", id \in cw[p].todo PROVE FALSE
    BY <2>2, SweepStep
  <2>3. \E r \in Reqs : Owns(r, id) /\ Has(r)
    BY <1>2, <2>1, <2>2 DEF DiskHeld
  <2> QED BY <1>1, <2>3
<1>3. CASE disk[id] = None
  <2>1. PICK r \in Reqs : SaveReplace(r) /\ Owns(r, id)
    BY <1>3, DiskStep
  <2>2. pc'[r] = "put"
    BY <2>1 DEF SaveReplace, Goto, Shape, TypeOK
  <2> QED BY <2>1, <2>2, OwnsStep
<1> QED BY <1>2, <1>3

\* Every file is in somebody's hands in every reachable state.
THEOREM AccountInvariance == ASSUME FreshIds, Undisturbed PROVE Spec => []AccountInv
<1>1. Init => AccountInv
  BY IInvInit DEF Init, AccountInv, PartHeld, DiskHeld
<1>2. AccountInv /\ [Next]_vars => AccountInv'
  BY IInvStep, PartHeldStep, DiskHeldStep DEF AccountInv
<1> QED BY <1>1, <1>2, PTL DEF Spec

\* Without errors and crashes every file on disk, finished or partial, is named
\* by its row, by the upload it belongs to or by a purge, for any number of
\* processes and requests.
THEOREM FilesAreAccounted == ASSUME FreshIds, Undisturbed PROVE Spec => []FilesAccounted
<1>1. AccountInv => FilesAccounted
  <2> SUFFICES ASSUME AccountInv, NEW id \in Ids, disk[id] # None \/ part[id] # None, files[id] = None,
                      \A p \in Procs : ~(cw[p].pc = "sweep" /\ id \in cw[p].todo)
               PROVE  \E r \in Reqs : Owns(r, id) /\ (Busy(r) \/ status[r] = "error")
    BY DEF FilesAccounted
  <2>1. CASE part[id] # None
    BY <2>1 DEF AccountInv, PartHeld, Busy
  <2>2. CASE disk[id] # None
    BY <2>2 DEF AccountInv, DiskHeld, Busy
  <2> QED BY <2>1, <2>2
<1> QED BY <1>1, AccountInvariance, PTL

-----------------------------------------------------------------------------
(***************************************************************************)
(* Files are lost by failures only                                         *)
(***************************************************************************)

\* How an upload that still saves its file came to the label it stands at.
LEMMA SaveCameFrom ==
  ASSUME Shape, [Next]_vars, NEW r \in Reqs, pc'[r] \in {"save", "write", "replace"}
  PROVE  pc[r] \in {"save", "write", "replace"} \/ AllocateId(r)
<1>1. ASSUME NEW s \in Reqs, Arrive(s) \/ Handler(s), s # r PROVE pc'[r] = pc[r]
  BY <1>1, HandlerOnly DEF Only
<1>2. CASE Arrive(r)
  BY <1>2, ArriveBegins DEF Arrives, Begin, Goto, Shape, TypeOK
<1>3. CASE Handler(r)
  <2>1. CASE Upload(r)
    BY <2>1, UploadGoes DEF SaveOpen, SaveChunks, Running
  <2>2. CASE Fetch(r) \/ Delete(r) \/ Refuse(r) \/ LockedOut(r) \/ DbError(r)
    BY <2>2, FetchGoes, DeleteGoes, RefusalGoes
  <2> QED BY <1>3, <2>1, <2>2 DEF Handler
<1>4. CASE (\E p \in Procs : Cleanup(p)) \/ Tick \/ UNCHANGED vars
  BY <1>4, CleanupOnly DEF handlers
<1>5. CASE \E p \in Procs : Crash(p)
  BY <1>5, CrashGoes
<1> QED BY <1>1, <1>2, <1>3, <1>4, <1>5 DEF Next

\* From a label at which it writes its partial file an upload goes on to the
\* rename or to its end.
LEMMA WriterMoves ==
  ASSUME Shape, [Next]_vars, NEW r \in Reqs, pc[r] \in {"write", "replace"}
  PROVE  pc'[r] \in {"write", "replace", "done"} \/ SaveReplace(r)
<1>1. ASSUME NEW s \in Reqs, Arrive(s) \/ Handler(s), s # r PROVE pc'[r] = pc[r]
  BY <1>1, HandlerOnly DEF Only
<1>2. CASE Arrive(r)
  BY <1>2, ArriveBegins DEF Arrives, Begin
<1>3. CASE Handler(r)
  <2>1. CASE Upload(r)
    BY <2>1, UploadGoes DEF AllocateId, SaveOpen, SaveChunks, Put, Respond, Running, Resumes
  <2>2. CASE Fetch(r) \/ Delete(r) \/ Refuse(r) \/ LockedOut(r) \/ DbError(r)
    BY <2>2, FetchGoes, DeleteGoes, RefusalGoes DEF FetchLabels, PeekLabels, DeleteLabels
  <2> QED BY <1>3, <2>1, <2>2 DEF Handler
<1>4. CASE (\E p \in Procs : Cleanup(p)) \/ Tick \/ UNCHANGED vars
  BY <1>4, CleanupOnly DEF handlers
<1>5. CASE \E p \in Procs : Crash(p)
  BY <1>5, CrashGoes
<1> QED BY <1>1, <1>2, <1>3, <1>4, <1>5 DEF Next

\* What a pass purges it has selected from the table.
LEMMA PurgeCameFrom ==
  ASSUME Shape, [Next]_vars, NEW id \in Ids,
         NEW p \in Procs, cw'[p].pc \in {"purge", "sweep"}, id \in cw'[p].todo
  PROVE  files[id] # None \/ (cw[p].pc \in {"purge", "sweep"} /\ id \in cw[p].todo)
<1> USE DEF Shape, TypeOK
<1>1. CASE CleanupSelectOld(p)
  <2>1. PICK ids \in Batches(OldTombstones(files, now)) :
          Worker(p, IF ids = {} THEN "sleep" ELSE "purge", ids, None)
    BY <1>1 DEF CleanupSelectOld
  <2>2. id \in OldTombstones(files, now)
    BY <2>1 DEF Worker, Batches
  <2> QED BY <2>2, NoRowAssumption DEF OldTombstones, Tombstone
<1>2. CASE CleanupHardDelete(p)
  BY <1>2 DEF CleanupHardDelete, Worker
<1>3. CASE CleanupSweep(p)
  BY <1>3 DEF CleanupSweep, Worker
<1>4. CASE Cleanup(p) /\ ~CleanupSelectOld(p) /\ ~CleanupHardDelete(p) /\ ~CleanupSweep(p)
  <2>1. cw'[p].pc \in {"sleep", "expire", "soft", "unlink"}
    BY <1>4 DEF Cleanup, CleanupStart, CleanupGet, CleanupSoftDelete, CleanupUnlink, CleanupSkips,
       CleanupPass2Fails, Worker
  <2> QED BY <2>1
<1>5. ASSUME NEW q \in Procs \ {p}, Cleanup(q) PROVE cw'[p] = cw[p]
  BY <1>5 DEF Cleanup, CleanupStart, CleanupGet, CleanupSoftDelete, CleanupUnlink, CleanupSkips,
     CleanupSelectOld, CleanupHardDelete, CleanupPass2Fails, CleanupSweep, Worker
<1>6. (\E r \in Reqs : Arrive(r) \/ Handler(r)) \/ Tick \/ UNCHANGED vars => UNCHANGED cw
  BY HandlersKeepWorkers DEF Tick, vars
<1>7. ASSUME NEW q \in Procs, Crash(q) PROVE cw'[p] = cw[p] \/ cw'[p].pc = "sleep"
  BY <1>7, CrashGoes DEF Asleep
<1> QED BY <1>1, <1>2, <1>3, <1>4, <1>5, <1>6, <1>7 DEF Next

\* The steps of an upload that touch its partial file, and what they leave.
LEMMA PartGoes ==
  ASSUME TrackInv, FreshIds, [Next]_vars, NEW id \in Ids, part'[id] # part[id]
  PROVE  \E r \in Reqs :
           /\ Owns(r, id) /\ Busy(r) /\ files'[id] = None /\ UNCHANGED cw
           /\ \/ pc'[r] \in {"write", "replace"}
              \/ SaveError(r) /\ pc'[r] = "done"
              \/ part'[id] = None /\ pc'[r] \in {"put", "done"}
<1> USE DEF TrackInv, IInv, Shape, TypeOK
<1>1. PICK r \in Reqs : Upload(r) /\ Owns(r, id)
  BY PartStep
<1>2. Busy(r) /\ UNCHANGED cw
  <2>1. pc[r] \in UploadLabels
    BY <1>1, UploadGoes
  <2>2. UNCHANGED cw
    BY <1>1, HandlersKeepWorkers DEF Handler
  <2> QED BY <2>1, <2>2 DEF Busy, UploadLabels
<1>3. \/ SaveOpen(r) \/ SaveChunks(r) \/ SaveTooLarge(r) \/ SaveError(r) \/ SaveReplace(r)
  BY <1>1 DEF Upload, AllocateId, AllocateFails, DetectFails, Put, PutConflict, Respond, Commit,
     CommitFails, storage
<1>4. files'[id] = None
  <2>1. files[id] = None
    BY <1>1, <1>2 DEF UploadStages
  <2>2. UNCHANGED files
    BY <1>3 DEF SaveOpen, SaveChunks, SaveTooLarge, SaveError, SaveReplace
  <2> QED BY <2>1, <2>2
<1>5. \/ pc'[r] \in {"write", "replace"}
      \/ SaveError(r) /\ pc'[r] = "done"
      \/ part'[id] = None /\ pc'[r] \in {"put", "done"}
  <2>1. req[r].id = id
    BY <1>1 DEF Owns
  <2> QED BY <1>3, <2>1 DEF SaveOpen, SaveChunks, SaveTooLarge, SaveError, SaveReplace, Goto, Reply
<1> QED BY <1>1, <1>2, <1>4, <1>5

LEMMA PartsAreYoungStep ==
  ASSUME TrackInv, FreshIds, [Next]_vars
  PROVE  PartsAreYoung'
<1> USE DEF TrackInv, IInv
<1> SUFFICES ASSUME NEW id \in Ids, part'[id] # None
             PROVE  /\ files'[id] = None
                    /\ \E r \in Reqs : Owns(r, id)' /\ pc'[r] \in {"write", "replace", "done"}
                    /\ \A p \in Procs : cw'[p].pc \in {"purge", "sweep"} => id \notin cw'[p].todo
  BY DEF PartsAreYoung
<1>1. CASE part'[id] = part[id]
  <2>1. PICK r \in Reqs : Owns(r, id) /\ pc[r] \in {"write", "replace", "done"}
    BY <1>1 DEF PartsAreYoung
  <2>2. /\ files[id] = None
        /\ \A p \in Procs : cw[p].pc \in {"purge", "sweep"} => id \notin cw[p].todo
    BY <1>1 DEF PartsAreYoung
  <2>3. files'[id] = None
    <3>1. ASSUME NEW s \in Reqs, Commit(s), req[s].id = id PROVE FALSE
      <4>1. Owns(s, id) /\ pc[s] = "commit"
        BY <3>1, CommitOwns DEF Commit
      <4> QED BY <2>1, <4>1 DEF IdsAreOwned
    <3>2. ASSUME NEW s \in Reqs, Commit(s), req[s].id # id PROVE files'[id] = files[id]
      BY <3>2, CommitOwns DEF Shape, TypeOK, Tables
    <3>3. Wanes(files, files') => files'[id] = None
      BY <2>2 DEF Wanes
    <3> QED BY <2>2, <3>1, <3>2, <3>3, TableStep
  <2>4. Owns(r, id)' /\ pc'[r] \in {"write", "replace", "done"}
    <3>1. Owns(r, id)' /\ (pc[r] = "done" => pc'[r] = "done")
      BY <2>1, OwnsStep
    <3>2. ASSUME SaveReplace(r) PROVE FALSE
      BY <1>1, <2>1, <3>2 DEF SaveReplace, Owns, Shape, TypeOK
    <3> QED BY <2>1, <3>1, <3>2, WriterMoves
  <2> QED BY <2>2, <2>3, <2>4, PurgeCameFrom
<1>2. CASE part'[id] # part[id]
  <2>1. PICK r \in Reqs :
          /\ Owns(r, id) /\ Busy(r) /\ files'[id] = None /\ UNCHANGED cw
          /\ pc'[r] \in {"write", "replace", "done"}
    BY <1>2, PartGoes
  <2>2. ASSUME NEW p \in Procs, cw[p].pc \in {"purge", "sweep"}, id \in cw[p].todo PROVE FALSE
    <3>1. Known(id)
      BY <2>2 DEF WorkersHoldKnown, SettledIds, Settled
    <3> QED BY <2>1, <3>1 DEF Known, Busy
  <2> QED BY <2>1, <2>2, OwnsStep
<1> QED BY <1>1, <1>2

LEMMA RenameIsFirstStep ==
  ASSUME TrackInv, FreshIds, [Next]_vars
  PROVE  RenameIsFirst'
<1> USE DEF TrackInv, IInv
<1> SUFFICES ASSUME NEW r \in Reqs, NEW id \in Ids, Owns(r, id)', pc'[r] \in {"save", "write", "replace"}
             PROVE  disk'[id] = None
  BY DEF RenameIsFirst
<1>1. disk[id] = None
  <2>1. CASE Owns(r, id)
    <3>1. ASSUME AllocateId(r) PROVE FALSE
      BY <2>1, <3>1, NoneAssumption DEF AllocateId, Running, Owns, Shape, RequestShape
    <3> QED BY <2>1, <3>1, SaveCameFrom DEF RenameIsFirst
  <2>2. CASE ~Owns(r, id)
    BY <2>2, OwnsStep DEF IdsAreOwned
  <2> QED BY <2>1, <2>2
<1>2. ASSUME NEW s \in Reqs, SaveReplace(s), Owns(s, id) PROVE FALSE
  <2>1. Owns(s, id)' /\ pc'[s] = "put"
    BY <1>2, OwnsStep DEF SaveReplace, Goto, Shape, TypeOK
  <2>2. s = r
    BY <2>1, IdsAreOwnedStep DEF IdsAreOwned
  <2> QED BY <2>1, <2>2
<1> QED BY <1>1, <1>2, DiskStep

\* What keeps files within reach holds in every reachable state, with errors
\* and crashes.
THEOREM TrackInvariance == ASSUME FreshIds PROVE Spec => []TrackInv
<1>1. Init => TrackInv
  BY IInvInit DEF Init, TrackInv, PartsAreYoung, RenameIsFirst
<1>2. TrackInv /\ [Next]_vars => TrackInv'
  BY IInvStep, PartsAreYoungStep, RenameIsFirstStep DEF TrackInv
<1> QED BY <1>1, <1>2, PTL DEF Spec

\* The end of the upload that has a file leaves the file to a row, or takes it
\* away, or is a failure.
LEMMA OwnersEnd ==
  ASSUME TrackInv, FreshIds, [Next]_vars, NEW id \in Ids, Abandoned(id)',
         NEW r \in Reqs, Owns(r, id), Busy(r)
  PROVE  LosesTrack(id)
<1> USE DEF TrackInv, IInv, Shape, TypeOK
<1>1. pc'[r] = "done" /\ pc[r] # "done" /\ pc[r] # "idle"
  <2>1. Owns(r, id)' /\ ~Busy(r)'
    BY OwnsStep DEF Abandoned
  <2> QED BY <2>1 DEF Owns, Busy
<1>2. req[r].kind = "upload" /\ req[r].id = id /\ pc[r] # "alloc" /\ pc[r] \in UploadLabels
  BY <1>1, NoneAssumption
     DEF Owns, RequestShape, Labels, UploadLabels, FetchLabels, PeekLabels, DeleteLabels
<1>3. ASSUME NEW s \in Reqs, Arrive(s) \/ Handler(s) PROVE s = r
  <2>1. s # r => pc'[r] = pc[r]
    BY <1>3, HandlerOnly DEF Only
  <2> QED BY <1>1, <2>1
<1>4. ASSUME Arrive(r) PROVE FALSE
  BY <1>1, <1>4, ArriveBegins DEF Arrives, Begin
<1>5. CASE Upload(r)
  <2>1. CASE SaveError(r) \/ DetectFails(r) \/ CommitFails(r)
    BY <2>1 DEF LosesTrack
  <2>2. ASSUME SaveTooLarge(r) PROVE FALSE
    <3>1. part'[id] = None /\ disk' = disk /\ pc[r] = "write"
      BY <1>2, <2>2 DEF SaveTooLarge, Running
    <3>2. disk[id] = None
      BY <3>1 DEF RenameIsFirst
    <3> QED BY <3>1, <3>2 DEF Abandoned
  <2>3. ASSUME PutConflict(r) PROVE FALSE
    BY <1>2, <2>3 DEF PutConflict, UploadStages
  <2>4. ASSUME Commit(r) PROVE FALSE
    <3>1. files'[id] = meta[r] /\ meta[r] # None
      BY <1>2, <2>4, CommitOwns, NoRowAssumption DEF Tables
    <3> QED BY <3>1 DEF Abandoned
  <2>5. ASSUME AllocateId(r) \/ AllocateFails(r) PROVE FALSE
    BY <1>2, <2>5 DEF AllocateId, AllocateFails, Running
  <2>6. ASSUME SaveOpen(r) \/ SaveChunks(r) \/ SaveReplace(r) \/ Put(r) \/ Respond(r) PROVE FALSE
    BY <1>1, <2>6 DEF SaveOpen, SaveChunks, SaveReplace, Put, Respond, Goto
  <2> QED BY <1>5, <2>1, <2>2, <2>3, <2>4, <2>5, <2>6 DEF Upload
<1>6. ASSUME Fetch(r) \/ Delete(r) PROVE FALSE
  BY <1>2, <1>6, FetchGoes, DeleteGoes DEF UploadLabels, FetchLabels, PeekLabels, DeleteLabels
<1>7. ASSUME Refuse(r) PROVE FALSE
  BY <1>2, <1>7 DEF Refuse, Running, UploadLabels
<1>8. CASE LockedOut(r) \/ DbError(r)
  <2>1. pc[r] = "put"
    BY <1>2, <1>8 DEF LockedOut, DbError, Running, UploadLabels
  <2> QED BY <1>8, <2>1 DEF LosesTrack
<1>9. ASSUME (\E p \in Procs : Cleanup(p)) \/ Tick \/ UNCHANGED vars PROVE FALSE
  BY <1>1, <1>9, CleanupOnly DEF handlers
<1>10. ASSUME NEW p \in Procs, Crash(p) PROVE LosesTrack(id)
  <2>1. req[r].proc = p
    BY <1>1, <1>10 DEF Crash
  <2> QED BY <1>10, <2>1 DEF LosesTrack
<1> QED BY <1>3, <1>4, <1>5, <1>6, <1>7, <1>8, <1>9, <1>10 DEF Next, Handler

\* A sweep gives an id up with its file, or fails.
LEMMA SweepsEnd ==
  ASSUME TrackInv, [Next]_vars, NEW id \in Ids, Abandoned(id)',
         NEW p \in Procs, cw[p].pc = "sweep", id \in cw[p].todo
  PROVE  LosesTrack(id)
<1> USE DEF TrackInv, IInv, Shape, TypeOK
<1>1. ~(cw'[p].pc = "sweep" /\ id \in cw'[p].todo)
  BY DEF Abandoned
<1>2. ASSUME CleanupSweep(p), faults' = faults PROVE FALSE
  <2>0. ~Fault
    BY <1>2 DEF Fault
  <2>1. PICK fid \in cw[p].todo :
          /\ disk' = [disk EXCEPT ![fid] = None]
          /\ LET rest == cw[p].todo \ {fid} IN
               Worker(p, IF rest = {} THEN "sleep" ELSE "sweep", rest, None)
    BY <1>2, <2>0 DEF CleanupSweep
  <2>2. fid = id
    BY <1>1, <2>1 DEF Worker
  <2>3. disk'[id] = None /\ part'[id] = part[id]
    BY <1>2, <2>1, <2>2 DEF CleanupSweep
  <2> QED BY <2>3 DEF Abandoned, PartsAreYoung
<1>3. CASE CleanupSweep(p) /\ faults' # faults
  BY <1>3 DEF LosesTrack
<1>4. ASSUME Cleanup(p), ~CleanupSweep(p) PROVE FALSE
  BY <1>4 DEF Cleanup, CleanupStart, CleanupGet, CleanupSoftDelete, CleanupUnlink, CleanupSkips,
     CleanupSelectOld, CleanupHardDelete, CleanupPass2Fails
<1>5. ASSUME NEW q \in Procs \ {p}, Cleanup(q) PROVE FALSE
  <2>1. cw'[p] = cw[p]
    BY <1>5 DEF Cleanup, CleanupStart, CleanupGet, CleanupSoftDelete, CleanupUnlink, CleanupSkips,
       CleanupSelectOld, CleanupHardDelete, CleanupPass2Fails, CleanupSweep, Worker
  <2> QED BY <1>1, <2>1
<1>6. ASSUME (\E r \in Reqs : Arrive(r) \/ Handler(r)) \/ Tick \/ UNCHANGED vars PROVE FALSE
  BY <1>1, <1>6, HandlersKeepWorkers DEF Tick, vars
<1>7. ASSUME NEW q \in Procs, Crash(q) PROVE LosesTrack(id)
  <2>1. q = p
    BY <1>1, <1>7, CrashGoes
  <2> QED BY <1>7, <2>1 DEF LosesTrack
<1> QED BY <1>2, <1>3, <1>4, <1>5, <1>6, <1>7 DEF Next

\* Every step that leaves the bytes of an id to nobody is a failure of its
\* upload or of its purge, or the death of the process of one of them.
LEMMA AbandonedBy ==
  ASSUME TrackInv, FreshIds, [Next]_vars, NEW id \in Ids, Abandoned(id)', ~Abandoned(id)
  PROVE  LosesTrack(id)
<1> USE DEF TrackInv, IInv
<1>1. CASE disk[id] = None /\ part[id] = None
  <2>1. part'[id] # None
    <3>1. disk'[id] = None
      BY <1>1, DiskStep
    <3> QED BY <3>1 DEF Abandoned
  <2>2. PICK r \in Reqs :
          /\ Owns(r, id) /\ Busy(r)
          /\ pc'[r] \in {"write", "replace"} \/ SaveError(r)
    BY <1>1, <2>1, PartGoes
  <2> QED BY <2>2, OwnersEnd
<1>2. ASSUME files[id] # None PROVE FALSE
  BY <1>2, PurgeBeginsSweep DEF Abandoned
<1>3. CASE \E r \in Reqs : Owns(r, id) /\ Busy(r)
  BY <1>3, OwnersEnd
<1>4. CASE \E p \in Procs : cw[p].pc = "sweep" /\ id \in cw[p].todo
  BY <1>4, SweepsEnd
<1> QED BY <1>1, <1>2, <1>3, <1>4 DEF Abandoned

\* With any number of errors and crashes, files are lost track of by the
\* failures named in LosesTrack only, for any number of processes.
THEOREM FailuresAloneAbandon == ASSUME FreshIds PROVE Spec => OnlyFailuresAbandon
<1>1. TrackInv /\ [Next]_vars =>
        [\A id \in Ids : Abandoned(id)' => Abandoned(id) \/ LosesTrack(id)]_vars
  BY AbandonedBy
<1> QED BY <1>1, TrackInvariance, PTL DEF Spec, OnlyFailuresAbandon

=============================================================================
