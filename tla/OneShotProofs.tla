---------------------------- MODULE OneShotProofs ----------------------------
(***************************************************************************)
(* One process serves a one-shot file once.  With one process the event    *)
(* loop keeps the look-up of a row and its consumption together; that is   *)
(* all the code relies on, and with two processes the property is false.   *)
(***************************************************************************)
EXTENDS DropServerProofs

\* A request becomes a redeemer in the step that consumes the one-shot.
LEMMA RedeemerStep ==
  ASSUME IInv, [Next]_vars, NEW id \in Ids, NEW s \in Redeemers(id)', s \notin Redeemers(id)
  PROVE  /\ ConsumeOneShot(s) /\ s \in Reqs
         /\ req[s].id = id /\ req[s].kind = "fetch" /\ meta[s].one_shot
         /\ UNCHANGED <<req, meta>>
<1> USE DEF IInv, Shape, TypeOK
<1>1. /\ s \in Reqs /\ status'[s] = "ok" /\ req'[s].kind = "fetch" /\ req'[s].range = "full"
      /\ req'[s].id = id /\ meta'[s].one_shot
  BY DEF Redeemers, ServedWhole
<1>2. ASSUME status'[s] = status[s], req'[s] = req[s], meta'[s] = meta[s] PROVE FALSE
  BY <1>1, <1>2 DEF Redeemers, ServedWhole
<1>3. ASSUME NEW r \in Reqs, Arrive(r) \/ Handler(r), s # r PROVE FALSE
  BY <1>1, <1>2, <1>3, HandlerOnly DEF Only
<1>4. ASSUME Arrive(s) PROVE FALSE
  BY <1>1, <1>4 DEF Arrive, BeginUpload, BeginFetch, BeginPeek, BeginDelete, Begin, answers, Unanswered
<1>5. ASSUME Upload(s) PROVE FALSE
  BY <1>1, <1>5, UploadKind
<1>6. ASSUME Delete(s) PROVE FALSE
  BY <1>1, <1>6, DeleteGoes DEF DeleteLabels, RequestShape
<1>7. ASSUME Refuse(s) \/ LockedOut(s) \/ DbError(s) PROVE FALSE
  BY <1>1, <1>7, RefusalGoes
<1>8. CASE Fetch(s)
  <2>1. req' = req /\ (pc[s] \in {"get", "raw", "exists", "mark", "consume"} => status[s] = "none")
    BY <1>1, <1>8, FetchGoes DEF Unanswered
  <2>2. ASSUME CheckMeta(s) \/ CheckRaw(s) \/ PathExists(s) PROVE FALSE
    BY <1>1, <2>1, <2>2 DEF CheckMeta, CheckRaw, PathExists, Running, Reply, answers
  <2>3. ASSUME CountFetch(s) PROVE FALSE
    <3>1. meta' = meta /\ status[s] = "none"
      BY <1>1, <2>1, <2>3 DEF CountFetch, Running
    <3>2. Consumes(s)
      BY <1>1, <2>1, <3>1 DEF Consumes
    <3> QED BY <1>1, <2>3, <3>1, <3>2 DEF CountFetch
  <2>4. ASSUME OpenBody(s) \/ EndBody(s) PROVE FALSE
    BY <1>1, <1>2, <2>4 DEF OpenBody, EndBody
  <2>5. ConsumeOneShot(s)
    BY <1>8, <2>2, <2>3, <2>4 DEF Fetch
  <2>6. meta' = meta
    BY <2>5 DEF ConsumeOneShot
  <2> QED BY <1>1, <2>1, <2>5, <2>6
<1>9. ASSUME (\E p \in Procs : Cleanup(p)) \/ Tick \/ UNCHANGED vars PROVE FALSE
  BY <1>1, <1>2, <1>9, CleanupOnly DEF handlers
<1>10. ASSUME \E p \in Procs : Crash(p) PROVE FALSE
  BY <1>1, <1>2, <1>10, CrashGoes
<1> QED BY <1>1, <1>3, <1>4, <1>5, <1>6, <1>7, <1>8, <1>9, <1>10 DEF Next, Handler

\* A redeemer's handler has begun, and has left the id settled.
LEMMA RedeemedIsSettled ==
  ASSUME OneShotInv, NEW id \in Ids, NEW s \in Redeemers(id)
  PROVE  s \in Reqs /\ id \in SettledIds
<1>1. s \in Reqs /\ ServedWhole(s) /\ req[s].id = id /\ meta[s].one_shot
  BY DEF Redeemers
<1>2. pc[s] # "idle"
  BY <1>1 DEF ServedWhole, OneShotInv, IInv, Unanswered
<1> QED BY <1>1, <1>2 DEF OneShotInv, FetchesAdmitted, ServedWhole

\* One process runs one of two fetches that are both on their way.
LEMMA OneFetchAtATime ==
  ASSUME IInv, OneProcess, NEW r \in Reqs, NEW s \in Reqs,
         pc[r] \in OnLoopLabels, pc[s] \in OnLoopLabels
  PROVE  r = s
<1>1. loop[req[r].proc] = r /\ loop[req[s].proc] = s
  BY DEF IInv, OneOnLoop
<1>2. req[r].proc \in Procs /\ req[s].proc \in Procs
  BY DEF IInv, Shape, RequestShape, Requests, OnLoopLabels
<1> QED BY <1>1, <1>2 DEF OneProcess

\* While a fetch that has looked up its row is on the event loop nobody
\* redeems the link, and whoever redeems it settles it.
LEMMA FetchesAdmittedStep ==
  ASSUME OneShotInv, FreshIds, OneProcess, [Next]_vars
  PROVE  FetchesAdmitted'
<1> USE DEF OneShotInv
<1> SUFFICES ASSUME NEW r \in Reqs, pc'[r] # "idle", req'[r].kind = "fetch"
             PROVE  /\ pc'[r] \in {"exists", "mark", "consume"} =>
                         /\ meta'[r] \in Rows
                         /\ req'[r].id \in KnownIds'
                         /\ \A s \in Reqs : ~(/\ ServedWhole(s)' /\ req'[s].id = req'[r].id
                                              /\ meta'[s].one_shot)
                    /\ ServedWhole(r)' /\ meta'[r].one_shot => req'[r].id \in SettledIds'
  BY DEF FetchesAdmitted, Redeemers
<1>1. KnownIds \subseteq KnownIds' /\ SettledIds \subseteq SettledIds'
  BY KnownStable, SettledStable DEF IInv, KnownIds, SettledIds
<1>2. Shape'
  BY ShapeStep DEF IInv
<1>3. ASSUME pc'[r] \in {"exists", "mark", "consume"}
      PROVE  /\ meta'[r] \in Rows /\ req'[r].id \in KnownIds'
             /\ \A s \in Reqs : ~(ServedWhole(s)' /\ req'[s].id = req'[r].id /\ meta'[s].one_shot)
  <2> DEFINE id == req[r].id
  <2>1. req'[r] = req[r] /\ pc[r] \in OnLoopLabels /\ id \in Ids /\ req[r].kind = "fetch" /\ pc[r] # "idle"
    <3>1. req'[r] = req[r] /\ pc[r] \in {"get", "exists", "mark", "consume"}
      BY <1>3, AdmittedFrom DEF CheckMeta, Running
    <3> QED BY <3>1 DEF OnLoopLabels, IInv, Shape, RequestShape
  <2>2. ASSUME NEW s \in Redeemers(id)', s \notin Redeemers(id) PROVE FALSE
    <3>1. ConsumeOneShot(s) /\ s \in Reqs
      BY <2>1, <2>2, RedeemerStep
    <3>2. pc[s] = "consume" /\ pc'[s] = "open"
      BY <3>1 DEF ConsumeOneShot, Running, Serve, Goto, IInv, Shape, TypeOK
    <3>3. r = s
      BY <2>1, <3>1, <3>2, OneFetchAtATime DEF OnLoopLabels
    <3> QED BY <1>3, <3>2, <3>3
  <2>3. CASE pc[r] \in {"exists", "mark", "consume"} /\ meta'[r] = meta[r]
    <3>1. meta[r] \in Rows /\ id \in KnownIds /\ Redeemers(id) = {}
      BY <2>1, <2>3 DEF FetchesAdmitted
    <3> QED BY <1>1, <2>1, <2>2, <2>3, <3>1 DEF Redeemers
  <2>4. CASE CheckMeta(r) /\ pc'[r] = "exists"
    <3>1. Live(files[id]) /\ meta'[r] = files[id]
      BY <2>4 DEF CheckMeta, Get, Live, Reply, Goto, IInv, Shape, TypeOK
    <3>2. id \in KnownIds /\ id \notin SettledIds
      BY <2>1, <3>1, RowIsKnown DEF KnownIds, SettledIds, Settled, Live
    <3>3. meta'[r] \in Rows
      BY <2>1, <3>1 DEF Live, IInv, Shape, TypeOK, Tables
    <3>4. Redeemers(id) = {}
      BY <2>1, <3>2, RedeemedIsSettled
    <3> QED BY <1>1, <2>1, <2>2, <3>2, <3>3, <3>4 DEF Redeemers
  <2> QED BY <1>3, <2>3, <2>4, AdmittedFrom
<1>4. ASSUME ServedWhole(r)', meta'[r].one_shot PROVE req'[r].id \in SettledIds'
  <2>1. PICK id \in Ids : id = req'[r].id
    BY <1>2 DEF Shape, RequestShape, Requests
  <2>2. r \in Redeemers(id)'
    BY <1>4, <2>1 DEF Redeemers
  <2>3. CASE r \in Redeemers(id)
    BY <1>1, <2>1, <2>3, RedeemedIsSettled
  <2>4. CASE r \notin Redeemers(id)
    <3> IInv
      BY DEF OneShotInv
    <3>1. ConsumeOneShot(r) /\ req[r].id = id /\ req[r].kind = "fetch"
      BY <2>2, <2>4, RedeemerStep
    <3>2. pc[r] = "consume" /\ files' = SoftDelete(files, id, now)
      BY <3>1 DEF ConsumeOneShot, Running
    <3>3. id \in KnownIds'
      BY <1>1, <3>1, <3>2 DEF FetchesAdmitted
    <3>4. ~Live(files'[id])
      BY <2>1, <3>2, SoftDeleteWanes DEF IInv, Shape, TypeOK
    <3> QED BY <2>1, <3>3, <3>4 DEF KnownIds, SettledIds, Settled
  <2> QED BY <2>3, <2>4
<1> QED BY <1>3, <1>4

\* Two requests do not redeem one link.
LEMMA OneShotServedOnceStep ==
  ASSUME OneShotInv, FreshIds, OneProcess, [Next]_vars
  PROVE  OneShotServedOnce'
<1> USE DEF OneShotInv
<1> SUFFICES ASSUME NEW id \in Ids, NEW r \in Redeemers(id)', NEW s \in Redeemers(id)'
             PROVE  r = s
  BY DEF OneShotServedOnce
<1>1. ASSUME NEW t \in Redeemers(id)', t \notin Redeemers(id)
      PROVE  t \in Reqs /\ pc[t] = "consume" /\ Redeemers(id) = {}
  <2>1. ConsumeOneShot(t) /\ t \in Reqs /\ req[t].id = id /\ req[t].kind = "fetch"
    BY <1>1, RedeemerStep
  <2>2. pc[t] = "consume"
    BY <2>1 DEF ConsumeOneShot, Running
  <2> QED BY <2>1, <2>2 DEF FetchesAdmitted
<1>2. CASE r \in Redeemers(id) /\ s \in Redeemers(id)
  BY <1>2 DEF OneShotServedOnce
<1>3. CASE r \notin Redeemers(id) \/ s \notin Redeemers(id)
  <2>1. r \notin Redeemers(id) /\ s \notin Redeemers(id)
    BY <1>1, <1>3
  <2> QED BY <1>1, <2>1, OneFetchAtATime DEF OnLoopLabels
<1> QED BY <1>2, <1>3

\* The strengthened invariant holds in every reachable state of one process.
THEOREM OneShotInvariance == ASSUME FreshIds, OneProcess PROVE Spec => []OneShotInv
<1>1. Init => OneShotInv
  <2> SUFFICES ASSUME Init PROVE OneShotInv
    OBVIOUS
  <2>1. IInv /\ \A r \in Reqs : pc[r] = "idle" /\ status[r] = "none"
    BY IInvInit DEF Init
  <2> QED BY <2>1 DEF OneShotInv, FetchesAdmitted, OneShotServedOnce, Redeemers, ServedWhole
<1>2. OneShotInv /\ [Next]_vars => OneShotInv'
  BY IInvStep, FetchesAdmittedStep, OneShotServedOnceStep DEF OneShotInv
<1> QED BY <1>1, <1>2, PTL DEF Spec

\* In one process the whole of a one-shot file is promised to one request at
\* most, whatever fetches, deletes, cleanup passes, errors and crashes do.
THEOREM OneShotIsOnce == ASSUME FreshIds, OneProcess PROVE Spec => []OneShotServedOnce
<1>1. OneShotInv => OneShotServedOnce
  BY DEF OneShotInv
<1> QED BY <1>1, OneShotInvariance, PTL

-----------------------------------------------------------------------------
(***************************************************************************)
(* The server implements OneShotLink                                       *)
(***************************************************************************)

\* A redeemer stays one: its answer has been given.
LEMMA RedeemersStay ==
  ASSUME IInv, [Next]_vars, NEW id \in Ids, NEW s \in Redeemers(id)
  PROVE  s \in Redeemers(id)'
<1> USE DEF IInv, Shape, TypeOK
<1>1. /\ s \in Reqs /\ status[s] = "ok" /\ req[s].kind = "fetch" /\ req[s].range = "full"
      /\ req[s].id = id /\ meta[s].one_shot
  BY DEF Redeemers, ServedWhole
<1>2. pc[s] \in {"open", "body", "done"}
  BY <1>1 DEF Unanswered, Labels, RequestShape, UploadLabels
<1> SUFFICES status'[s] = status[s] /\ req'[s] = req[s] /\ meta'[s] = meta[s]
  BY <1>1 DEF Redeemers, ServedWhole
<1>3. ASSUME NEW r \in Reqs, Arrive(r) \/ Handler(r), s # r
      PROVE  status'[s] = status[s] /\ req'[s] = req[s] /\ meta'[s] = meta[s]
  BY <1>1, <1>3, HandlerOnly DEF Only
<1>4. ASSUME Arrive(s) PROVE FALSE
  BY <1>2, <1>4 DEF Arrive, BeginUpload, BeginFetch, BeginPeek, BeginDelete, Begin
<1>5. ASSUME Upload(s) \/ Delete(s) \/ Refuse(s) \/ LockedOut(s) \/ DbError(s) PROVE FALSE
  BY <1>1, <1>2, <1>5, UploadGoes, DeleteGoes, RefusalGoes DEF UploadLabels, DeleteLabels, OnLoopLabels
<1>6. CASE Fetch(s)
  <2>1. OpenBody(s) \/ EndBody(s)
    BY <1>2, <1>6 DEF Fetch, CheckMeta, CheckRaw, PathExists, CountFetch, ConsumeOneShot, Running
  <2> QED BY <2>1 DEF OpenBody, EndBody
<1>7. CASE (\E p \in Procs : Cleanup(p)) \/ Tick \/ UNCHANGED vars
  BY <1>7, CleanupOnly DEF handlers
<1>8. CASE \E p \in Procs : Crash(p)
  BY <1>8, CrashGoes
<1> QED BY <1>1, <1>3, <1>4, <1>5, <1>6, <1>7, <1>8 DEF Next, Handler

\* The redeemers change in no other step than the one that consumes the file.
LEMMA SameRedeemers ==
  ASSUME IInv, [Next]_vars, NEW id \in Ids,
         \A r \in Reqs : ConsumeOneShot(r) => req[r].id # id \/ ~Consumes(r)
  PROVE  Redeemers(id)' = Redeemers(id)
<1>1. ASSUME NEW s \in Redeemers(id)', s \notin Redeemers(id) PROVE FALSE
  <2>1. /\ ConsumeOneShot(s) /\ s \in Reqs /\ req[s].id = id /\ meta[s].one_shot
        /\ UNCHANGED <<req, meta>>
    BY <1>1, RedeemerStep
  <2>2. req[s].range = "full"
    BY <1>1, <2>1 DEF Redeemers, ServedWhole
  <2> QED BY <2>1, <2>2 DEF Consumes
<1> QED BY <1>1, RedeemersStay

\* The link of an id depends on who owns it and on whether its row is live.
LEMMA LinkSame ==
  ASSUME NEW id \in Ids, Known(id)' = Known(id), Live(files'[id]) = Live(files[id])
  PROVE  LinkState(id)' = LinkState(id)
  BY DEF LinkState

\* A step that leaves the table alone can end uploads that published nothing.
LEMMA AbandonStep ==
  ASSUME IInv, FreshIds, [Next]_vars, UNCHANGED files,
         \A id \in Ids : Redeemers(id)' = Redeemers(id)
  PROVE  Promise!Next
<1> DEFINE over == {id \in Ids : ~Known(id) /\ Known(id)'}
<1>1. ASSUME NEW id \in over PROVE LinkState(id) = "absent" /\ LinkState(id)' = "dead"
  <2>1. files[id] = None
    BY <1>1, RowIsKnown
  <2> QED BY <1>1, <2>1 DEF LinkState, Live
<1>2. ASSUME NEW id \in Ids \ over PROVE LinkState(id)' = LinkState(id)
  <2>1. Known(id)' <=> Known(id)
    <3>1. CASE Known(id)
      BY <3>1, KnownStable DEF IInv
    <3>2. CASE ~Known(id)
      BY <1>2, <3>2
    <3> QED BY <3>1, <3>2
  <2> QED BY <2>1 DEF LinkState
<1>3. Promise!Abandon(over)
  BY <1>1, <1>2 DEF Promise!Abandon
<1> QED BY <1>3 DEF Promise!Next

\* The statements that write the table end no upload, but for the commit.
LEMMA WritersKeepKnown ==
  ASSUME Shape, [Next]_vars, NEW id \in Ids,
         \/ \E r \in Reqs : CountFetch(r) \/ ConsumeOneShot(r) \/ DeleteRow(r)
         \/ \E p \in Procs : CleanupSoftDelete(p) \/ CleanupHardDelete(p)
  PROVE  Known(id)' = Known(id)
<1>1. ASSUME NEW r \in Reqs, CountFetch(r) \/ ConsumeOneShot(r) \/ DeleteRow(r)
      PROVE  Known(id)' = Known(id)
  <2>1. UNCHANGED <<req, generated>> /\ req[r].kind # "upload"
    BY <1>1 DEF CountFetch, ConsumeOneShot, DeleteRow, Running, Shape, RequestShape, FetchLabels, DeleteLabels
  <2>2. \A s \in Reqs \ {r} : pc'[s] = pc[s]
    BY <1>1, HandlerOnly DEF Only, Handler, Fetch, Delete
  <2> QED BY <2>1, <2>2 DEF Known, Owns
<1>2. ASSUME NEW p \in Procs, CleanupSoftDelete(p) \/ CleanupHardDelete(p)
      PROVE  Known(id)' = Known(id)
  BY <1>2 DEF CleanupSoftDelete, CleanupHardDelete, handlers, Known, Owns
<1> QED BY <1>1, <1>2

\* Soft-deleting id kills its link, if it was live, and no other one.
LEMMA SoftDeleteLinks ==
  ASSUME Shape, NEW id \in Ids, files' = SoftDelete(files, id, now),
         \A i \in Ids : Known(i)' = Known(i)
  PROVE  /\ LinkState(id)' = (IF Known(id) THEN "dead" ELSE "absent")
         /\ \A i \in Ids \ {id} : LinkState(i)' = LinkState(i)
<1>1. ~Live(files'[id])
  BY SoftDeleteWanes DEF Shape, TypeOK
<1>2. \A i \in Ids \ {id} : files'[i] = files[i]
  BY DEF SoftDelete, Shape, TypeOK, Tables
<1> QED BY <1>1, <1>2 DEF LinkState

\* A DELETE, and a cleanup thread, kill a live link or change nothing.
LEMMA KillStep ==
  ASSUME Shape, NEW id \in Ids, files' = SoftDelete(files, id, now),
         \A i \in Ids : Known(i)' = Known(i) /\ Redeemers(i)' = Redeemers(i)
  PROVE  [Promise!Next]_(Promise!vars)
<1>1. /\ LinkState(id)' = (IF Known(id) THEN "dead" ELSE "absent")
      /\ \A i \in Ids \ {id} : LinkState(i)' = LinkState(i)
  BY SoftDeleteLinks
<1>2. CASE LinkState(id) = "live"
  <2>1. LinkState(id)' = "dead"
    BY <1>1, <1>2 DEF LinkState
  <2>2. Promise!Kill(id)
    BY <1>1, <1>2, <2>1 DEF Promise!Kill
  <2> QED BY <2>2 DEF Promise!Next
<1>3. CASE LinkState(id) # "live"
  <2>1. LinkState(id)' = LinkState(id)
    BY <1>1, <1>3 DEF LinkState
  <2> QED BY <1>1, <2>1 DEF Promise!vars
<1> QED BY <1>2, <1>3

\* Counting a fetch, and purging what is settled, leave every link as it is.
LEMMA QuietStep ==
  ASSUME \A i \in Ids : /\ Known(i)' = Known(i) /\ Redeemers(i)' = Redeemers(i)
                        /\ Live(files'[i]) = Live(files[i])
  PROVE  UNCHANGED Promise!vars
  BY LinkSame DEF Promise!vars

\* The commit of an upload publishes its link.
LEMMA PublishStep ==
  ASSUME IInv, FreshIds, [Next]_vars, NEW r \in Reqs, Commit(r)
  PROVE  Promise!Next
<1> USE DEF IInv, Shape, TypeOK
<1>0. PICK id \in Ids : id = req[r].id
  BY CommitOwns
<1>1. /\ id = req[r].id /\ Owns(r, id) /\ ~Known(id)
      /\ files' = [files EXCEPT ![id] = meta[r]]
      /\ meta[r] \in Rows /\ meta[r].deleted_at = None
      /\ UNCHANGED <<generated, req>>
  BY <1>0, CommitOwns
<1>2. pc' = [pc EXCEPT ![r] = "done"] /\ UNCHANGED <<meta, status>>
  BY DEF Commit, Goto, answers
<1>3. Known(id)'
  <2>1. id \in generated'
    BY <1>1 DEF IdsAreOwned
  <2>2. ASSUME NEW s \in Reqs, Owns(s, id)' PROVE pc'[s] = "done"
    <3>1. Owns(s, id)
      BY <1>1, <2>2, OwnsStep
    <3> QED BY <1>1, <1>2, <3>1 DEF IdsAreOwned
  <2> QED BY <2>1, <2>2 DEF Known
<1>4. ASSUME NEW i \in Ids \ {id} PROVE Known(i)' = Known(i) /\ files'[i] = files[i]
  <2>1. ~Owns(r, i)
    BY <1>1 DEF Owns
  <2>2. ~Owns(r, i)'
    BY <1>1, <2>1 DEF Owns
  <2>3. \A s \in Reqs \ {r} : pc'[s] = pc[s]
    BY <1>2
  <2>4. \A s \in Reqs : Owns(s, i)' <=> Owns(s, i)
    BY <1>1, <2>1, <2>2, <2>3 DEF Owns
  <2>5. Known(i)' = Known(i)
    <3>1. \A s \in Reqs : Owns(s, i) => s # r /\ pc'[s] = pc[s]
      BY <2>1, <2>3
    <3> HIDE DEF IInv, Shape, TypeOK
    <3> QED BY <1>1, <2>4, <3>1 DEF Known
  <2>6. files'[i] = files[i]
    BY <1>1 DEF Tables
  <2> QED BY <2>5, <2>6
<1>5. LinkState(id) = "absent" /\ LinkState(id)' = "live"
  BY <1>1, <1>3, NoRowAssumption DEF LinkState, Live, Tables
<1>6. \A i \in Ids \ {id} : LinkState(i)' = LinkState(i)
  BY <1>4 DEF LinkState
<1>7. \A i \in Ids : Redeemers(i)' = Redeemers(i)
  BY <1>1, <1>2 DEF Redeemers, ServedWhole
<1>8. Promise!Publish(id)
  BY <1>1, <1>5, <1>6, <1>7 DEF Promise!Publish
<1> QED BY <1>1, <1>8 DEF Promise!Next

\* The fetch that consumes a one-shot file redeems its link and kills it.
LEMMA RedeemStep ==
  ASSUME OneShotInv, FreshIds, OneProcess, [Next]_vars, NEW r \in Reqs, ConsumeOneShot(r)
  PROVE  [Promise!Next]_(Promise!vars)
<1> USE DEF OneShotInv, IInv, Shape, TypeOK
<1>0. PICK id \in Ids : id = req[r].id
  BY DEF ConsumeOneShot, Running, RequestShape, FetchLabels
<1>1. /\ pc[r] = "consume" /\ req[r].kind = "fetch" /\ id = req[r].id
      /\ files' = SoftDelete(files, id, now)
      /\ status' = [status EXCEPT ![r] = "ok"] /\ UNCHANGED <<req, meta>>
  BY <1>0 DEF ConsumeOneShot, Running, Serve, RequestShape, FetchLabels
<1>2. Known(id) /\ Redeemers(id) = {}
  BY <1>1 DEF FetchesAdmitted, KnownIds
<1>3. \A i \in Ids : Known(i)' = Known(i)
  BY WritersKeepKnown
<1>4. ASSUME NEW s \in Reqs, ConsumeOneShot(s) PROVE s = r
  BY <1>1, <1>4, OneFetchAtATime DEF ConsumeOneShot, Running, OnLoopLabels
<1>5. CASE Consumes(r)
  <2>1. Redeemers(id)' = {r}
    <3>1. r \in Redeemers(id)'
      BY <1>1, <1>5 DEF Consumes, Redeemers, ServedWhole
    <3>2. \A s \in Redeemers(id)' : s = r
      BY <1>1, <1>2, <1>4, RedeemerStep
    <3> HIDE DEF OneShotInv, IInv, Shape, TypeOK
    <3> QED BY <3>1, <3>2, Zenon
  <2>2. \A i \in Ids \ {id} : Redeemers(i)' = Redeemers(i)
    BY <1>1, <1>4, SameRedeemers
  <2>3. /\ LinkState(id) # "absent" /\ LinkState(id)' = "dead"
        /\ \A i \in Ids \ {id} : LinkState(i)' = LinkState(i)
    BY <1>1, <1>2, <1>3, SoftDeleteLinks DEF LinkState
  <2>4. Promise!Redeem(id, r)
    BY <1>1, <1>2, <2>1, <2>2, <2>3 DEF Promise!Redeem
  <2> QED BY <1>1, <2>4 DEF Promise!Next
<1>6. CASE ~Consumes(r)
  BY <1>1, <1>3, <1>4, <1>6, SameRedeemers, KillStep
<1> QED BY <1>5, <1>6

\* Every step of the server is a step of OneShotLink, or leaves its links and
\* their redeemers as they are.
LEMMA PromiseStep ==
  ASSUME OneShotInv, FreshIds, OneProcess, [Next]_vars
  PROVE  [Promise!Next]_(Promise!vars)
<1> USE DEF OneShotInv
<1>1. CASE \E r \in Reqs : ConsumeOneShot(r)
  BY <1>1, RedeemStep
<1>2. CASE ~\E r \in Reqs : ConsumeOneShot(r)
  <2>1. \A i \in Ids : Redeemers(i)' = Redeemers(i)
    BY <1>2, SameRedeemers
  <2>2. CASE UNCHANGED files
    BY <2>1, <2>2, AbandonStep
  <2>3. CASE \E r \in Reqs : Commit(r)
    BY <2>3, PublishStep
  <2>4. ASSUME NEW r \in Reqs, CountFetch(r) \/ DeleteRow(r)
        PROVE  [Promise!Next]_(Promise!vars)
    <3>1. req[r].id \in Ids /\ files \in Tables
      BY <2>4 DEF CountFetch, DeleteRow, Running, IInv, Shape, TypeOK, RequestShape, FetchLabels, DeleteLabels
    <3>2. \A i \in Ids : Known(i)' = Known(i)
      BY <2>4, WritersKeepKnown DEF IInv
    <3>3. CASE CountFetch(r)
      <4>1. \A i \in Ids : Live(files'[i]) = Live(files[i])
        BY <3>1, <3>3, MarkFetchedLive DEF CountFetch
      <4> QED BY <2>1, <3>2, <4>1, QuietStep
    <3>4. CASE DeleteRow(r)
      BY <2>1, <3>1, <3>2, <3>4, KillStep DEF DeleteRow, IInv
    <3> QED BY <2>4, <3>3, <3>4
  <2>5. ASSUME NEW p \in Procs, CleanupSoftDelete(p) PROVE [Promise!Next]_(Promise!vars)
    <3>1. cw[p].fid \in Ids /\ files' = SoftDelete(files, cw[p].fid, now)
      BY <2>5 DEF CleanupSoftDelete, IInv, Shape, WorkerShape
    <3>2. \A i \in Ids : Known(i)' = Known(i)
      BY <2>5, WritersKeepKnown DEF IInv
    <3> QED BY <2>1, <3>1, <3>2, KillStep DEF IInv
  <2>6. ASSUME NEW p \in Procs, CleanupHardDelete(p) PROVE [Promise!Next]_(Promise!vars)
    <3>1. files' = HardDelete(files, cw[p].todo) /\ cw[p].todo \subseteq SettledIds
      BY <2>6 DEF CleanupHardDelete, IInv, WorkersHoldKnown
    <3>2. \A i \in Ids : Live(files'[i]) = Live(files[i])
      BY <3>1 DEF HardDelete, Live, SettledIds, Settled
    <3>3. \A i \in Ids : Known(i)' = Known(i)
      BY <2>6, WritersKeepKnown DEF IInv
    <3> QED BY <2>1, <3>2, <3>3, QuietStep
  <2> QED BY <1>2, <2>2, <2>3, <2>4, <2>5, <2>6, TableWriters
<1> QED BY <1>1, <1>2

\* The server keeps its promise: with one process and fresh ids it implements
\* OneShotLink, so that a link is published once, dies once and is redeemed
\* once, whatever errors, crashes, lock timeouts and cleanup passes come between.
THEOREM ServerKeepsPromise == ASSUME FreshIds, OneProcess PROVE Spec => KeepsPromise
<1>1. Init => Promise!Init
  BY DEF Init, Promise!Init, LinkState, Known, Redeemers, ServedWhole
<1>2. OneShotInv /\ [Next]_vars => [Promise!Next]_(Promise!vars)
  BY PromiseStep
<1> QED BY <1>1, <1>2, OneShotInvariance, PTL DEF Spec, KeepsPromise, Promise!Spec

=============================================================================
