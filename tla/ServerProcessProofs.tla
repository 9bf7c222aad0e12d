------------------------- MODULE ServerProcessProofs -------------------------
(***************************************************************************)
(* Theorems about ServerProcess, for any number of requests, connections,  *)
(* sessions of a pass, starts and crashes.                                 *)
(***************************************************************************)
EXTENDS ServerProcess, FiniteSetTheorems, TLAPS

-----------------------------------------------------------------------------
(***************************************************************************)
(* Counting connections                                                    *)
(***************************************************************************)

\* One session that takes or gives back a connection changes the number of
\* connections in use by one.
LEMMA HoldersCount ==
  ASSUME NEW h \in [Requests -> BOOLEAN], NEW r \in Requests, NEW b \in BOOLEAN
  PROVE  LET n(f) == Cardinality({q \in Requests : f[q]}) IN
         /\ n(h) \in Nat
         /\ h[r] => n(h) > 0
         /\ (b <=> h[r])  => n([h EXCEPT ![r] = b]) = n(h)
         /\ (b /\ ~h[r])  => n([h EXCEPT ![r] = b]) = n(h) + 1
         /\ (~b /\ h[r])  => n([h EXCEPT ![r] = b]) = n(h) - 1
<1> DEFINE H == {q \in Requests : h[q]}
           G == {q \in Requests : [h EXCEPT ![r] = b][q]}
<1>1. IsFiniteSet(H) /\ Cardinality(H) \in Nat
  BY PoolAssumption, FS_Subset, FS_CardinalityType
<1>2. h[r] => Cardinality(H) > 0
  <2>1. ASSUME h[r] PROVE H # {}
    BY <2>1
  <2> QED BY <1>1, <2>1, FS_EmptySet
<1>3. CASE b <=> h[r]
  <2>1. G = H
    BY <1>3
  <2> QED BY <1>1, <1>2, <1>3, <2>1
<1>4. CASE b /\ ~h[r]
  <2>1. G = H \cup {r} /\ r \notin H
    BY <1>4
  <2> QED BY <1>1, <1>2, <1>4, <2>1, FS_AddElement
<1>5. CASE ~b /\ h[r]
  <2>1. G = H \ {r} /\ r \in H
    BY <1>5
  <2> QED BY <1>1, <1>2, <1>5, <2>1, FS_RemoveElement
<1> QED BY <1>3, <1>4, <1>5

\* The same for the sessions of a process: how many connections are in use
\* before and after a step of r.
LEMMA HoldersStep ==
  ASSUME TypeOK, NEW r \in Requests, NEW b \in BOOLEAN, holds' = [holds EXCEPT ![r] = b]
  PROVE  /\ Cardinality(Holders) \in Nat
         /\ holds[r] => Cardinality(Holders) > 0
         /\ (b <=> holds[r])  => Cardinality(Holders') = Cardinality(Holders)
         /\ (b /\ ~holds[r])  => Cardinality(Holders') = Cardinality(Holders) + 1
         /\ (~b /\ holds[r])  => Cardinality(Holders') = Cardinality(Holders) - 1
<1>1. holds \in [Requests -> BOOLEAN]
  BY DEF TypeOK
<1> QED BY <1>1, HoldersCount DEF Holders

LEMMA NobodyHolds ==
  ASSUME NEW h \in [Requests -> BOOLEAN], \A r \in Requests : ~h[r]
  PROVE  Cardinality({r \in Requests : h[r]}) = 0
<1>1. {r \in Requests : h[r]} = {}
  OBVIOUS
<1> QED BY <1>1, FS_EmptySet

LEMMA HoldersNat ==
  ASSUME TypeOK
  PROVE  Cardinality(Holders) \in Nat
  BY PoolAssumption, FS_Subset, FS_CardinalityType DEF Holders

-----------------------------------------------------------------------------
(***************************************************************************)
(* Steps                                                                   *)
(***************************************************************************)

\* The statements of a handler take one connection from the pool or none.
LEMMA RunStep ==
  ASSUME ProcessInv, NEW r \in Requests, stage[r] \in {"handling", "checkout"}, idle > 0, Run(r)
  PROVE  /\ holds' \in [Requests -> BOOLEAN] /\ stage' \in [Requests -> Stages]
         /\ idle' \in 0..PoolSize
         /\ idle' + Cardinality(Holders') = idle + Cardinality(Holders)
         /\ \A q \in Requests : holds'[q] => stage'[q] \in {"responding", "closing"}
         /\ loop' \in {r, None}
<1> USE DEF ProcessInv, TypeOK
<1>1. PICK how \in {"commits", "keeps", "streams", "consumes"} :
        /\ stage' = [stage EXCEPT ![r] = CASE how = "streams"  -> "streaming"
                                           [] how = "consumes" -> "consuming"
                                           [] OTHER            -> "responding"]
        /\ loop' \in {r, None}
        /\ holds' = [holds EXCEPT ![r] = how = "keeps"]
        /\ idle'   = IF how = "keeps" THEN idle - 1 ELSE idle
  BY DEF Run
<1>2. ~holds[r] /\ idle \in Nat /\ idle <= PoolSize
  BY PoolAssumption
<1>3. PICK b \in BOOLEAN : b = (how = "keeps")
  OBVIOUS
<1>4. /\ Cardinality(Holders) \in Nat
      /\ Cardinality(Holders') = IF b THEN Cardinality(Holders) + 1 ELSE Cardinality(Holders)
  <2>1. holds' = [holds EXCEPT ![r] = b]
    BY <1>1, <1>3
  <2> QED BY <1>2, <2>1, HoldersStep
<1>5. holds' \in [Requests -> BOOLEAN] /\ stage' \in [Requests -> Stages]
  BY <1>1 DEF Stages
<1>6. \A q \in Requests : holds'[q] => stage'[q] \in {"responding", "closing"}
  BY <1>1, <1>2
<1>7. idle' \in 0..PoolSize /\ idle' + Cardinality(Holders') = idle + Cardinality(Holders)
  <2>1. CASE how = "keeps"
    <3>1. idle' = idle - 1 /\ Cardinality(Holders') = Cardinality(Holders) + 1
      BY <1>1, <1>3, <1>4, <2>1
    <3> QED BY <1>2, <1>4, <3>1, PoolAssumption
  <2>2. CASE how # "keeps"
    <3>1. idle' = idle /\ Cardinality(Holders') = Cardinality(Holders)
      BY <1>1, <1>3, <1>4, <2>2
    <3> QED BY <1>2, <1>4, <3>1
  <2> QED BY <2>1, <2>2
<1> QED BY <1>1, <1>5, <1>6, <1>7

\* A step of a request keeps the invariant.
LEMMA ServingStep ==
  ASSUME ProcessInv, NEW r \in Requests, Serving(r)
  PROVE  ProcessInv'
<1> USE DEF ProcessInv, procVars, passVars
<1>1. UNCHANGED procVars
  BY DEF Serving
<1>2. phase \in {"up", "draining"}
  BY DEF Serving, Running, Proceed, Arrive, Refuse, Handle, Block, Resume, Consume, PoolTimeout,
     Answered, CloseSession, Finish, PhaseShape, Over, TypeOK
<1>3. PhaseShape' /\ StartShape'
  BY <1>1, <1>2 DEF PhaseShape, StartShape
<1>4. CASE Handle(r) \/ Resume(r)
  <2>1. stage[r] \in {"handling", "checkout"} /\ idle > 0 /\ Run(r)
    BY <1>4 DEF Handle, Resume
  <2>2. TypeOK'
    BY <1>1, <2>1, RunStep DEF TypeOK
  <2>3. Balanced'
    <3>1. idle' + Cardinality(Holders') = idle + Cardinality(Holders) /\ thread' = thread
      BY <1>1, <2>1, RunStep
    <3> QED BY <3>1 DEF Balanced
  <2> QED BY <1>3, <2>1, <2>2, <2>3, RunStep
<1>5. CASE CloseSession(r)
  <2>1. /\ holds' = [holds EXCEPT ![r] = FALSE] /\ stage' = [stage EXCEPT ![r] = "closed"]
        /\ idle' = (IF holds[r] THEN idle + 1 ELSE idle) /\ UNCHANGED loop
    BY <1>5 DEF CloseSession
  <2>2. /\ Cardinality(Holders) \in Nat
        /\ holds[r] => Cardinality(Holders) > 0
        /\ Cardinality(Holders') = IF holds[r] THEN Cardinality(Holders) - 1 ELSE Cardinality(Holders)
    BY <2>1, HoldersStep DEF TypeOK
  <2>3. idle \in 0..PoolSize /\ thread' = thread /\ Balanced
    BY <1>1 DEF TypeOK
  <2>4. Balanced' /\ idle' \in 0..PoolSize
    BY <2>1, <2>2, <2>3, PoolAssumption DEF Balanced
  <2>5. TypeOK'
    BY <1>1, <2>1, <2>4 DEF TypeOK, Stages
  <2>6. \A q \in Requests : holds'[q] => stage'[q] \in {"responding", "closing"}
    BY <2>1 DEF TypeOK
  <2> QED BY <1>3, <2>4, <2>5, <2>6
<1>6. CASE \/ Arrive(r) \/ Refuse(r) \/ Block(r) \/ Consume(r) \/ PoolTimeout(r)
           \/ Answered(r) \/ Finish(r)
  <2>1. /\ UNCHANGED <<holds, idle>> /\ loop' \in {loop, r, None}
        /\ \E l \in Stages : /\ stage' = [stage EXCEPT ![r] = l]
                             /\ holds[r] => l = "closing"
    BY <1>6 DEF Arrive, Refuse, Block, Consume, PoolTimeout, Answered, Finish, Stages
  <2>2. TypeOK'
    BY <1>1, <2>1 DEF TypeOK
  <2>3. Balanced'
    BY <1>1, <2>1 DEF Balanced, Holders
  <2>4. \A q \in Requests : holds'[q] => stage'[q] \in {"responding", "closing"}
    BY <2>1 DEF TypeOK
  <2> QED BY <1>3, <2>2, <2>3, <2>4
<1> QED BY <1>4, <1>5, <1>6 DEF Serving, Proceed

\* A step of the cleanup task or of its pass keeps the invariant.
LEMMA CleanupStep ==
  ASSUME ProcessInv, Task \/ Pass
  PROVE  ProcessInv'
<1> USE DEF ProcessInv, poolVars, passVars
<1>1. /\ UNCHANGED <<stage, holds, loop, cleanup_enabled, phase, tables, stop_event, starts, crashes,
                     failures>>
  BY DEF Task, TestStop, PassReturns, Wake, Pass, PassStep, PassStarts, PassTakes, PassGives,
     PassDenied, PassEnds
<1>2. StartShape' /\ \A r \in Requests : holds'[r] => stage'[r] \in {"responding", "closing"}
  BY <1>1 DEF StartShape
<1>3. /\ Holders' = Holders /\ Cardinality(Holders) \in Nat
      /\ idle \in 0..PoolSize /\ todo \in 0..Sessions /\ Sessions \in Nat \ {0}
  BY <1>1, HoldersNat, ProcessAssumption DEF Holders, TypeOK
<1>4. CASE Task
  <2>1. Running /\ UNCHANGED idle
    BY <1>4 DEF Task, TestStop, PassReturns, Wake, TaskStep
  <2>2. TypeOK'
    <3>1. /\ task' \in {"ended", "pass", "wait", "test"} /\ thread' \in {thread, "queued", "none"}
          /\ todo' \in {todo, Sessions} /\ raised' \in BOOLEAN
      BY <1>4 DEF Task, TestStop, PassReturns, Wake, TypeOK
    <3>2. todo' \in 0..Sessions
      BY <1>3, <3>1
    <3> QED BY <1>1, <2>1, <3>1, <3>2 DEF TypeOK
  <2>3. PhaseShape' /\ Balanced'
    BY <1>1, <1>3, <1>4, <2>1
       DEF Task, TestStop, PassReturns, Wake, TaskStep, Running, TypeOK, PhaseShape, Over, Balanced
  <2> QED BY <1>2, <2>2, <2>3
<1>5. CASE Pass
  <2>1. task \in {"pass", "cancelled"} /\ UNCHANGED task /\ phase \notin {"off", "creating"}
    BY <1>5 DEF Pass, PassStep, PassStarts, PassTakes, PassGives, PassDenied, PassEnds, PhaseShape
  <2>2. Balanced' /\ idle' \in 0..PoolSize
    <3>1. CASE PassTakes
      BY <1>3, <3>1, PoolAssumption DEF PassTakes, PassStep, Balanced
    <3>2. CASE PassGives
      BY <1>3, <3>2, PoolAssumption DEF PassGives, PassStep, Balanced
    <3>3. CASE PassStarts \/ PassDenied \/ PassEnds
      BY <1>3, <3>3 DEF PassStarts, PassDenied, PassEnds, PassStep, Balanced
    <3> QED BY <1>5, <3>1, <3>2, <3>3 DEF Pass
  <2>3. /\ todo' \in 0..Sessions /\ raised' \in BOOLEAN
        /\ thread' \in {"running", "holding", "over"}
        /\ thread' = "holding" => todo' > 0
    <3>1. todo \in Nat /\ todo <= Sessions /\ (thread = "holding" => todo > 0)
      BY <1>3 DEF PhaseShape
    <3>2. /\ todo' = todo \/ (todo > 0 /\ todo' = todo - 1)
          /\ raised' \in {raised, TRUE}
          /\ thread' \in {"running", "holding", "over"}
          /\ thread' = "holding" => todo' = todo /\ todo > 0
      BY <1>5, <3>1 DEF Pass, PassStep, PassStarts, PassTakes, PassGives, PassDenied, PassEnds
    <3>3. todo' \in 0..Sessions
      BY <1>3, <3>1, <3>2
    <3> QED BY <3>2, <3>3 DEF TypeOK
  <2>4. TypeOK'
    BY <1>1, <2>1, <2>2, <2>3 DEF TypeOK
  <2>5. PhaseShape'
    BY <1>1, <2>1, <2>3 DEF PhaseShape, Over
  <2> QED BY <1>2, <2>2, <2>4, <2>5
<1> QED BY <1>4, <1>5

\* A start, and the race for the tables, keep the invariant.
LEMMA StartStep ==
  ASSUME ProcessInv, Boot \/ CreateTables \/ PeerCreatesTables
  PROVE  ProcessInv'
<1> USE DEF ProcessInv, poolVars, passVars
<1>1. UNCHANGED <<stage, holds, loop, cleanup_enabled, thread, todo, raised, crashes>>
  BY DEF Boot, CreateTables, PeerCreatesTables
<1>2. \A r \in Requests : holds'[r] => stage'[r] \in {"responding", "closing"}
  BY <1>1
<1>3. Holders' = Holders
  BY <1>1 DEF Holders
<1>4. CASE Boot
  <2>1. phase = "off" /\ thread = "none" /\ \A r \in Requests : Over(r)
    BY <1>4 DEF Boot, PhaseShape
  <2>2. Cardinality(Holders) = 0
    BY <2>1, NobodyHolds DEF Over, TypeOK, Holders
  <2>3. Balanced' /\ idle' \in 0..PoolSize
    BY <1>1, <1>3, <1>4, <2>1, <2>2, PoolAssumption DEF Boot, Balanced
  <2>4. starts \in Nat /\ starts' = starts + 1 /\ starts' \in 0..MaxStarts
    BY <1>4, ProcessAssumption DEF Boot, TypeOK
  <2>5. TypeOK'
    BY <1>1, <1>4, <2>3, <2>4 DEF Boot, Serve, TypeOK
  <2>6. PhaseShape' /\ StartShape'
    BY <1>1, <1>4, <2>1, <2>4 DEF Boot, Serve, PhaseShape, StartShape, Over, TypeOK
  <2> QED BY <1>2, <2>3, <2>5, <2>6
<1>5. CASE CreateTables
  <2>1. phase = "creating" /\ failures = 0 /\ starts > 0 /\ UNCHANGED <<idle, starts, stop_event>>
    BY <1>5 DEF CreateTables, StartShape
  <2>2. failures' \in {0, 1} /\ failures' \in 0..MaxStarts
    BY <1>5, <2>1, ProcessAssumption DEF CreateTables, TypeOK
  <2>3. TypeOK'
    BY <1>1, <1>5, <2>1, <2>2 DEF CreateTables, Serve, TypeOK
  <2>4. PhaseShape' /\ StartShape' /\ Balanced'
    BY <1>1, <1>3, <1>5, <2>1 DEF CreateTables, Serve, PhaseShape, StartShape, Over, Balanced
  <2> QED BY <1>2, <2>3, <2>4
<1>6. CASE PeerCreatesTables
  BY <1>1, <1>2, <1>3, <1>6 DEF PeerCreatesTables, TypeOK, PhaseShape, StartShape, Over, Balanced
<1> QED BY <1>4, <1>5, <1>6

\* A shutdown and a crash keep the invariant.
LEMMA EndStep ==
  ASSUME ProcessInv, Terminate \/ Stop \/ GiveUp \/ Crash
  PROVE  ProcessInv'
<1> USE DEF ProcessInv, poolVars, passVars
<1>1. UNCHANGED <<cleanup_enabled, tables, todo, raised, starts, failures>>
  BY DEF Terminate, Stop, Drained, Joined, Exit, GiveUp, Crash
<1>2. CASE Terminate \/ Stop \/ GiveUp
  <2>1. UNCHANGED <<stage, holds, loop, idle, crashes>>
    BY <1>2 DEF Terminate, Stop, Drained, Joined, Exit, GiveUp
  <2>2. TypeOK'
    BY <1>1, <1>2, <2>1 DEF Terminate, Stop, Drained, Joined, Exit, GiveUp, TypeOK
  <2>3. PhaseShape' /\ StartShape'
    BY <1>1, <1>2, <2>1
       DEF Terminate, Stop, Drained, Joined, Exit, GiveUp, LoopFree, PhaseShape, StartShape, Over, TypeOK
  <2>4. Balanced'
    BY <1>1, <1>2, <2>1 DEF Terminate, Stop, Drained, Joined, Exit, GiveUp, Balanced, Holders
  <2> QED BY <2>1, <2>2, <2>3, <2>4
<1>3. CASE Crash
  <2>1. /\ holds' = [r \in Requests |-> FALSE] /\ idle' = PoolSize /\ thread' = "none"
        /\ \A r \in Requests : Over(r)'
        /\ stage' \in [Requests -> Stages]
    BY <1>3 DEF Crash, Over, TypeOK, Stages
  <2>2. Cardinality(Holders') = 0
    <3>1. holds' \in [Requests -> BOOLEAN] /\ \A r \in Requests : ~holds'[r]
      BY <2>1
    <3> QED BY <3>1, NobodyHolds DEF Holders
  <2>3. Balanced'
    BY <2>1, <2>2, PoolAssumption DEF Balanced
  <2>4. crashes' \in 0..MaxCrashes
    BY <1>3, ProcessAssumption DEF Crash, TypeOK
  <2>5. TypeOK'
    BY <1>1, <1>3, <2>1, <2>4, PoolAssumption DEF Crash, TypeOK
  <2>6. PhaseShape' /\ StartShape'
    BY <1>1, <1>3, <2>1 DEF Crash, PhaseShape, StartShape
  <2> QED BY <2>1, <2>3, <2>5, <2>6
<1> QED BY <1>2, <1>3

LEMMA ProcessInvInit == Init => ProcessInv
<1> SUFFICES ASSUME Init PROVE ProcessInv
  OBVIOUS
<1> USE DEF Init, PoolInit
<1>1. TypeOK
  <2>1. /\ PoolSize \in 0..PoolSize /\ 0 \in 0..Sessions
        /\ 0 \in 0..MaxStarts /\ 0 \in 0..MaxCrashes
    BY PoolAssumption, ProcessAssumption
  <2> QED BY <2>1 DEF TypeOK, Stages
<1>2. Cardinality(Holders) = 0
  BY <1>1, NobodyHolds DEF TypeOK, Holders
<1>3. Balanced
  BY <1>2, PoolAssumption DEF Balanced
<1>4. PhaseShape /\ StartShape
  BY DEF PhaseShape, StartShape, Over
<1> QED BY <1>1, <1>3, <1>4 DEF ProcessInv

LEMMA ProcessInvStep ==
  ASSUME ProcessInv, [Next]_vars
  PROVE  ProcessInv'
<1>1. CASE UNCHANGED vars
  BY <1>1 DEF ProcessInv, TypeOK, Balanced, Holders, PhaseShape, StartShape, Over,
     vars, poolVars, procVars
<1> QED BY <1>1, StartStep, ServingStep, CleanupStep, EndStep DEF Next

-----------------------------------------------------------------------------
(***************************************************************************)
(* Theorems                                                                *)
(***************************************************************************)

\* The inductive invariant holds in every reachable state.
THEOREM ProcessInvariance == Spec => []ProcessInv
<1> QED BY ProcessInvInit, ProcessInvStep, PTL DEF Spec

\* Types: in particular the pool never hands out more connections than it has
\* and never gets one back twice.
THEOREM ProcessTypes == Spec => []TypeOK
<1>1. ProcessInv => TypeOK
  BY DEF ProcessInv
<1> QED BY <1>1, ProcessInvariance, PTL

\* No connection is ever lost, and none is kept by a download that is being
\* sent, for any number of requests and any size of the pool.
THEOREM ConnectionsAreAccounted == Spec => []ConnectionsAccounted
<1>1. ProcessInv => ConnectionsAccounted
  BY DEF ProcessInv, ConnectionsAccounted, Balanced, Holders
<1> QED BY <1>1, ProcessInvariance, PTL

\* Neither pass nor request nor blocked loop outlives its process, whatever
\* the order of signals, timeouts, crashes and restarts.
THEOREM NothingSurvives == Spec => []NothingOutlivesTheProcess
<1>1. ProcessInv => NothingOutlivesTheProcess
  BY DEF ProcessInv, NothingOutlivesTheProcess, PhaseShape
<1> QED BY <1>1, ProcessInvariance, PTL

\* However often a process is started and however late others create the
\* tables, the race costs it one start at most.
THEOREM OneStartIsLost == Spec => []OneFailedStart
<1>1. ProcessInv => OneFailedStart
  BY DEF ProcessInv, StartShape, OneFailedStart
<1> QED BY <1>1, ProcessInvariance, PTL

=============================================================================
