--------------------------- MODULE ServerProcess ---------------------------
(***************************************************************************)
(* The life of a server process (app.py: lifespan) with its cleanup task   *)
(* (cleanup.py: cleanup_loop), composed with its requests and its pool.    *)
(*                                                                         *)
(* The task runs on the event loop, its passes in a thread of the default  *)
(* executor.  At a shutdown the task gets five seconds, then it is         *)
(* cancelled; a pass that has begun cannot be, and asyncio.run waits for   *)
(* its thread before the process ends.                                     *)
(***************************************************************************)
EXTENDS SessionPool

CONSTANTS
  Sessions,     \* bound: sessions of a pass (one to list, one per id, one to purge)
  MaxStarts,    \* bound on the starts of the process
  MaxCrashes    \* bound on its crashes

ASSUME ProcessAssumption == Sessions \in Nat \ {0} /\ {MaxStarts, MaxCrashes} \subseteq Nat

VARIABLES
  cleanup_enabled,
  phase,        \* of the process
  tables,       \* the database has its tables
  stop_event,
  task,         \* cleanup_task
  thread,       \* the pass in the executor
  todo,         \* sessions it still has to open
  raised,       \* it has ended with an exception
  starts, crashes, failures

procVars == <<cleanup_enabled, phase, tables, stop_event, task, thread, todo, raised,
              starts, crashes, failures>>
passVars == <<thread, todo, raised>>
vars     == <<poolVars, procVars>>

Running == phase \in {"up", "draining", "stopping"}

-----------------------------------------------------------------------------
(***************************************************************************)
(* Start                                                                   *)
(***************************************************************************)

\* The tables are there: limiter, cleanup task, yield.
Serve ==
  /\ phase' = "up"
  /\ task' = IF cleanup_enabled THEN "test" ELSE "none"

\* Mutant: create_all(checkfirst=False).
Boot_NoCheck ==
  /\ phase = "off" /\ starts < MaxStarts
  /\ starts' = starts + 1
  /\ stop_event' = FALSE /\ idle' = PoolSize
  /\ phase' = "creating" /\ UNCHANGED task
  /\ UNCHANGED <<stage, holds, loop, cleanup_enabled, tables, passVars, crashes, failures>>

\* A new engine and its pool; create_all looks whether the tables exist.
Boot ==
  /\ phase = "off" /\ starts < MaxStarts
  /\ starts' = starts + 1
  /\ stop_event' = FALSE /\ idle' = PoolSize
  /\ IF tables THEN Serve ELSE phase' = "creating" /\ UNCHANGED task
  /\ UNCHANGED <<stage, holds, loop, cleanup_enabled, tables, passVars, crashes, failures>>

\* CREATE TABLE, which fails when another process has been faster.
CreateTables ==
  /\ phase = "creating"
  /\ IF tables
     THEN /\ phase' = "off" /\ failures' = failures + 1
          /\ UNCHANGED <<tables, task>>
     ELSE /\ tables' = TRUE /\ Serve
          /\ UNCHANGED failures
  /\ UNCHANGED <<poolVars, cleanup_enabled, stop_event, passVars, starts, crashes>>

\* Another process on the same database creates them.
PeerCreatesTables ==
  /\ ~tables /\ tables' = TRUE
  /\ UNCHANGED <<poolVars, cleanup_enabled, phase, stop_event, task, passVars, starts, crashes,
                 failures>>

-----------------------------------------------------------------------------
(***************************************************************************)
(* Cleanup task and pass                                                   *)
(***************************************************************************)

TaskStep(from) == Running /\ LoopFree /\ task = from

\* while not stop_event.is_set(): asyncio.to_thread(_cleanup_once)
TestStop ==
  /\ TaskStep("test")
  /\ IF stop_event
     THEN task' = "ended" /\ UNCHANGED passVars
     ELSE task' = "pass" /\ thread' = "queued" /\ todo' = Sessions /\ raised' = FALSE
  /\ UNCHANGED <<poolVars, cleanup_enabled, phase, tables, stop_event, starts, crashes, failures>>

\* Mutant: an exception of the pass ends the loop.
PassReturns_Raises ==
  /\ TaskStep("pass") /\ thread = "over"
  /\ thread' = "none"
  /\ task' = IF raised THEN "ended" ELSE "wait"
  /\ UNCHANGED <<poolVars, cleanup_enabled, phase, tables, stop_event, todo, raised,
                 starts, crashes, failures>>

\* The pass is over, or has raised, which is only logged.
PassReturns ==
  /\ TaskStep("pass") /\ thread = "over"
  /\ thread' = "none" /\ task' = "wait"
  /\ UNCHANGED <<poolVars, cleanup_enabled, phase, tables, stop_event, todo, raised,
                 starts, crashes, failures>>

\* The interval has elapsed, or stop_event is set.
Wake ==
  /\ TaskStep("wait")
  /\ task' = "test"
  /\ UNCHANGED <<poolVars, cleanup_enabled, phase, tables, stop_event, passVars, starts, crashes,
                 failures>>

PassStep(from) ==
  /\ thread = from
  /\ UNCHANGED <<stage, holds, loop, cleanup_enabled, phase, tables, stop_event, task,
                 starts, crashes, failures>>

PassStarts ==
  /\ PassStep("queued")
  /\ thread' = "running"
  /\ UNCHANGED <<idle, todo, raised>>

PassTakes ==
  /\ PassStep("running") /\ todo > 0 /\ idle > 0
  /\ thread' = "holding" /\ idle' = idle - 1
  /\ UNCHANGED <<todo, raised>>

PassGives ==
  /\ PassStep("holding")
  /\ thread' = "running" /\ idle' = idle + 1 /\ todo' = todo - 1
  /\ UNCHANGED raised

\* pool_timeout: the first session is not guarded, the others count an error.
PassDenied ==
  /\ PassStep("running") /\ todo > 0 /\ idle = 0
  /\ IF todo = Sessions
     THEN thread' = "over" /\ raised' = TRUE /\ UNCHANGED todo
     ELSE todo' = todo - 1 /\ UNCHANGED <<thread, raised>>
  /\ UNCHANGED idle

PassEnds ==
  /\ PassStep("running") /\ todo = 0
  /\ thread' = "over"
  /\ UNCHANGED <<idle, todo, raised>>

-----------------------------------------------------------------------------
(***************************************************************************)
(* Stop                                                                    *)
(***************************************************************************)

\* A signal: uvicorn accepts nothing more and waits for its requests.
Terminate ==
  /\ phase = "up" /\ LoopFree
  /\ phase' = "draining"
  /\ UNCHANGED <<poolVars, cleanup_enabled, tables, stop_event, task, passVars, starts, crashes,
                 failures>>

\* The part of lifespan after the yield: stop_event.set()
Drained ==
  /\ phase = "draining" /\ LoopFree
  /\ \A r \in Requests : Over(r)
  /\ stop_event' = cleanup_enabled
  /\ phase' = IF cleanup_enabled THEN "stopping" ELSE "exiting"
  /\ UNCHANGED <<poolVars, cleanup_enabled, tables, task, passVars, starts, crashes, failures>>

Joined ==
  /\ phase = "stopping" /\ task = "ended"
  /\ phase' = "exiting"
  /\ UNCHANGED <<poolVars, cleanup_enabled, tables, stop_event, task, passVars, starts, crashes,
                 failures>>

\* Mutant: the task is awaited without a timeout.
GiveUp_Never ==
  /\ phase = "stopping" /\ FALSE
  /\ UNCHANGED vars

\* Five seconds are over: the task is cancelled, and with it a pass that has
\* not begun, but not one that has.
GiveUp ==
  /\ phase = "stopping" /\ task # "ended"
  /\ phase' = "exiting" /\ task' = "cancelled"
  /\ thread' = IF thread = "queued" THEN "none" ELSE thread
  /\ UNCHANGED <<poolVars, cleanup_enabled, tables, stop_event, todo, raised, starts, crashes,
                 failures>>

\* Mutant: the process does not wait for the threads of its executor.
Exit_NoJoin ==
  /\ phase = "exiting"
  /\ phase' = "off" /\ task' = "none"
  /\ UNCHANGED <<poolVars, cleanup_enabled, tables, stop_event, passVars, starts, crashes, failures>>

\* The end of asyncio.run, which joins the threads of the default executor.
Exit ==
  /\ phase = "exiting" /\ thread \in {"none", "over"}
  /\ phase' = "off" /\ task' = "none" /\ thread' = "none"
  /\ UNCHANGED <<poolVars, cleanup_enabled, tables, stop_event, todo, raised, starts, crashes,
                 failures>>

Crash ==
  /\ phase # "off" /\ crashes < MaxCrashes
  /\ crashes' = crashes + 1
  /\ phase' = "off" /\ task' = "none" /\ thread' = "none" /\ loop' = None
  /\ stage' = [r \in Requests |-> IF Over(r) THEN stage[r] ELSE "lost"]
  /\ holds' = [r \in Requests |-> FALSE]
  /\ idle' = PoolSize
  /\ UNCHANGED <<cleanup_enabled, tables, stop_event, todo, raised, starts, failures>>

-----------------------------------------------------------------------------
Serving(r) ==
  /\ \/ phase = "up" /\ Arrive(r)
     \/ Running /\ Proceed(r)
  /\ UNCHANGED procVars

Task == TestStop \/ PassReturns \/ Wake
Pass == PassStarts \/ PassTakes \/ PassGives \/ PassDenied \/ PassEnds
Stop == Drained \/ Joined \/ Exit

Init ==
  /\ PoolInit
  /\ cleanup_enabled \in BOOLEAN
  /\ phase = "off" /\ tables \in BOOLEAN /\ stop_event = FALSE
  /\ task = "none" /\ thread = "none" /\ todo = 0 /\ raised = FALSE
  /\ starts = 0 /\ crashes = 0 /\ failures = 0

Next ==
  \/ Boot \/ CreateTables \/ PeerCreatesTables
  \/ \E r \in Requests : Serving(r)
  \/ Task \/ Pass
  \/ Terminate \/ Stop \/ GiveUp \/ Crash

\* The loop runs what is ready, sessions are closed, timeouts elapse.  Nothing
\* is assumed of a pass (its disk or database may hang), of a client that
\* downloads, of signals, crashes or other processes.
Fairness ==
  /\ \A r \in Requests : WF_vars(Serving(r) /\ stage[r] \notin {"new", "streaming"})
  /\ WF_vars(CreateTables) /\ WF_vars(Task) /\ WF_vars(Stop) /\ WF_vars(GiveUp)

Spec == Init /\ [][Next]_vars /\ Fairness

-----------------------------------------------------------------------------
(***************************************************************************)
(* Properties                                                              *)
(***************************************************************************)

TypeOK ==
  /\ stage \in [Requests -> Stages]
  /\ holds \in [Requests -> BOOLEAN]
  /\ loop \in Requests \cup {None}
  /\ idle \in 0..PoolSize
  /\ cleanup_enabled \in BOOLEAN
  /\ phase \in {"off", "creating", "up", "draining", "stopping", "exiting"}
  /\ tables \in BOOLEAN /\ stop_event \in BOOLEAN
  /\ task \in {"none", "test", "pass", "wait", "ended", "cancelled"}
  /\ thread \in {"none", "queued", "running", "holding", "over"}
  /\ todo \in 0..Sessions /\ raised \in BOOLEAN
  /\ starts \in 0..MaxStarts /\ crashes \in 0..MaxCrashes /\ failures \in 0..MaxStarts

\* Every connection is in the pool, with a session whose request is still in
\* the process, or with the pass; a download that is being sent has none, so
\* clients that stop reading cannot use the pool up.
ConnectionsAccounted ==
  /\ phase # "off" =>
       idle + Cardinality({r \in Requests : holds[r]})
         + (IF thread = "holding" THEN 1 ELSE 0) = PoolSize
  /\ \A r \in Requests : holds[r] => stage[r] \in {"responding", "closing"}

\* A process that has ended leaves no pass, no request and no blocked loop
\* behind: at most one pass runs per process, also after a restart.
NothingOutlivesTheProcess ==
  /\ phase \in {"off", "creating"} =>
       /\ thread = "none" /\ task = "none" /\ loop = None
       /\ \A r \in Requests : Over(r)
  /\ thread \in {"running", "holding"} => task \in {"pass", "cancelled"}

\* Racing processes cost a process at most one start: when it is started
\* again the tables are there.
OneFailedStart == failures <= 1

\* Every request that has come in ends, however many wait for a connection
\* and even if the pass hangs with one, unless it is a download (its client
\* decides) or the process crashes.
RequestsEnd ==
  \A r \in Requests :
    stage[r] # "new" ~> stage[r] \in {"done", "lost", "streaming"}

\* Once told to stop, the process ends, unless a client keeps a download open;
\* a pass cannot delay the shutdown of the application, only, while it runs,
\* the end of the process (app.py:57-63).
ShutdownEnds ==
  phase = "draining" ~>
    \/ phase = "off"
    \/ phase = "exiting" /\ thread \in {"running", "holding"}
    \/ \E r \in Requests : stage[r] = "streaming"

\* While the process serves, every pass that comes to an end is followed by
\* another one, also if it raised (cleanup.py:98-99).
PassesRecur ==
  phase = "up" /\ cleanup_enabled /\ thread \in {"none", "over"}
    ~> thread = "queued" \/ phase # "up"
-----------------------------------------------------------------------------
(***************************************************************************)
(* The inductive invariant behind the safety theorems                      *)
(***************************************************************************)

Holders == {r \in Requests : holds[r]}

Balanced ==
  idle + Cardinality(Holders) + (IF thread = "holding" THEN 1 ELSE 0) = PoolSize

\* Who may be left in the process in which phase.
PhaseShape ==
  /\ phase \in {"off", "creating"} => thread = "none" /\ task = "none"
  /\ phase \notin {"up", "draining"} => loop = None /\ \A r \in Requests : Over(r)
  /\ task \notin {"pass", "cancelled"} => thread = "none"
  /\ thread = "holding" => todo > 0

\* A start that has failed has found the tables, so it is the only one; one
\* that is looking for them has not failed before.
StartShape ==
  /\ failures = 0 \/ (failures = 1 /\ tables)
  /\ phase = "creating" => failures = 0
  /\ phase # "off" => starts > 0

ProcessInv ==
  /\ TypeOK
  /\ Balanced
  /\ \A r \in Requests : holds[r] => stage[r] \in {"responding", "closing"}
  /\ PhaseShape
  /\ StartShape

=============================================================================
