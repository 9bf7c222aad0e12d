---------------------------- MODULE SessionPool ----------------------------
(***************************************************************************)
(* Requests, their sessions and the connections of one server process      *)
(* (storage/db.py: session_scope, get_session).                            *)
(*                                                                         *)
(* A session takes a connection at the first statement of a transaction    *)
(* and gives it back at its commit or when it is closed.  Handlers run on  *)
(* the event loop and do not await, so a handler that waits for a          *)
(* connection stops everything else that needs the loop; sessions are      *)
(* closed in threads, which do not.                                        *)
(***************************************************************************)
EXTENDS Naturals, FiniteSets

CONSTANTS
  Requests,     \* requests that may come
  None,         \* nobody
  PoolSize      \* connections the pool hands out: pool_size + max_overflow

ASSUME PoolAssumption ==
  /\ PoolSize \in Nat \ {0}
  /\ IsFiniteSet(Requests) /\ None \notin Requests

VARIABLES
  stage,        \* how far each request has come
  holds,        \* its session has a connection
  loop,         \* the request whose handler blocks the event loop, or None
  idle          \* connections that the pool can hand out

poolVars == <<stage, holds, loop, idle>>

Stages == {"new", "handling", "checkout", "consuming", "responding", "streaming", "closing",
           "closed", "done", "lost"}

LoopFree == loop = None

\* Nothing of this request is left in the process.
Over(r) == stage[r] \in {"new", "done", "lost"}

-----------------------------------------------------------------------------
(***************************************************************************)
(* A request                                                               *)
(***************************************************************************)

\* get_session has made a session, which has no connection yet.
Arrive(r) ==
  /\ LoopFree /\ stage[r] = "new"
  /\ stage' = [stage EXCEPT ![r] = "handling"]
  /\ UNCHANGED <<holds, loop, idle>>

\* The handler answers without a statement: a limit, a header, a name.
Refuse(r) ==
  /\ LoopFree /\ stage[r] = "handling"
  /\ stage' = [stage EXCEPT ![r] = "responding"]
  /\ UNCHANGED <<holds, loop, idle>>

\* Mutant: a download is counted without a commit, so its session keeps the
\* connection while the body is sent.
Run_StreamHolds(r) ==
  \E how \in {"commits", "keeps", "streams", "consumes"} :
    /\ stage' = [stage EXCEPT ![r] = CASE how = "streams"  -> "streaming"
                                       [] how = "consumes" -> "consuming"
                                       [] OTHER            -> "responding"]
    /\ holds' = [holds EXCEPT ![r] = how \in {"keeps", "streams"}]
    /\ idle'   = IF how \in {"keeps", "streams"} THEN idle - 1 ELSE idle
    /\ loop'   = IF how = "consumes" THEN r ELSE None

\* The statements of a handler up to its first commit.  A download
\* (mark_fetched commits), a delete (soft_delete commits) and healthz have
\* given the connection back when they answer; an upload, HEAD, info and every
\* refusal after a lookup keep it.  A one-shot download stays on the event loop
\* and asks the pool for a connection again.
Run(r) ==
  \E how \in {"commits", "keeps", "streams", "consumes"} :
    /\ stage' = [stage EXCEPT ![r] = CASE how = "streams"  -> "streaming"
                                       [] how = "consumes" -> "consuming"
                                       [] OTHER            -> "responding"]
    /\ holds' = [holds EXCEPT ![r] = how = "keeps"]
    /\ idle'   = IF how = "keeps" THEN idle - 1 ELSE idle
    /\ loop'   = IF how = "consumes" THEN r ELSE None

Handle(r) ==
  /\ LoopFree /\ stage[r] = "handling" /\ idle > 0
  /\ Run(r)

\* No connection is left: the handler waits for one on the event loop.
Block(r) ==
  /\ LoopFree /\ stage[r] = "handling" /\ idle = 0
  /\ stage' = [stage EXCEPT ![r] = "checkout"]
  /\ loop' = r
  /\ UNCHANGED <<holds, idle>>

Resume(r) ==
  /\ stage[r] = "checkout" /\ idle > 0
  /\ Run(r)

\* soft_delete of a one-shot that has been counted, and its commit.
Consume(r) ==
  /\ stage[r] = "consuming" /\ idle > 0
  /\ stage' = [stage EXCEPT ![r] = "streaming"]
  /\ loop' = None
  /\ UNCHANGED <<holds, idle>>

\* Mutant: the pool waits for a connection as long as it takes.
PoolTimeout_Never(r) ==
  /\ stage[r] \in {"checkout", "consuming"} /\ idle = 0 /\ FALSE
  /\ UNCHANGED poolVars

\* pool_timeout: the statement raises, which is answered with a 500.
PoolTimeout(r) ==
  /\ stage[r] \in {"checkout", "consuming"} /\ idle = 0
  /\ stage' = [stage EXCEPT ![r] = "responding"]
  /\ loop' = None
  /\ UNCHANGED <<holds, idle>>

\* The answer is out, or its client is gone.  Small answers do not wait for
\* the client; the body of a download does.
Answered(r) ==
  /\ LoopFree /\ stage[r] \in {"responding", "streaming"}
  /\ stage' = [stage EXCEPT ![r] = "closing"]
  /\ UNCHANGED <<holds, loop, idle>>

\* Mutant: a connection is given back that the commit has given back before.
CloseSession_Twice(r) ==
  /\ stage[r] = "closing"
  /\ stage' = [stage EXCEPT ![r] = "closed"]
  /\ holds' = [holds EXCEPT ![r] = FALSE]
  /\ idle'  = idle + 1
  /\ UNCHANGED loop

\* The end of session_scope, in a thread: commit or rollback, and close.
CloseSession(r) ==
  /\ stage[r] = "closing"
  /\ stage' = [stage EXCEPT ![r] = "closed"]
  /\ holds' = [holds EXCEPT ![r] = FALSE]
  /\ idle'  = IF holds[r] THEN idle + 1 ELSE idle
  /\ UNCHANGED loop

Finish(r) ==
  /\ LoopFree /\ stage[r] = "closed"
  /\ stage' = [stage EXCEPT ![r] = "done"]
  /\ UNCHANGED <<holds, loop, idle>>

PoolInit ==
  /\ stage  = [r \in Requests |-> "new"]
  /\ holds  = [r \in Requests |-> FALSE]
  /\ loop = None
  /\ idle = PoolSize

\* All that a request does after its arrival.
Proceed(r) ==
  \/ Refuse(r) \/ Handle(r) \/ Block(r) \/ Resume(r) \/ Consume(r) \/ PoolTimeout(r)
  \/ Answered(r) \/ CloseSession(r) \/ Finish(r)

=============================================================================
