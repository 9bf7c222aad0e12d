------------------------------ MODULE RateLimit ------------------------------
(***************************************************************************)
(* The rate limiter (ratelimit.py) and the handlers that ask it.           *)
(*                                                                         *)
(* A bucket is counted in one of several stores: the sorted set in Redis   *)
(* that all server processes share, or the deque of one process.  A        *)
(* process that cannot reach Redis at its start uses its deques; one that  *)
(* loses Redis later falls back to them and never goes back.  A script may *)
(* have run although its answer was lost.  Clocks of processes may differ. *)
(***************************************************************************)
EXTENDS Integers, Sequences, FiniteSetsExt

CONSTANTS
  Procs,        \* server processes
  Ips,          \* addresses of clients
  Files,        \* file ids
  None,         \* Python's None: no request
  Budgets,      \* bound: how many requests of each kind a behaviour may have
  Long,         \* window_seconds of the hourly limits
  Short,        \* window_seconds of fetch_per_ip
  Few, Many,    \* max_events: of uploads and (file, ip) fetches; of the others
  Slack,        \* what PEXPIRE adds to the window
  Nonces,       \* the 16 bits that follow the milliseconds in a member
  RedisUrl,     \* TRUE: settings.redis_url is set
  MaxSkew,      \* bound on how far the clocks of processes are apart
  MaxTime,      \* bound on the clock
  MaxOutages,   \* bound on outages of Redis
  MaxCrashes    \* bound on crashes of processes

ASSUME LimiterAssumption ==
  /\ {Long, Short, Few, Many} \subseteq Nat \ {0}
  /\ {Slack, MaxSkew, MaxTime, MaxOutages, MaxCrashes} \subseteq Nat
  /\ RedisUrl \in BOOLEAN
  /\ Budgets \subseteq [{"upload", "delete", "info", "fetch"} -> Nat]
  /\ None \notin Ips \cup Files
  /\ "redis" \notin Procs /\ None \notin Nat \X Nonces

VARIABLES
  budget,       \* requests that may still come, by kind
  now,          \* true time
  spread,       \* how far the clocks of the processes are apart
  skew,         \* per process: how far its clock is ahead
  backend,      \* per process: _backend, "none" before init
  healthy,      \* per process: _RedisBackend._healthy
  deques,       \* per process and bucket: _MemoryBackend._buckets
  redis,        \* per bucket: the sorted set and the deadline of its key
  reachable,    \* Redis answers
  fetching,     \* per process: a fetch between its two checks
  lives,        \* starts of each process, and of Redis
  outages, crashes,
  log           \* history: the checks of every bucket, with store and outcome

clocks == <<now, spread, skew>>
vars   == <<budget, now, spread, skew, backend, healthy, deques, redis, reachable, fetching, lives,
            outages, crashes, log>>

-----------------------------------------------------------------------------
(***************************************************************************)
(* Limits and buckets                                                      *)
(***************************************************************************)

Limits ==
  [upload_per_ip         |-> [max_events |-> Many, window |-> Long],
   upload_per_ip_foreign |-> [max_events |-> Few,  window |-> Long],
   fetch_per_ip          |-> [max_events |-> Many, window |-> Short],
   fetch_per_file_ip     |-> [max_events |-> Few,  window |-> Long],
   delete_per_ip         |-> [max_events |-> Many, window |-> Long]]

\* "rl:<limit>:<parts>".
PerIp(limit, ip) == <<limit, ip>>
PerFile(file, ip) == <<"fetch_per_file_ip", file, ip>>

Buckets ==
  {PerIp(limit, ip) : limit \in DOMAIN Limits \ {"fetch_per_file_ip"}, ip \in Ips}
    \cup {PerFile(file, ip) : file \in Files, ip \in Ips}

MaxEvents(b) == Limits[b[1]].max_events
Window(b)    == Limits[b[1]].window

\* Whether the Origin header names another host.
UploadLimits == {"upload_per_ip", "upload_per_ip_foreign"}

-----------------------------------------------------------------------------
(***************************************************************************)
(* Stores                                                                  *)
(***************************************************************************)

Clock(p) == now + skew[p]

\* A process's deques, or Redis, in one of its lives.
MemoryOf(p) == <<p, lives[p]>>
Redis       == <<"redis", lives["redis"]>>

NoKey == [members |-> {}, deadline |-> 0]

Entry(store, member, outcome) ==
  [at |-> now, store |-> store, member |-> member, outcome |-> outcome]

Record(b, store, member, outcome) ==
  log' = [log EXCEPT ![b] = Append(@, Entry(store, member, outcome))]

\* Mutant: an event leaves the deque as soon as it is half a window old.
Fresh_Early(d, cutoff) == {i \in DOMAIN d : d[i] > cutoff + 1}

Fresh(d, cutoff) == {i \in DOMAIN d : d[i] >= cutoff}

\* popleft while the leftmost entry is older than the cutoff.
Trim(d, cutoff) ==
  LET fresh == Fresh(d, cutoff)
  IN IF fresh = {} THEN <<>>
     ELSE SubSeq(d, Min(fresh), Len(d))

\* Mutant: the limit is compared with the length after the append.
MemoryCheck_Late(p, b, allowed) ==
  LET d == Trim(deques[p][b], Clock(p) - Window(b))
  IN /\ allowed = (Len(d) <= MaxEvents(b))
     /\ deques' = [deques EXCEPT ![p][b] = IF allowed THEN Append(d, Clock(p)) ELSE d]

\* _MemoryBackend.check
MemoryCheck(p, b, allowed) ==
  LET d == Trim(deques[p][b], Clock(p) - Window(b))
  IN /\ allowed = (Len(d) < MaxEvents(b))
     /\ deques' = [deques EXCEPT ![p][b] = IF allowed THEN Append(d, Clock(p)) ELSE d]

\* The members of a key that Redis has not expired.
Stored(b) == IF redis[b].deadline <= now THEN {} ELSE redis[b].members

\* Mutant: a limit is per closed window, as in memory.
Kept_All(b, cutoff) == {m \in Stored(b) : m[1] >= cutoff}

\* ZREMRANGEBYSCORE -inf cutoff
Kept(b, cutoff) == {m \in Stored(b) : m[1] > cutoff}

\* Mutant: the key is given its lifetime once, by its first event.
Script_FirstDeadline(p, b, member, allowed) ==
  LET kept == Kept(b, Clock(p) - Window(b))
  IN /\ allowed = (Cardinality(kept) < MaxEvents(b))
     /\ redis' = [redis EXCEPT ![b] =
                    IF allowed
                    THEN [members |-> kept \cup {member},
                          deadline |-> IF Stored(b) = {} THEN now + Window(b) + Slack ELSE @.deadline]
                    ELSE [@ EXCEPT !.members = kept]]

\* The Lua script, one step of Redis.
Script(p, b, member, allowed) ==
  LET kept == Kept(b, Clock(p) - Window(b))
  IN /\ allowed = (Cardinality(kept) < MaxEvents(b))
     /\ redis' = [redis EXCEPT ![b] =
                    IF allowed
                    THEN [members |-> kept \cup {member},
                          deadline |-> now + Window(b) + Slack]
                    ELSE [@ EXCEPT !.members = kept]]

OutcomeOf(allowed) == IF allowed THEN "admitted" ELSE "refused"

-----------------------------------------------------------------------------
(***************************************************************************)
(* check(), with every way it can go                                       *)
(***************************************************************************)

UsesMemory(p) == backend[p] = "memory" \/ ~healthy[p]

AskMemory(p, b, allowed) ==
  /\ UsesMemory(p)
  /\ MemoryCheck(p, b, allowed)
  /\ Record(b, MemoryOf(p), None, OutcomeOf(allowed))
  /\ UNCHANGED <<redis, healthy, outages>>

AskRedis(p, b, allowed) ==
  /\ ~UsesMemory(p) /\ reachable
  /\ \E nonce \in Nonces :
       LET member == <<Clock(p), nonce>>
       IN /\ Script(p, b, member, allowed)
          /\ Record(b, Redis, member, OutcomeOf(allowed))
  /\ UNCHANGED <<deques, healthy, outages>>

\* The call fails before it reaches Redis.
RedisFails(p, b, allowed) ==
  /\ ~UsesMemory(p) /\ ~reachable
  /\ healthy' = [healthy EXCEPT ![p] = FALSE]
  /\ MemoryCheck(p, b, allowed)
  /\ Record(b, MemoryOf(p), None, OutcomeOf(allowed))
  /\ UNCHANGED <<redis, outages>>

\* The script has run, but the answer does not arrive within socket_timeout.
AnswerLost(p, b, allowed) ==
  /\ ~UsesMemory(p) /\ reachable
  /\ outages < MaxOutages /\ outages' = outages + 1
  /\ healthy' = [healthy EXCEPT ![p] = FALSE]
  /\ MemoryCheck(p, b, allowed)
  /\ \E nonce \in Nonces, ran \in BOOLEAN :
       LET member == <<Clock(p), nonce>>
       IN /\ Script(p, b, member, ran)
          /\ log' = [log EXCEPT ![b] =
                       @ \o <<Entry(Redis, member, IF ran THEN "lost" ELSE "unheard"),
                              Entry(MemoryOf(p), None, OutcomeOf(allowed))>>]

Check(p, b, allowed) ==
  /\ backend[p] # "none"
  /\ \/ AskMemory(p, b, allowed)
     \/ AskRedis(p, b, allowed)
     \/ RedisFails(p, b, allowed)
     \/ AnswerLost(p, b, allowed)
  /\ UNCHANGED <<clocks, backend, reachable, lives, crashes>>

-----------------------------------------------------------------------------
(***************************************************************************)
(* Requests.  A handler asks before anything else and does not await       *)
(* between two checks, so a process does nothing else in the meantime.     *)
(***************************************************************************)

Request(p, kind) ==
  /\ fetching[p] = None
  /\ budget[kind] > 0 /\ budget' = [budget EXCEPT ![kind] = @ - 1]

Upload(p) ==
  /\ Request(p, "upload")
  /\ \E ip \in Ips, limit \in UploadLimits, allowed \in BOOLEAN :
       Check(p, PerIp(limit, ip), allowed)
  /\ UNCHANGED fetching

Delete(p) ==
  /\ Request(p, "delete")
  /\ \E ip \in Ips, allowed \in BOOLEAN : Check(p, PerIp("delete_per_ip", ip), allowed)
  /\ UNCHANGED fetching

Info(p) ==
  /\ Request(p, "info")
  /\ \E ip \in Ips, allowed \in BOOLEAN : Check(p, PerIp("fetch_per_ip", ip), allowed)
  /\ UNCHANGED fetching

\* GET and HEAD of a file: the limit of the caller, and if that allows it the
\* limit of the caller and the file.
Fetch(p) ==
  /\ Request(p, "fetch")
  /\ \E ip \in Ips, file \in Files, allowed \in BOOLEAN :
       /\ Check(p, PerIp("fetch_per_ip", ip), allowed)
       /\ fetching' = [fetching EXCEPT ![p] =
                         IF allowed THEN PerFile(file, ip) ELSE None]

FetchFile(p) ==
  /\ fetching[p] # None
  /\ \E allowed \in BOOLEAN : Check(p, fetching[p], allowed)
  /\ fetching' = [fetching EXCEPT ![p] = None]
  /\ UNCHANGED budget

-----------------------------------------------------------------------------
(***************************************************************************)
(* Starts, outages and time                                                *)
(***************************************************************************)

\* init(): Redis when it is configured and answers a ping, or else memory.
Start(p) ==
  /\ backend[p] = "none"
  /\ backend' = [backend EXCEPT ![p] = IF RedisUrl /\ reachable THEN "redis" ELSE "memory"]
  /\ lives' = [lives EXCEPT ![p] = @ + 1]
  /\ UNCHANGED <<budget, clocks, healthy, deques, redis, reachable, fetching, outages, crashes, log>>

\* The state of the limiter is gone with its process.
Crash(p) ==
  /\ crashes < MaxCrashes /\ crashes' = crashes + 1
  /\ backend[p] # "none"
  /\ backend' = [backend EXCEPT ![p] = "none"]
  /\ healthy' = [healthy EXCEPT ![p] = TRUE]
  /\ deques' = [deques EXCEPT ![p] = [b \in Buckets |-> <<>>]]
  /\ fetching' = [fetching EXCEPT ![p] = None]
  /\ UNCHANGED <<budget, clocks, redis, reachable, lives, outages, log>>

Outage ==
  /\ reachable /\ outages < MaxOutages
  /\ outages' = outages + 1
  /\ reachable' = FALSE
  /\ UNCHANGED <<budget, clocks, backend, healthy, deques, redis, fetching, lives, crashes, log>>

\* Redis is back, with its data or (after a restart) without.
Recover ==
  /\ ~reachable /\ reachable' = TRUE
  /\ \/ UNCHANGED <<redis, lives>>
     \/ /\ redis' = [b \in Buckets |-> NoKey]
        /\ lives' = [lives EXCEPT !["redis"] = @ + 1]
  /\ UNCHANGED <<budget, clocks, backend, healthy, deques, fetching, outages, crashes, log>>

Tick ==
  /\ now < MaxTime /\ now' = now + 1
  /\ UNCHANGED <<budget, spread, skew, backend, healthy, deques, redis, reachable, fetching, lives,
                 outages, crashes, log>>

Init ==
  /\ budget \in Budgets
  /\ now = 0
  /\ spread \in 0..MaxSkew /\ skew \in [Procs -> 0..spread]
  /\ {0, spread} \subseteq {skew[p] : p \in Procs}
  /\ backend = [p \in Procs |-> "none"]
  /\ healthy = [p \in Procs |-> TRUE]
  /\ deques = [p \in Procs |-> [b \in Buckets |-> <<>>]]
  /\ redis = [b \in Buckets |-> NoKey]
  /\ reachable = TRUE
  /\ fetching = [p \in Procs |-> None]
  /\ lives = [x \in Procs \cup {"redis"} |-> 0]
  /\ outages = 0 /\ crashes = 0
  /\ log = [b \in Buckets |-> <<>>]

Next ==
  \/ \E p \in Procs :
       Start(p) \/ Crash(p) \/ Upload(p) \/ Delete(p) \/ Info(p) \/ Fetch(p) \/ FetchFile(p)
  \/ Outage \/ Recover \/ Tick

Spec == Init /\ [][Next]_vars

-----------------------------------------------------------------------------
(***************************************************************************)
(* Properties                                                              *)
(***************************************************************************)

\* Types, and the size of what is kept: a deque never outgrows its limit, nor
\* does the sorted set of a key.
TypeOK ==
  /\ now \in Nat /\ spread \in 0..MaxSkew /\ skew \in [Procs -> 0..spread]
  /\ backend \in [Procs -> {"none", "memory", "redis"}]
  /\ healthy \in [Procs -> BOOLEAN]
  /\ deques \in [Procs -> [Buckets -> Seq(Nat)]]
  /\ \A b \in Buckets :
       /\ redis[b].members \subseteq Nat \X Nonces /\ redis[b].deadline \in Nat
       /\ Cardinality(redis[b].members) <= MaxEvents(b)
       /\ \A p \in Procs : Len(deques[p][b]) <= MaxEvents(b)
  /\ reachable \in BOOLEAN
  /\ fetching \in [Procs -> Buckets \cup {None}]
  /\ lives \in [Procs \cup {"redis"} -> Nat]
  /\ outages \in 0..MaxOutages /\ crashes \in 0..MaxCrashes
  /\ \A b \in Buckets : \A i \in DOMAIN log[b] : log[b][i].at \in 0..now

\* The checks of bucket b in the store of entry e, from time t to e.
Since(b, e, t, outcomes) ==
  {i \in DOMAIN log[b] :
     LET x == log[b][i]
     IN x.store = e.store /\ x.outcome \in outcomes /\ t <= x.at /\ x.at <= e.at}

\* Events that agree in clock and nonce are one member of the sorted set.
Distinct(b, S) == {IF log[b][i].member = None THEN i ELSE log[b][i].member : i \in S}

\* Whatever processes, crashes, outages and lost answers do, a store admits at
\* most max_events per window: a deque in every closed window of its process,
\* Redis in every half-open window if the clocks agree, and otherwise in every
\* one that is shorter by as much as they are apart (of clocks that are a
\* window apart it says nothing), where events with the same member are one.
\* So a caller gets at most max_events per store that is alive (ratelimit.py:6-8
\* and 13-15).
StoresKeepLimits ==
  \A b \in Buckets : \A n \in DOMAIN log[b] :
    LET e    == log[b][n]
        from == IF e.store[1] = "redis" THEN e.at - Window(b) + spread + 1 ELSE e.at - Window(b)
    IN Cardinality(Distinct(b, Since(b, e, from, {"admitted"}))) <= MaxEvents(b)

\* Nobody is refused for events that are over: when a check is refused, its
\* store has counted max_events of its bucket in the window before it, as far
\* as the clocks agree.  A trim that stops early, or a key that outlives
\* its events, would starve a caller that has been quiet.
RefusalsAreEarned ==
  \A b \in Buckets : \A n \in DOMAIN log[b] :
    LET e == log[b][n]
    IN e.outcome \in {"refused", "unheard"} =>
         LET from == IF e.store[1] = "redis" THEN e.at - Window(b) - spread + 1
                     ELSE e.at - Window(b)
         IN Cardinality(Since(b, e, from, {"admitted", "lost"})) >= MaxEvents(b)

-----------------------------------------------------------------------------
(***************************************************************************)
(* Why the properties hold: how what a store keeps is related to the       *)
(* history of its bucket.                                                  *)
(***************************************************************************)

Entries ==
  [at : Nat, store : (Procs \cup {"redis"}) \X Nat, member : {None} \cup (Nat \X Nonces),
   outcome : {"admitted", "refused", "lost", "unheard"}]

\* Redis keeps finitely many members, and every check is of a store in one of
\* the lives that it has had; only those of Redis have a member, stamped by a
\* clock that is at most `spread' ahead.
LogShape ==
  /\ redis \in [Buckets -> [members : SUBSET (Nat \X Nonces), deadline : Nat]]
  /\ \A b \in Buckets : IsFiniteSet(redis[b].members)
  /\ log \in [Buckets -> Seq(Entries)]
  /\ \A b \in Buckets : \A i \in DOMAIN log[b] :
       LET x == log[b][i]
       IN /\ x.store[2] <= lives[x.store[1]]
          /\ x.store[1] \in Procs => x.member = None /\ x.outcome \in {"admitted", "refused"}
          /\ x.store[1] = "redis" =>
               x.member # None /\ x.at <= x.member[1] /\ x.member[1] <= x.at + spread

\* A deque is in order and not from the future; a process that is down has none.
DequesInOrder ==
  \A p \in Procs, b \in Buckets :
    LET d == deques[p][b]
    IN /\ \A i, j \in DOMAIN d : i <= j => d[i] <= d[j]
       /\ \A i \in DOMAIN d : d[i] <= Clock(p)
       /\ backend[p] = "none" => d = <<>>

\* What a store has admitted from time t on.
AdmittedFrom(b, store, t) ==
  {i \in DOMAIN log[b] :
     log[b][i].store = store /\ log[b][i].outcome = "admitted" /\ t <= log[b][i].at}

\* A deque holds what its process has admitted: counted from any time in the
\* window, they agree.
DequesCount ==
  \A p \in Procs, b \in Buckets : \A t \in (now - Window(b))..now :
    backend[p] # "none" =>
      Cardinality(AdmittedFrom(b, MemoryOf(p), t)) = Len(Trim(deques[p][b], t + skew[p]))

\* Redis holds every event of its life that may count for some process, and
\* keeps the key until the event is over.
RedisHolds ==
  \A b \in Buckets : \A i \in DOMAIN log[b] :
    LET x == log[b][i]
    IN x.store = Redis /\ x.outcome \in {"admitted", "lost"} /\ x.at > now - Window(b) + spread =>
         x.member \in redis[b].members /\ redis[b].deadline >= x.at + Window(b) + Slack

\* Redis holds nothing else.
MembersAreEvents ==
  \A b \in Buckets : \A m \in redis[b].members :
    \E i \in DOMAIN log[b] :
      log[b][i].store = Redis /\ log[b][i].outcome \in {"admitted", "lost"} /\ log[b][i].member = m

LimiterInv ==
  /\ TypeOK /\ LogShape /\ DequesInOrder
  /\ DequesCount /\ RedisHolds /\ MembersAreEvents
  /\ StoresKeepLimits /\ RefusalsAreEarned

=============================================================================
