# A TLA+ model of drop-pensa

drop-pensa is a small file drop: `POST /upload` stores a file and answers with
a link, the link can be fetched until it expires, is deleted with its token, or
(for a one-shot upload) has been fetched once, and a cleanup worker erases what
is over. These modules model the server in `src/src/drop_pensa` and its upload
page, TLC checks them on small instances, and TLAPS proves the main safety
properties for every size.

## The system

| component | state | operations | what makes it correct |
|---|---|---|---|
| metadata store (`storage/db.py`, `models.py`) | table `files` | put, get, get_raw, mark_fetched, soft_delete, expired_ids, hard_delete_old_soft_deletes | `deleted_at` is written once; a row goes only as an old tombstone; no fetch is lost from the counter |
| sessions (`session_scope`, `get_session`) | open transactions, SQLite's write lock, the pool of connections | begin, commit, rollback, check out and return a connection | every request ends; a confirmed upload is committed; no connection is lost, none is kept by a download |
| file storage (`storage/filesystem.py`) | `<id>` and `<id>.part` on disk | save_stream, stream_file, delete_file | only whole files at the canonical path |
| handlers (`routes/*.py`) | one coroutine per request | upload, fetch, head, info, delete | a live row always has its bytes; a deleted file stays gone; a one-shot file is promised once |
| cleanup worker (`cleanup.py`) | the ids of the current pass | expire, purge | expired links are hidden, old tombstones lose row and file, nothing live is unlinked |
| rate limiter (`ratelimit.py`) | a deque per bucket and process, a sorted set per bucket in Redis, `_healthy` | init, check | at most N events per window, bucket and store; nobody is refused for events that are over |
| range parser (`range_parser.py`) | none | parse_range_header | what is served is what the range selects; "whole file" is recognised |
| lifespan (`app.py`) with `cleanup_loop` | stop event, cleanup task, thread of the pass | start, pass, drain, stop, give up | passes recur; shutdown ends; nothing outlives the process |
| web client (`web/static/app.js`) | view, current upload, current result, countdown | upload, cancel, delete, reset, answers in any order | the link on the screen is the one that the buttons act on |
| id, token, filename (`security.py`), client info, middleware, pages, config, logging, migration | none | | |

Handlers are `async def` and never await between their database and file
system calls (`save_stream` is a coroutine without a suspension point). In one
process they therefore run one after the other on the event loop. Four things
break this order, and they are what the model is about:

* the cleanup worker runs in a thread of its own (`asyncio.to_thread`);
* a `StreamingResponse` is only a promise: the file is opened when the body is
  first asked for, after the handler has returned;
* the session of a request is closed by the teardown of the `get_session`
  dependency. With the FastAPI of `pyproject.toml` (0.104) this happens after the
  response has been sent. `mark_fetched`, `soft_delete` and the purge commit by
  themselves, `put` does not: the row of an upload becomes visible after its 201,
  and until then the upload holds SQLite's write lock;
* several processes (uvicorn workers, replicas) may share the database and the
  disk.

On top of that come crashes of a process, disk errors, database errors and
`database is locked`. `DropServer` models this core. The other modules model what
surrounds it, each with the state of its own that makes it hard:

* the rate limiter is asked first by every handler; it has a store that is
  shared by processes and may fail, and one per process (`RateLimit`);
* the sessions of all requests and of the cleanup pass come from one pool, and a
  handler that waits for a connection stops the event loop (`SessionPool`);
* process, cleanup task and the thread of the pass end at different times
  (`ServerProcess`, composed with `SessionPool`);
* the answer to a GET is announced by one computation and produced by another
  one, later (`Download`, on top of `RangeParser`);
* the page has several requests under way whose handlers share a few variables
  (`WebClient`).

## Modules

| module | what it is |
|---|---|
| `DbStore` | the table and one operator per SQL statement |
| `DropServer` | the server: handlers, cleanup threads, clock, crashes; its properties |
| `OneShotLink` | the abstract specification: a link is absent, live or dead, and a one-shot link is redeemed once |
| `DropServerInv` | the inductive invariant `IInv`, and what one-shot files, the accounts of files and fetches, failures and repeating ids need besides or instead |
| `MCDropServer` | symmetry sets for TLC; the passing runs of the server |
| `DropClaims` | statements of docs, comments and tests that the code does not keep |
| `CleanupPasses` | `DropServer` with a history variable that remembers what a cleanup pass found |
| `RangeParser` | `parse_range_header`, and the definition of a range that it must agree with |
| `Download` | one GET from the parsed header to the last chunk |
| `RateLimit`, `MCRateLimit` | both stores of the limiter, its fallback, and the handlers that ask it; the inductive invariant `LimiterInv` |
| `SessionPool` | requests, their sessions and connections, the event loop |
| `ServerProcess` | start, cleanup task and pass, shutdown, crash; extends `SessionPool`; the inductive invariant `ProcessInv` |
| `WebClient` | the upload page |
| `DbStoreProofs` | what the statements do to the table |
| `DropServerProofs` | the invariant of the server and its safety theorems, with and without fresh ids |
| `OneShotProofs`, `AccountingProofs` | on top of it: one-shot files and the refinement of `OneShotLink`; the fetch counter and the files on disk |
| `RangeProofs`, `RateLimitProofs`, `ServerProcessProofs`, `WebClientProofs` | theorems about the other components |

### How `DropServer` corresponds to the code

A request `r` has a label `pc[r]`, the next step of its handler. The labels of
one path are

    upload:  alloc - save - write - replace - put - respond - commit - done
    fetch:   get (- raw) - exists - mark (- consume) - open - body - done
    delete:  auth - softdel - unlink - done

One action is one database statement or file system call, with every check the
handler makes before the next one. `Running(r, l)` says that the handler stands
at `l` and occupies the loop of its process (`loop[p] = r`); `Resumes(r, l)` that
it has let the loop go and waits for it. `Reply` and `Serve` end the handler's
turn. `Commit`, the teardown in a pool thread, needs no loop.

The write lock is `writer`: the request whose INSERT is not committed. A writing
statement needs `writer = None`. While somebody else holds it the statement
waits, synchronously and therefore with the loop, until the holder commits or
the busy timeout raises (`LockedOut`). Statements that commit at once
(`mark_fetched`, `soft_delete`, the purge) are single steps.

`cw[p]` is the cleanup thread of process `p`: where `_cleanup_once` stands, the
ids still to do, and the id in hand. `sleep` is the wait of `cleanup_loop`.

`disk[id]` and `part[id]` are the contents of `<id>` and `<id>.part`: whose bytes
(an upload's name stands for the bytes it sends and for their hash, size and
type) and whether all of them are there. A body that is open keeps its
descriptor: an unlink does not break it, only an unlink before `open` does.

What a client sends is chosen in `BeginUpload`, `BeginFetch`, `BeginPeek`,
`BeginDelete`: the id, the TTL, one_shot, whether the filename or the token is
the right one, and whether the Range header asks for the whole file, a part, or
something unsatisfiable. A refusal by rate limits or by checks of the request
alone may happen to any request (`Refuse`).

`Crash(p)` ends a process and restarts it: requests, open transaction and
cleanup pass are gone, table and disk are as they were written.

### How the other modules correspond to the code

`RangeParser`. A header is a record of what the parser's splits find: the unit,
a comma, a dash, and the texts before and after the first dash, each an integer,
blank or no integer. `WellFormed` and `InFile` collect the raises, `Start` and
`End` are the three forms, `ParseRange` clamps the end. `Selected` is the
reference: the set of offsets that RFC 9110 gives each form.

`Download`. `Answer` and `Refuse` are `fetch` from its call of the parser on;
`Open`, `ReadChunk` and `EndOfBody` are `stream_file`, one chunk per step.
`sent` names the bytes of the body by their offset in the file. `Unlink` may
take the path away at any time before the body opens it.

`RateLimit`. `Check` is `ratelimit.check` with its four ways: memory, Redis, a
call that does not reach Redis, and a script that ran or not while its answer
was lost. `Script` is the Lua script, `MemoryCheck` the deque. `lives` counts the
starts of each process and of Redis, so that the history `log` can tell which
store counted an event. `skew` is how far the clock of a process is ahead, and
`spread`, chosen once, how far the clocks are apart. `Fetch` and `FetchFile` are
the two checks of GET and HEAD. The address of a caller, and which of the two
upload limits its Origin gets, are free choices of a request.

`SessionPool`. `stage[r]` is where a request and its session are: the handler
runs (`handling`), waits for a connection on the event loop (`checkout`), its
answer is going out (`responding`, or `streaming` for the body of a download,
which its client may keep open), the session is being closed in a thread
(`closing`). `Run` says who keeps a connection: `mark_fetched`, `soft_delete` and
`/healthz` have committed, an upload, HEAD, info and every refusal after a
lookup have not. A one-shot download needs a connection a second time: after the
commit of `mark_fetched` it still has the loop and asks the pool again for its
`soft_delete` (`consuming`, `Consume`), where it may wait and time out as well.

`ServerProcess`. `phase` is the lifespan, `task` is `cleanup_loop`, `thread` the
pass in the default executor. `GiveUp` is `wait_for` running out: it cancels the
task and a pass that is still queued, not one that has begun. `Exit` is the end
of `asyncio.run`, which joins that thread. `PeerCreatesTables` is another
replica that runs `create_all` on the same database.

`WebClient`. One action per handler of the page. An upload is `none`, `sent`,
and then `stored`, `failed` or `aborted`; `displayed` is what the result section
holds, `currentResult`, `currentXhr` and `expiryInterval` are the variables of
the page. The file dialog stays open across other events (`Choose`), which is
how uploads come to overlap.

## Runs

Constants of the server: `Ids`, `Reqs`, `Procs` (model values), `Grace` (SOFT_DELETE_GRACE),
`BatchLimit` (the LIMIT 1000), `MaxTtl`; `MaxTime`, `MaxFaults`, `MaxCrashes`
bound the clock, the errors and the crashes; `Kinds` the kinds of request;
`FreshIds` says that `generate_id` does not repeat itself.

| run | instance | shows |
|---|---|---|
| `Lifecycle` | 1 id, 3 requests of all kinds, time 0..3 | `OneShotServedOnce`, `DeletedStaysGone`, `FilesAccounted`, `TombstonePermanent`, `PurgeOnlyOldTombstones`, types |
| `Errors` | 1 id, 3 requests, 1 error, 1 crash, grace 0, time 0..1 | `LiveFileBacked`, `NoHalfWritten`, that only named failures lose track of a file (`OnlyFailuresAbandon`), the invariants behind the theorems (`OneShotInv`, `TrackInv`), and that the server implements `OneShotLink` (`KeepsPromise`) |
| `Replicas` | 2 processes, 1 id, 3 uploads and fetches, grace 0, time 0..1 | `FetchesCounted`; the invariant `IInv` under two cleanup threads |
| `Collision` | ids repeat, 3 requests | `TombstonePermanent`, and `CollisionInv` with `NoHalfWritten` in it, without fresh ids |
| `Progress` | fair, 2 ids, 2 uploads, fetches and deletes, batches of 1 | every request ends or has come to a body that its client reads, expired links are hidden, old tombstones erased |
| `Ranges` | files of 0..5 bytes, integers -1..6, chunks of 2 | `ParserIsExact`, `BodyMeetsAnswer`, `ShotNeedsWholeFile` |
| `RateLimits` | 2 processes, clocks that agree or are 1 apart, 1 address, 1 file, windows of 2 and 1, time 0..3, 1 outage, 1 crash | `StoresKeepLimits`, `RefusalsAreEarned`, what is kept stays within the limit; `LimiterInv` |
| `Process` | fair, 3 requests, 1 connection, passes of 2 sessions, 2 starts, 1 crash | `ConnectionsAccounted`, `NothingOutlivesTheProcess`, `OneFailedStart`; `ProcessInv`; requests and shutdowns end, passes recur |
| `WebClient` | fair, 3 uploads, 2 deletes | the link on the screen, its countdown and the progress view; the progress view ends |

Why the bounds are enough to be interesting: three requests are an upload and
two actors that race for its file. With a TTL and a grace period of one unit,
time 3 lets a link expire at 1, lets the worker make it a tombstone and purge
it at 3, with one unit left for each boundary. `Errors` and `Replicas` have no grace period, so that time 1 is
enough for a link to expire, and for one that was deleted or consumed at time 0
to be purged. A batch of
one forces the second pass. One id is enough for everything except what two
files have to do with each other, which is batches and two uploads that want the
write lock at once (`Progress`). Faults and crashes may strike at any step, so
one of each covers every single failure point and every pair of an error and a
crash.

The bounds of the other runs: a file of 5 bytes in chunks of 2 has a last chunk
that is short, ranges that start or end on a chunk's edge and inside one, and
integers up to 6 lie on both sides of its end. A window of 2 (or 1) and time up
to 3 let a bucket fill up, refuse, and become free again; `SomeBudgets` has enough
requests of one kind to fill a bucket and be refused, and the kinds do not share
buckets except `info` and `fetch`, which ask `fetch_per_ip` alike. What the run
says of Redis it says mainly of clocks that agree, with windows of 2 and 1 units:
with clocks one unit apart `StoresKeepLimits` has one unit left of the longer
window and nothing of the shorter one, and what is checked then is that no
caller is starved (`RefusalsAreEarned`) and that the sorted sets agree with the
history (`LimiterInv`). Two nonces let members collide or not. With one connection every pair of a holder and a waiter
occurs, with three requests a second waiter too; a pass of two sessions has one
that is guarded and one that is not. Three uploads can be under way, shown and
superseded at once.

`FilesAccounted` says that a file on disk can always be found by somebody who
will remove it. It excepts uploads that were answered with an error, because
the code leaves the file of an upload whose INSERT fails (a lock timeout, for
instance) on disk, without a row (see below). It holds, and is checked
(`Lifecycle`), without errors and crashes. What errors and crashes may do is
`OnlyFailuresAbandon`, checked with both (`Errors`): a step that leaves the bytes
of an id to nobody (no row, no upload under way, no purge with its unlinks still
to do) is a failure of the copy, the INSERT or the commit of that upload, a
failure of the unlink in the purge, or the crash of a process that has one of
the two in hand. In particular no failing soft-delete, no failing unlink of a
DELETE or of an expiry, no refusal and no other crash does, and a file that was
within reach is not lost later by a step that has nothing to do with it.

### Fairness

`FairSpec` assumes weak fairness of each request's handler up to the body of a
download, of each process's cleanup thread and of the clock. The event loop and the thread scheduler run
whatever can run; `cleanup_loop` polls for ever and survives every exception of
a pass; SQLite's busy timeout ends a wait for the write lock (`LockedOut` is part
of the handler). No fairness is assumed of clients: nobody has to send anything,
and nobody has to read a body to its end or close its connection, for which
neither the handlers nor the server have a timeout. So `RequestsTerminate` claims
of a download only that it comes to its body.
`Crash` is not fair and the liveness runs have no crashes and no errors. With
weak fairness per handler, `RequestsTerminate` shows what the timeout is for:
without it an upload whose 201 waits for the loop, and a handler that waits on
the loop for the upload's lock, block each other for ever.

`ServerProcess` assumes weak fairness of the steps of a request that the process
itself makes (handlers, `pool_timeout`, the closing of sessions), of the cleanup
task, of the shutdown and of its timeout. It assumes nothing of a pass, whose
disk or database may hang, of the client of a download, of signals, crashes and
replicas. So `RequestsEnd` holds although a hung pass may keep the only
connection (the waiters get their 500 from `pool_timeout`), and `ShutdownEnds`
says what a hung pass can still delay: not the shutdown of the application, but
the end of the process, whose executor waits for its thread.

`WebClient` assumes that a request is answered or fails and that intervals fire,
and nothing of the user.

## What the runs refute

Each of these runs checks one statement of the repository and finds a
counterexample; `PROJECT.json` quotes the lines.

* `ClaimFound`: the link in a 201 works. It may not, until the session commits.
* `ClaimGone`: 410 means that a one-shot was consumed. An expired or deleted
  one-shot that nobody fetched is answered 410 as well.
* `ClaimRetry`: the next pass retries a failed unlink. Only the purge does.

The models also have these behaviours, which the code does and a reader of the
properties should know of. No run is about them.

* A one-shot file is "deleted on first fetch" (`privacy.html:36`) as far as its
  row goes: its bytes stay on disk until the purge, a day later.
* After one Redis error a process never asks Redis again. The comment at
  `ratelimit.py:122` speaks of a cool-down and of `_retry_redis()`; there is no
  such function. `RedisFails` and `AnswerLost` set `healthy` to FALSE and no
  action sets it back but a restart.
* A caller gets `max_events` per store, not per server: with Redis gone, as many
  times as there are processes, and once more after each restart of one.
* Events in one millisecond whose nonces agree are one member of the sorted set.
  `StoresKeepLimits` counts them once, as Redis does.
* A process with its clock ahead trims what others have counted too early:
  `StoresKeepLimits` claims the limit for Redis only for windows that are shorter
  by how far the clocks are apart, and nothing if that is a whole window.
* `_MemoryBackend._buckets` never loses a key. What is bounded is each deque.
* On an empty database a replica may fail to start because another one has
  created the tables in between; its next start succeeds (`OneFailedStart`).
* A handler that finds the pool empty stops everything that needs the event loop
  until a session is closed in a thread or `pool_timeout` is over.
* In the page, the answer to a DELETE that arrives after "drop another file" and
  another upload closes the newer result, and its delete link is lost with it
  (`app.js:244`). The end of an older upload forgets the handle of a newer one
  (`app.js:133`), which then cannot be cancelled; the progress view is left at
  the same moment, so `ProgressCanBeCancelled` is not violated.
* A name may hold any printable character (`security.py:78` refuses only
  separators and controls). `_public_url` (`upload.py:34`) does not percent-encode
  it, so a link to a name with `?`, `#` or a percent-encoded character asks for
  another name; and `fetch.py:126` puts it into a header, which the framework
  encodes in latin-1: with a name outside it the response cannot be built, after
  the fetch has been counted and a one-shot consumed (`fetch.py:149`). Names are
  model values here, so no run shows this.
* A crash, or a failing commit, after the 201 loses a confirmed upload.
* A DELETE repeated after the purge answers 403, no longer 200.
* A fetch that has been answered and has not opened its file yet loses it to a
  DELETE or an expiry.
* A crash or an error between the rename and the commit, or between the purge
  and its unlinks, leaves a file that no row names and no pass will find.
* The id check of an upload does not see tombstones: if `generate_id` repeats an
  id in the table, the upload fails on its INSERT and has overwritten the file.
* With two processes a one-shot file may be served twice, because its look-up and
  its consumption are two statements. That is why `OneShotServedOnce` and
  `KeepsPromise` are about one process.

## What is proved

`DropServerProofs` proves, for any sets of ids, requests and processes, any
grace period, batch limit and bounds:

* whatever ids `generate_id` returns: `TypeCorrect` (`TypeOK`) and
  `TombstonesStay` (`TombstonePermanent`);
* if ids are fresh (`FreshIds`): `Invariance` (`IInv`), `LinksAreBacked`
  (`LiveFileBacked`), `DeletionIsFinal` (`DeletedStaysGone`);
* if ids are fresh, or if there is one process (`OneProcess`): `FilesAreWhole`
  (`NoHalfWritten`), `PurgeIsLate` (`PurgeOnlyOldTombstones`). Two processes that
  are given one id can violate either, so one of the two is needed.

`OneShotProofs` proves, for one process and fresh ids, `OneShotIsOnce`
(`OneShotServedOnce`): a one-shot file is promised to one request at most; and
`ServerKeepsPromise` (`KeepsPromise`): the server implements `OneShotLink`.
Without `OneProcess` both are false.

`AccountingProofs` proves, for any number of processes and fresh ids,
`FetchesAreCounted` (`FetchesCounted`) and, with errors and crashes at any step,
`FailuresAloneAbandon` (`OnlyFailuresAbandon`). If there are neither
(`Undisturbed`), it also proves `FilesAreAccounted` (`FilesAccounted`). That
assumption is needed: a failing commit, a failing unlink of the purge and a crash
each leave a file that nobody will find, and `OnlyFailuresAbandon` says that
nothing else does.

The assumptions are those in `DbStore` and `DropServer`: `None` is no number, id,
request, process or row; the constants are numbers of the right kind.

The argument is about who may still touch an id. `LiveFileBacked` is not
inductive by itself: nothing in it says that a thread with an id in hand is not
about to unlink a live file. `IInv` adds

* `Shape`: types, and that a request at a label of a handler is of its kind;
* `OneOnLoop`, `Unanswered`: one handler at a time per process, and no answer
  before its last step;
* `IdsAreOwned`: an id belongs to one upload and nothing exists under an id that
  nobody was given;
* `UploadStages`: no row names the id of an upload that is still busy, and its
  bytes are in `part`, then on disk, before the row is;
* `WorkersHoldKnown`, `DeletesSettle`: an id that a cleanup thread or a DELETE
  has in hand is known (its upload is over), and whoever is about to unlink it
  has a settled one: known and not live;
* `PurgeIsOld`: what a pass is about to purge is an old tombstone or gone.

Known ids stay known and settled ids stay settled (`KnownStable`,
`SettledStable`), because only the commit of the upload that owns an id brings a
row to life (`TableStep`, `CommitOwns`). So an unlink, however late, hits settled
ids only (`UnlinksSettled`), and a live row keeps its file. `TableStep`,
`DiskStep` and `PartStep` say once what a step can do to table and disk, and the
proofs of the parts of the invariant use them instead of going through all
actions again. TLC checks `IInv` too (`Replicas`, with two processes).

`OneShotServedOnce` needs more: `OneShotInv` adds `FetchesAdmitted`, which says
that while a fetch is between its look-up of the row and its last step on the
loop nobody has redeemed the link, and that a redeemed one-shot link is settled.
A second fetch would have to stand at such a step while the first one redeems
the link, and `OneOnLoop` with one process allows one handler there
(`OneFetchAtATime`). A later fetch finds no live row (`RedeemedIsSettled`). TLC
checks `OneShotInv` with errors and crashes (`Errors`).

`ServerKeepsPromise` goes through the actions: those that write the table kill a
link (`KillStep`), redeem it (`RedeemStep`), publish it (`PublishStep`) or leave
every link as it is (`QuietStep`); an upload that ends without a row abandons its
id (`AbandonStep`), a crash may end several; every other step is a stutter. That
the redeemed link is live and unredeemed is `FetchesAdmitted`.

`CountInv` adds to `IInv` that a fetch beyond its look-up knows its id
(`FetchesKnow`), so that no row can be inserted with a counter of zero after a
fetch of the id, and that the counter is not behind (`CountersKeepUp`) for the
fetches that were answered and those that stand between the counter and the
consumption. It needs no loop: the increment is one statement (`CounterStep`).

`AccountInv` says who holds a file: a partial one the upload that writes it
(`PartHeld`); a finished one its upload, then its row, then the sweep that took
the row away (`DiskHeld`). `PurgeBeginsSweep` and `SweepStep` are the second hand-over.

`TrackInv` is what is left of this with errors and crashes. It adds to `IInv` that
a partial file belongs to an upload that writes it or has failed, and never
stands beside a row or under a purge (`PartsAreYoung`), and that an upload has no
finished file before its rename (`RenameIsFirst`). `FailuresAloneAbandon` then
looks at who could have found a file: its row, which only a purge takes away,
into the hands of its sweep (`PurgeBeginsSweep`), its upload (`OwnersEnd`), or
that sweep (`SweepsEnd`). Each can lose it only by its own unlink, which
removes the file, by handing it over, or by one of the failures in the property
(`AbandonedBy`); that a purge meets no partial file is `PurgeCameFrom`. TLC
checks `TrackInv` (`Errors`).

Without fresh ids `IInv` is false, and two other things protect the store.
`LockInv`, for any number of processes: who has inserted a row keeps SQLite's
write lock until it commits, so the key is still free then, and a commit never
meets a tombstone (`CommitsAlone`, `DeletionStays`). `CollisionInv`, for one
process: the loop lets nobody else at a partial file before its rename, and with
one cleanup thread the rows selected for a purge are still there when it runs,
so none of them can be a new one. TLC checks it (`Collision`).

`RangeProofs` proves, for every header, file size and chunk size,
`ParserAlwaysExact` (`ParserIsExact`), `BodiesMeetAnswers` (`BodyMeetsAnswer`) and
`ShotsNeedWholeFiles` (`ShotNeedsWholeFile`). The first follows from
`ParserMeetsDefinition`, a lemma about the operators alone. For the others,
`DownloadInv` says that what has been sent is the interval that starts at the
first byte of the range and ends where the open file stands (`StreamInv`), and
that the three variables of the answer are functions of the header
(`AnswerInv`); `ChunkFits` is the arithmetic of one turn of the loop, and
`DownloadTypes` (`TypeOK`) the types of a download. The
assumptions: blank texts and texts that are no integers are no integers, the
outcomes of the parser are distinct, a chunk has at least one byte.

`WebClientProofs` proves the four invariants of the page for any sets of uploads
and deletes: `PageTypes`, `ScreenShowsCurrentResult`, `TimersFollowResults`,
`CancelAlwaysWorks`. Their conjunction is inductive: that the timer is the one
of the result needs that it is, that the cancelled handle is one of a running
request needs the types of the last handle. The only assumption is that `null` is no upload.

`ServerProcessProofs` proves, for any number of requests and connections, any
length of a pass and any numbers of starts and crashes, `ProcessTypes`,
`ConnectionsAreAccounted` (`ConnectionsAccounted`), `NothingSurvives`
(`NothingOutlivesTheProcess`) and `OneStartIsLost` (`OneFailedStart`). `ProcessInv`
has three parts: `Balanced`, the connections that are idle, held by a session
and held by the pass add up to the pool; `PhaseShape`, in which phase of the
process there may be requests, a blocked loop, a cleanup task and the thread of a
pass; `StartShape`, that a start which failed has found the tables there, so that
it is the only one. `HoldersStep` says what one session's step does to the number of holders.

`RateLimitProofs` proves, for any processes, addresses, windows, limits, spread of
the clocks and number of outages, `LimiterTypes`, `LimitsAreKept`
(`StoresKeepLimits`) and `RefusalsAreAlwaysEarned` (`RefusalsAreEarned`). What they
say differs between the stores. A deque admits at most `max_events` in every
closed window of its process. Redis does in every half-open window if the clocks
of the processes agree; if they do not, only in windows that are shorter by their
spread, and of clocks that are a whole window apart nothing is shown. Events of
one millisecond and nonce are one there. Likewise, a refusal by a deque has
`max_events` in the closed window before it, one by Redis in a half-open window
that is longer by the spread. Both properties are about every window of the
history. A window that ended earlier has its history
already (`EarlierWindowsStay`), so it is enough to look at the one that ends now.
In memory the reason is `DequesCount`: from any time that is still in the window
the history has as many admitted checks as the deque, trimmed to that time, has
entries. Its lemmas say that a trim cuts a deque in order at one point
(`TrimCuts`), that a later trim does not notice an earlier one (`TrimTwice`) and
that a new entry stays (`TrimKeepsNew`); `DequesInOrder` is why the trim from the
left is enough. In Redis every admitted event of the window is a member of the
sorted set (`RedisHolds`) and every member is an event (`MembersAreEvents`), as
far as the clocks agree. The assumptions: windows and limits are positive, the
name of Redis is no process, `None` is no member. How far the clocks are apart
(`spread`, at most `MaxSkew`) is part of what is proved, not assumed to be small.

Only model-checked: the liveness properties, with their fairness and `ENABLED`,
which are out of the prover's reach. No theorem speaks of what the code does not
keep: one-shot files with several processes, who would remove a file that a
failure has left to nobody, and live links under repeating ids.

## What is not modelled, and the plan

Formatting of responses, headers and dates, MIME types, filenames as strings,
templates, logging, configuration and the migration have no state and no order
of events; a model of them would repeat their text. `sanitize_filename` works on
one string of one request. The security headers are constants. Of the page, the
toast, the copy button, the QR code and the progress figures are left out: they
display and decide nothing. Nothing fsyncs, and a power failure is not a crash
of the model: table and disk keep what was written.

Next:

1. The safety part of the liveness argument, as lemmas: no handler waits for the
   write lock without a way out, and no state but a finished one is stuck.
2. What `Exit` and `GiveUp` promise about the order of a shutdown, as action
   properties of `ServerProcess`.
