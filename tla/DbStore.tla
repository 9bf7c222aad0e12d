------------------------------- MODULE DbStore -------------------------------
(***************************************************************************)
(* The metadata table of drop-pensa and its SQL statements                 *)
(* (storage/db.py over the schema of models.py).                           *)
(*                                                                         *)
(* A state of the table maps every id to its row, or to None when the      *)
(* table has no row with that primary key.  Each operator below is one     *)
(* statement: what it selects, or the table after it has committed.        *)
(***************************************************************************)
EXTENDS Naturals, FiniteSets

CONSTANTS
  Ids,         \* file ids that generate_id can return
  Reqs,        \* HTTP requests; an upload's name stands for the bytes it sends
  None,        \* Python's None, SQL's NULL
  Grace,       \* SOFT_DELETE_GRACE in clock units
  BatchLimit   \* the LIMIT of the two cleanup queries

ASSUME BatchAssumption == BatchLimit \in Nat \ {0}
ASSUME GraceAssumption == Grace \in Nat
ASSUME NoneAssumption  == None \notin Nat /\ None \notin Ids /\ None \notin Reqs

\* A row: sha256 stands for size, digest and type of the bytes hashed on upload.
Rows == [sha256        : Reqs,
         one_shot      : BOOLEAN,
         expires_at    : Nat,
         deleted_at    : Nat \cup {None},
         fetched_count : Nat]

ASSUME NoRowAssumption == None \notin Rows

Tables == [Ids -> Rows \cup {None}]

\* A row that is there and not soft-deleted: what DbStore.get returns.
Live(row) == row # None /\ row.deleted_at = None

Tombstone(row) == row # None /\ row.deleted_at # None

\* Mutant: without "deleted_at IS NULL".
Get_AnyRow(files, id) == files[id]

Get(files, id) == IF Live(files[id]) THEN files[id] ELSE None

GetRaw(files, id) == files[id]

\* UPDATE ... SET fetched_count = fetched_count + 1, done by the database.
MarkFetched(files, id) ==
  IF files[id] = None THEN files
  ELSE [files EXCEPT ![id].fetched_count = @ + 1]

\* Mutant: without "deleted_at IS NULL".
SoftDelete_AnyRow(files, id, now) ==
  IF files[id] # None THEN [files EXCEPT ![id].deleted_at = now] ELSE files

\* UPDATE ... SET deleted_at = now WHERE deleted_at IS NULL.
SoftDelete(files, id, now) ==
  IF Live(files[id]) THEN [files EXCEPT ![id].deleted_at = now] ELSE files

\* What a LIMIT without ORDER BY may return out of S.
Batches(S) ==
  {B \in SUBSET S : IF Cardinality(S) <= BatchLimit
                    THEN B = S ELSE Cardinality(B) = BatchLimit}

\* Mutant: one-shot links are left to the fetch that consumes them.
ExpiredIds_NotOneShot(files, now) ==
  {id \in Ids : Live(files[id]) /\ files[id].expires_at <= now /\ ~files[id].one_shot}

ExpiredIds(files, now) ==
  {id \in Ids : Live(files[id]) /\ files[id].expires_at <= now}

\* Mutant: the grace period counts from the expiry.
OldTombstones_SinceExpiry(files, now) ==
  {id \in Ids : Tombstone(files[id]) /\ files[id].expires_at + Grace < now}

\* Tombstones older than the grace period: deleted_at < now - Grace.
OldTombstones(files, now) ==
  {id \in Ids : Tombstone(files[id]) /\ files[id].deleted_at + Grace < now}

HardDelete(files, ids) ==
  [id \in Ids |-> IF id \in ids THEN None ELSE files[id]]

=============================================================================
