---------------------------- MODULE DbStoreProofs ----------------------------
(***************************************************************************)
(* What the statements of DbStore do to the table, for every table.        *)
(***************************************************************************)
EXTENDS DbStore, TLAPS

\* From f to g nothing comes to life: rows may go, keep their content, and
\* a tombstone keeps the time of its deletion.
Wanes(f, g) ==
  \A id \in Ids : g[id] # None =>
    /\ f[id] # None
    /\ g[id].sha256 = f[id].sha256
    /\ Live(g[id]) => Live(f[id])
    /\ Tombstone(f[id]) => g[id].deleted_at = f[id].deleted_at

\* Counting a fetch (mark_fetched) leaves a table in which nothing came to
\* life and no row is gone.
LEMMA MarkFetchedWanes ==
  ASSUME NEW f \in Tables, NEW id \in Ids
  PROVE  /\ MarkFetched(f, id) \in Tables
         /\ Wanes(f, MarkFetched(f, id))
         /\ \A i \in Ids : f[i] # None => MarkFetched(f, id)[i] # None
<1> DEFINE g == MarkFetched(f, id)
<1>1. CASE f[id] = None
  BY <1>1 DEF MarkFetched, Wanes, Live, Tombstone
<1>2. CASE f[id] # None
  <2>1. f[id] \in Rows
    BY <1>2 DEF Tables
  <2>2. g[id] = [f[id] EXCEPT !.fetched_count = @ + 1]
    BY <1>2 DEF MarkFetched, Tables
  <2>3. /\ g[id] \in Rows
        /\ g[id].sha256 = f[id].sha256 /\ g[id].deleted_at = f[id].deleted_at
    BY <2>1, <2>2 DEF Rows
  <2>4. \A i \in Ids : i # id => g[i] = f[i]
    BY <1>2 DEF MarkFetched, Tables
  <2>5. DOMAIN g = Ids /\ g = [i \in Ids |-> g[i]]
    BY <1>2 DEF MarkFetched, Tables
  <2>6. \A i \in Ids : g[i] \in Rows \cup {None}
    BY <2>3, <2>4 DEF Tables
  <2>7. g \in Tables
    BY <2>5, <2>6 DEF Tables
  <2> QED
    BY <1>2, <2>3, <2>4, <2>7, NoRowAssumption DEF Wanes, Live, Tombstone
<1> QED BY <1>1, <1>2

\* Counting a fetch brings nothing to life and kills nothing.
LEMMA MarkFetchedLive ==
  ASSUME NEW f \in Tables, NEW id \in Ids, NEW i \in Ids
  PROVE  Live(MarkFetched(f, id)[i]) = Live(f[i])
<1>1. CASE f[id] = None \/ i # id
  BY <1>1 DEF MarkFetched, Tables
<1>2. CASE f[id] # None /\ i = id
  <2>1. f[id] \in Rows
    BY <1>2 DEF Tables
  <2>2. /\ MarkFetched(f, id)[id] \in Rows
        /\ MarkFetched(f, id)[id].deleted_at = f[id].deleted_at
    BY <1>2, <2>1 DEF MarkFetched, Tables, Rows
  <2> QED BY <1>2, <2>2, NoRowAssumption DEF Live
<1> QED BY <1>1, <1>2

\* Soft-deleting an id leaves a table in which that id is not live, nothing
\* came to life and no row is gone.
LEMMA SoftDeleteWanes ==
  ASSUME NEW f \in Tables, NEW id \in Ids, NEW now \in Nat
  PROVE  /\ SoftDelete(f, id, now) \in Tables
         /\ Wanes(f, SoftDelete(f, id, now))
         /\ ~Live(SoftDelete(f, id, now)[id])
         /\ \A i \in Ids : f[i] # None => SoftDelete(f, id, now)[i] # None
<1> DEFINE g == SoftDelete(f, id, now)
<1>1. CASE ~Live(f[id])
  BY <1>1 DEF SoftDelete, Wanes, Live, Tombstone
<1>2. CASE Live(f[id])
  <2>1. f[id] \in Rows /\ f[id].deleted_at = None
    BY <1>2 DEF Tables, Live
  <2>2. g[id] = [f[id] EXCEPT !.deleted_at = now]
    BY <1>2 DEF SoftDelete, Tables
  <2>3. /\ g[id] \in Rows
        /\ g[id].sha256 = f[id].sha256 /\ g[id].deleted_at = now
    BY <2>1, <2>2 DEF Rows
  <2>4. \A i \in Ids : i # id => g[i] = f[i]
    BY <1>2 DEF SoftDelete, Tables
  <2>5. DOMAIN g = Ids /\ g = [i \in Ids |-> g[i]]
    BY <1>2 DEF SoftDelete, Tables
  <2>6. \A i \in Ids : g[i] \in Rows \cup {None}
    BY <2>3, <2>4 DEF Tables
  <2>7. g \in Tables
    BY <2>5, <2>6 DEF Tables
  <2>8. ~Live(g[id])
    BY <2>3, NoneAssumption DEF Live
  <2>9. g[id] # None
    BY <2>3, NoRowAssumption
  <2> QED
    BY <1>2, <2>1, <2>3, <2>4, <2>7, <2>8, <2>9 DEF Wanes, Live, Tombstone
<1> QED BY <1>1, <1>2

\* Purging ids leaves the rows of the others as they were.
LEMMA HardDeleteWanes ==
  ASSUME NEW f \in Tables, NEW ids \in SUBSET Ids
  PROVE  /\ HardDelete(f, ids) \in Tables
         /\ Wanes(f, HardDelete(f, ids))
         /\ \A i \in Ids : HardDelete(f, ids)[i] = None \/ HardDelete(f, ids)[i] = f[i]
         /\ \A i \in Ids \ ids : HardDelete(f, ids)[i] = f[i]
  BY DEF HardDelete, Tables, Wanes, Live, Tombstone

\* Counting a fetch of id adds one to the counter of id, and to no other.
LEMMA MarkFetchedCounts ==
  ASSUME NEW f \in Tables, NEW id \in Ids, NEW i \in Ids, f[i] # None
  PROVE  /\ f[i].fetched_count \in Nat
         /\ MarkFetched(f, id)[i].fetched_count =
              IF i = id THEN f[i].fetched_count + 1 ELSE f[i].fetched_count
<1>1. f[i] \in Rows
  BY DEF Tables
<1>2. CASE i = id
  <2>1. MarkFetched(f, id)[i] = [f[i] EXCEPT !.fetched_count = @ + 1]
    BY <1>2 DEF MarkFetched, Tables
  <2> QED BY <1>1, <1>2, <2>1 DEF Rows
<1>3. CASE i # id
  <2>1. MarkFetched(f, id)[i] = f[i]
    BY <1>3 DEF MarkFetched, Tables
  <2> QED BY <1>1, <1>3, <2>1 DEF Rows
<1> QED BY <1>2, <1>3

\* Soft-deleting and purging leave the counters of the rows that stay.
LEMMA DeletesKeepCounters ==
  ASSUME NEW f \in Tables, NEW i \in Ids
  PROVE  /\ \A id \in Ids, now \in Nat :
              f[i] # None => SoftDelete(f, id, now)[i].fetched_count = f[i].fetched_count
         /\ \A ids \in SUBSET Ids :
              HardDelete(f, ids)[i] # None =>
                HardDelete(f, ids)[i].fetched_count = f[i].fetched_count
<1>1. ASSUME NEW id \in Ids, NEW now \in Nat, f[i] # None
      PROVE  SoftDelete(f, id, now)[i].fetched_count = f[i].fetched_count
  <2>1. f[i] \in Rows
    BY <1>1 DEF Tables
  <2>2. \/ SoftDelete(f, id, now)[i] = f[i]
        \/ SoftDelete(f, id, now)[i] = [f[i] EXCEPT !.deleted_at = now]
    BY DEF SoftDelete, Tables
  <2> QED BY <2>1, <2>2 DEF Rows
<1>2. ASSUME NEW ids \in SUBSET Ids, HardDelete(f, ids)[i] # None
      PROVE  HardDelete(f, ids)[i] = f[i]
  BY <1>2, HardDeleteWanes
<1> QED BY <1>1, <1>2

\* The two cleanup queries return ids, and only ids that match.
LEMMA BatchesSubset ==
  ASSUME NEW S, NEW B \in Batches(S)
  PROVE  B \subseteq S
  BY DEF Batches

=============================================================================
