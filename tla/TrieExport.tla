----------------------------- MODULE TrieExport -----------------------------
(***************************************************************************)
(* The inverted index and its shard files: the dirty flag of AtlasTrie     *)
(* (storage/trie.py), export_all_to_legacy_format() and its callers        *)
(* (storage/exporter.py, CrawlerWorker._flush_to_disk, POST                *)
(* /api/crawler/export, the lifespan of api/main.py), and the import at    *)
(* boot.                                                                   *)
(*                                                                         *)
(* A word's postings stand for the stamp of their last change, 0 when it   *)
(* has none.  walk() snapshots all words under the trie's lock; everything *)
(* after it runs without.  Each shard file is replaced atomically through  *)
(* a temporary name of its own, so a shard is written in one step; a shard *)
(* that does not exist is one whose words have no postings.                *)
(*                                                                         *)
(* Four history variables say in what a clean trie and its files may       *)
(* differ: outdated, behind, leftover and overtaken.                       *)
(***************************************************************************)
EXTENDS Integers, FiniteSets

CONSTANTS
    Words,
    Shards,
    ShardOf,       \* _shard_for(): [Words -> Shards]
    Workers,       \* crawler threads: insert, and export with the dirty check
    Requests,      \* threads serving POST /api/crawler/export
    Main,          \* the lifespan thread
    JoinTimesOut,  \* whether a worker may outlive a join of 2 s
    MaxInserts,    \* bound on inserts
    MaxPurges,     \* bound on purges
    MaxFailures,   \* bound on shards not written or removed and joins that time out
    MaxRestarts    \* bound on restarts

Exporters == Workers \cup Requests \cup {Main}

ASSUME ShardOfAssumption == ShardOf \in [Words -> Shards]
ASSUME ExportersAssumption ==
    Main \notin Workers /\ Main \notin Requests /\ Workers \cap Requests = {}
ASSUME JoinTimesOutAssumption == JoinTimesOut \in BOOLEAN
ASSUME ExportBoundsAssumption ==
    /\ MaxInserts \in Nat /\ MaxPurges \in Nat
    /\ MaxFailures \in Nat /\ MaxRestarts \in Nat

VARIABLES
    trie,       \* postings in memory
    dirty,      \* _dirty of the trie
    disk,       \* postings in the shard files
    pc,         \* where each exporter is
    snap,       \* what its walk() returned
    todo,       \* shards of its buckets it has still to write
    listed,     \* shard files its glob found and it has still to look at
    clock, purges, failures, restarts,
    outlived,   \* whether a worker outlived the joins of the shutdown
    outdated,   \* history: exporters since whose walk() the index has changed
    behind,     \* history: shards last replaced or removed by one of those
    leftover,   \* history: shards without a bucket that could not be removed
    overtaken   \* history: the last worker that marked the trie was outdated

work == <<pc, snap, todo, listed>>
bounds == <<clock, purges, failures, restarts>>
races == <<outdated, behind, leftover, overtaken>>
rest == <<trie, dirty, disk, work, clock, purges, restarts, outlived, races>>
vars == <<rest, failures>>

Empty == [w \in Words |-> 0]
WordsOf(sh) == {w \in Words : ShardOf[w] = sh}
HasPostings(index, sh) == \E w \in WordsOf(sh) : index[w] # 0

Init ==
    /\ trie = Empty
    /\ dirty = FALSE
    /\ disk = Empty
    /\ pc = [x \in Exporters |-> "idle"]
    /\ snap = [x \in Exporters |-> Empty]
    /\ todo = [x \in Exporters |-> {}]
    /\ listed = [x \in Exporters |-> {}]
    /\ clock = 0
    /\ purges = 0
    /\ failures = 0
    /\ restarts = 0
    /\ outlived = FALSE
    /\ outdated = {} /\ behind = {} /\ leftover = {}
    /\ overtaken = FALSE

Running == pc[Main] \notin {"exited", "exitedUnsaved"}
ShuttingDown == pc[Main] # "idle"

\* The workers that shutdown_all_workers() has joined do nothing any more.
WorkersAlive == ShuttingDown => outlived

Go(x, from, to) ==
    /\ Running
    /\ pc[x] = from
    /\ pc' = [pc EXCEPT ![x] = to]

-----------------------------------------------------------------------------
(* Mutations of the index *)

\* Every export that is past its walk is outdated now.
Changed ==
    /\ dirty' = TRUE
    /\ outdated' = {x \in Exporters : pc[x] \in {"write", "sweep"}}
    /\ UNCHANGED <<disk, work, restarts, outlived, behind, leftover, overtaken>>

\* insert() by a worker that is indexing a page, so not exporting.
Insert(x, w) ==
    /\ Running
    /\ WorkersAlive
    /\ pc[x] = "idle"
    /\ clock < MaxInserts
    /\ clock' = clock + 1
    /\ trie' = [trie EXCEPT ![w] = clock + 1]
    /\ Changed
    /\ UNCHANGED <<purges, failures>>

\* purge_by_origin() from DELETE /api/crawler/{id}: the words all of whose
\* postings had that origin lose them; dirty only when something was removed.
PurgeWords(W) ==
    /\ Running
    /\ ~ShuttingDown
    /\ purges < MaxPurges
    /\ purges' = purges + 1
    /\ W # {} /\ \A w \in W : trie[w] # 0
    /\ trie' = [w \in Words |-> IF w \in W THEN 0 ELSE trie[w]]
    /\ Changed
    /\ UNCHANGED clock

Purge(W) == PurgeWords(W) /\ UNCHANGED failures

-----------------------------------------------------------------------------
(* export_all_to_legacy_format() *)

\* A worker flushes only when the trie is dirty; the route and the lifespan
\* always export.
Begin(x) ==
    /\ x \in Workers /\ dirty /\ WorkersAlive
    /\ Go(x, "idle", "walk")
    /\ UNCHANGED <<trie, dirty, disk, snap, todo, listed, bounds, outlived, races>>

\* walk(): a copy of every word under the lock, bucketed by shard.  It is the first
\* thing that a request does.
Walk(x) ==
    /\ x \in Requests => ~ShuttingDown
    /\ Go(x, IF x \in Requests THEN "idle" ELSE "walk", "write")
    /\ snap' = [snap EXCEPT ![x] = trie]
    /\ todo' = [todo EXCEPT ![x] = {sh \in Shards : HasPostings(trie, sh)}]
    /\ UNCHANGED <<trie, dirty, disk, listed, bounds, outlived, races>>

\* The disk after shard sh was replaced by what exporter x walked.
ShardImage(x, sh) ==
    [w \in Words |-> IF w \in WordsOf(sh) THEN snap[x][w] ELSE disk[w]]

\* The file is replaced, or removed if the walk found nothing for it.
PutShard(x, sh) ==
    /\ disk' = ShardImage(x, sh)
    /\ behind' = IF x \in outdated THEN behind \cup {sh} ELSE behind \ {sh}
    /\ leftover' = leftover \ {sh}

\* _atomic_write_shard(): temporary file, then os.replace.
WriteShard(x, sh) ==
    /\ Go(x, "write", "write")
    /\ sh \in todo[x]
    /\ todo' = [todo EXCEPT ![x] = @ \ {sh}]
    /\ PutShard(x, sh)
    /\ UNCHANGED <<trie, dirty, snap, listed, bounds, outlived, outdated, overtaken>>

\* Every bucket is written: list the shard files that are on disk.
ListShards(x) ==
    /\ Go(x, "write", "sweep")
    /\ todo[x] = {}
    /\ listed' = [listed EXCEPT ![x] = {sh \in Shards : HasPostings(disk, sh)}]
    /\ UNCHANGED <<trie, dirty, disk, snap, todo, bounds, outlived, races>>

\* Mutant of SweepShard: files without a bucket stay.
SweepShardKeeps(x, sh) ==
    /\ Go(x, "sweep", "sweep")
    /\ sh \in listed[x]
    /\ listed' = [listed EXCEPT ![x] = @ \ {sh}]
    /\ UNCHANGED <<trie, dirty, disk, snap, todo, bounds, outlived, races>>

\* A listed file without a bucket is removed, one with a bucket is left alone.
SweepShard(x, sh) ==
    /\ Go(x, "sweep", "sweep")
    /\ sh \in listed[x]
    /\ listed' = [listed EXCEPT ![x] = @ \ {sh}]
    /\ IF HasPostings(snap[x], sh)
       THEN UNCHANGED <<disk, behind, leftover>>
       ELSE PutShard(x, sh)
    /\ UNCHANGED <<trie, dirty, snap, todo, bounds, outlived, outdated, overtaken>>

\* Or it cannot be removed: the loop goes on, and the file stays.
SweepFails(x, sh) ==
    /\ Go(x, "sweep", "sweep")
    /\ sh \in listed[x]
    /\ ~HasPostings(snap[x], sh)
    /\ failures < MaxFailures
    /\ failures' = failures + 1
    /\ listed' = [listed EXCEPT ![x] = @ \ {sh}]
    /\ leftover' = leftover \cup {sh}
    /\ UNCHANGED <<trie, dirty, disk, snap, todo, clock, purges, restarts, outlived,
                   outdated, behind, overtaken>>

\* The export returns, or raises, and its locals are gone; after the lifespan's
\* the process exits.
Return(x, from, exit) ==
    /\ Go(x, from, IF x = Main THEN exit ELSE "idle")
    /\ snap' = [snap EXCEPT ![x] = Empty]
    /\ todo' = [todo EXCEPT ![x] = {}]
    /\ listed' = [listed EXCEPT ![x] = {}]
    /\ outdated' = outdated \ {x}

\* Mutant of ExportFails: the flag is cleared although the export failed.
ExportFailsMarked(x) ==
    /\ Return(x, "write", "exitedUnsaved")
    /\ todo[x] # {}
    /\ failures < MaxFailures
    /\ failures' = failures + 1
    /\ dirty' = FALSE
    /\ UNCHANGED <<trie, disk, clock, purges, restarts, outlived,
                   behind, leftover, overtaken>>

\* An exception from _atomic_write_shard() leaves the loop; nobody marks.
ExportFails(x) ==
    /\ Return(x, "write", "exitedUnsaved")
    /\ todo[x] # {}
    /\ failures < MaxFailures
    /\ failures' = failures + 1
    /\ UNCHANGED <<trie, dirty, disk, clock, purges, restarts, outlived,
                   behind, leftover, overtaken>>

\* _flush_to_disk() calls mark_exported(), which clears the flag whatever was
\* inserted since the walk; the route and the lifespan do not call it.
ExportDone(x) ==
    /\ Return(x, "sweep", "exited")
    /\ listed[x] = {}
    /\ IF x \in Workers
       THEN dirty' = FALSE /\ overtaken' = (x \in outdated)
       ELSE UNCHANGED <<dirty, overtaken>>
    /\ UNCHANGED <<trie, disk, bounds, outlived, behind, leftover>>

-----------------------------------------------------------------------------
(* Process lifecycle *)

WorkersQuiet == \A x \in Workers : pc[x] = "idle"
Drained == \A r \in Requests : pc[r] = "idle"

\* join(timeout=2.0) of threads that may not have ended by then.
Joined(ended) ==
    IF ended
    THEN UNCHANGED failures
    ELSE JoinTimesOut /\ failures < MaxFailures /\ failures' = failures + 1

\* lifespan shutdown: the server has drained its requests; workers are stopped and
\* joined, 2 s each, then the index is exported, whether all of them have ended
\* or not.
ShutdownAfter(ended) ==
    /\ Drained
    /\ Joined(ended)
    /\ Go(Main, "idle", "walk")
    /\ outlived' = ~ended
    /\ UNCHANGED <<trie, dirty, disk, snap, todo, listed, clock, purges, restarts, races>>

Shutdown == ShutdownAfter(WorkersQuiet)

\* The process exits or is killed at any point; boot imports the shard files
\* and bulk_insert() leaves the flag alone.
Restart ==
    /\ restarts < MaxRestarts
    /\ restarts' = restarts + 1
    /\ trie' = disk
    /\ dirty' = FALSE
    /\ outlived' = FALSE
    /\ pc' = [x \in Exporters |-> "idle"]
    /\ snap' = [x \in Exporters |-> Empty]
    /\ todo' = [x \in Exporters |-> {}]
    /\ listed' = [x \in Exporters |-> {}]
    /\ outdated' = {} /\ behind' = {} /\ leftover' = {}
    /\ overtaken' = FALSE
    /\ UNCHANGED <<disk, clock, purges, failures>>

Export(x) ==
    \/ Begin(x) \/ Walk(x) \/ ListShards(x) \/ ExportFails(x) \/ ExportDone(x)
    \/ \E sh \in Shards : WriteShard(x, sh) \/ SweepShard(x, sh) \/ SweepFails(x, sh)

Indexing == \E x \in Workers, w \in Words : Insert(x, w)

Next ==
    \/ Indexing
    \/ \E W \in SUBSET Words : Purge(W)
    \/ \E x \in Exporters : Export(x)
    \/ Shutdown \/ Restart

Spec == Init /\ [][Next]_vars

-----------------------------------------------------------------------------
Index == [Words -> Nat]

\* Type invariant of the index and its exporters.
TypeOK ==
    /\ trie \in Index
    /\ dirty \in BOOLEAN
    /\ disk \in Index
    /\ pc \in [Exporters -> {"idle", "walk", "write", "sweep", "exited", "exitedUnsaved"}]
    /\ snap \in [Exporters -> Index]
    /\ todo \in [Exporters -> SUBSET Shards]
    /\ listed \in [Exporters -> SUBSET Shards]
    /\ \A x \in Exporters :
        /\ todo[x] # {} => pc[x] = "write"
        /\ listed[x] # {} => pc[x] = "sweep"
        /\ pc[x] \in {"idle", "walk"} => snap[x] = Empty
    /\ clock \in Nat /\ purges \in Nat /\ failures \in Nat /\ restarts \in Nat
    /\ outlived \in BOOLEAN
    /\ outdated \subseteq {x \in Exporters : pc[x] \in {"write", "sweep"}}
    /\ behind \subseteq Shards /\ leftover \subseteq Shards
    /\ overtaken \in BOOLEAN

\* trie.py:309: a trie that is not dirty is already on disk, so skipping its
\* export loses nothing.
CleanMeansExported == ~dirty => disk = trie

\* On disk, but that the file of a shard without words could not be removed.
OnDisk(w) == disk[w] = trie[w] \/ (trie[w] = 0 /\ ShardOf[w] \in leftover)

\* trie.py:309, as far as it holds, for workers, export requests and a shutdown
\* together: a clean trie is on disk, shard by shard, but for two races.  Either
\* the worker that marked it had been overtaken by a change, or an export that had
\* been overtaken was the last to touch the file.
CleanMeansOnDisk ==
    (~dirty /\ ~overtaken) => \A w \in Words : OnDisk(w) \/ ShardOf[w] \in behind

\* A shutdown whose joins succeed and whose export does not fail leaves the
\* whole index on disk, whatever exports and purges overlapped or failed before
\* it.  Nothing is left over in other shards, but for files that could not be
\* removed.
ShutdownPersistsIndex ==
    (pc[Main] = "exited" /\ ~outlived) => \A w \in Words : OnDisk(w)

\* Shard by shard, the files only move forward and never hold what the index
\* did not: a crash between two shards loses new postings and nothing else.
Durable == INSTANCE DurableStore WITH Keys <- Words, mem <- trie
ImplementsDurableStore == Durable!DSpec
=============================================================================
