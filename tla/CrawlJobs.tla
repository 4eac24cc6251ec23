------------------------------ MODULE CrawlJobs ------------------------------
(***************************************************************************)
(* Crawl jobs and the data they leave behind: the job registry and the     *)
(* create, delete and reset handlers of api/routes.py, against running     *)
(* workers (crawler/worker.py), the shared index, metadata, visited set    *)
(* and job history, and the shard files.                                   *)
(*                                                                         *)
(* A worker's frontier, pause gate and budget are CrawlerWorker's: here it *)
(* may take any page of its site next, or leave the loop.  A page is       *)
(* indexed as a whole; its posting stands for the origin that posted it    *)
(* first.  Saving the JSON store is NoSQLStore's, shards one by one are    *)
(* TrieExport's.                                                           *)
(***************************************************************************)
EXTENDS Integers, FiniteSets, Sequences

LOCAL INSTANCE FiniteSetsExt

CONSTANTS
    Jobs,
    Urls,
    Origins,
    Nobody,
    Seed,          \* seed_url of each job
    Site,          \* the pages each job can reach
    Textless,      \* the pages without a word
    Clients,       \* API threads
    HistoryCap,    \* rows job_history may have, 500 in the code
    JoinTimesOut,  \* whether a worker may outlive join(timeout=2.0)
    MaxDeletes,    \* bound on deletes
    MaxResets      \* bound on resets

ASSUME NobodyAssumption == Nobody \notin Origins
ASSUME SeedAssumption == Seed \in [Jobs -> Origins]
ASSUME SiteAssumption == Site \in [Jobs -> SUBSET Urls] /\ Textless \subseteq Urls
ASSUME JobsJoinAssumption == JoinTimesOut \in BOOLEAN
ASSUME HistoryCapAssumption == HistoryCap \in Nat \ {0}
ASSUME JobsBoundsAssumption == MaxDeletes \in Nat /\ MaxResets \in Nat

VARIABLES
    registry,   \* _JOBS
    jobs,       \* ids in NoSQLStore.data['jobs']
    history,    \* job_history: rows of a job and a status, oldest first
    visited,    \* URLs in visited_urls
    metadata,   \* origin of each URL's metadata row, the last to write it
    postings,   \* origin of each URL's postings, the first to write them
    dirty,      \* _dirty of the trie
    shards,     \* the postings in the shard files
    unremoved,  \* history: pages of which a shard file could not be removed
    aborting,   \* GLOBAL_RESET_EVENT
    wpc,        \* where each worker is
    stopped,    \* _stop_event of each worker
    ending,     \* the label its _finalize() has set, "none" before that
    page,       \* the URL it is working on
    done,       \* URLs it has popped
    walked,     \* what its export's walk() returned
    cpc,        \* where each API thread is
    target,     \* the job its delete or create is about
    joining,    \* the workers its delete or reset joins
    deletes, resets,
    gone,       \* history: jobs whose delete has returned, 404 apart
    wiped       \* history: jobs created before a reset that has returned

store == <<jobs, history, visited, metadata>>
trie == <<postings, dirty>>
files == <<shards, unremoved>>
worker == <<wpc, stopped, ending, page, done, walked>>
client == <<cpc, target, joining>>
bounds == <<deletes, resets>>
past == <<gone, wiped>>
vars == <<registry, store, trie, files, aborting, worker, client, bounds, past>>

NoPostings == [u \in Urls |-> Nobody]

Init ==
    /\ registry = {}
    /\ jobs = {}
    /\ history = <<>>
    /\ visited = {}
    /\ metadata = NoPostings
    /\ postings = NoPostings
    /\ dirty = FALSE
    /\ shards = NoPostings
    /\ unremoved = {}
    /\ aborting = FALSE
    /\ wpc = [j \in Jobs |-> "unborn"]
    /\ stopped = [j \in Jobs |-> FALSE]
    /\ ending = [j \in Jobs |-> "none"]
    /\ page = [j \in Jobs |-> Nobody]
    /\ done = [j \in Jobs |-> {}]
    /\ walked = [j \in Jobs |-> NoPostings]
    /\ cpc = [c \in Clients |-> "ready"]
    /\ target = [c \in Clients |-> Nobody]
    /\ joining = [c \in Clients |-> {}]
    /\ deletes = 0
    /\ resets = 0
    /\ gone = {}
    /\ wiped = {}

-----------------------------------------------------------------------------
(* A worker thread *)

At(j, from, to) ==
    /\ wpc[j] = from
    /\ wpc' = [wpc EXCEPT ![j] = to]
    /\ UNCHANGED <<registry, jobs, aborting, stopped, client, bounds, past>>

\* _is_visited_recently() answers True.
SkipVisited(j, u) ==
    /\ At(j, "loop", "loop")
    /\ ~stopped[j]
    /\ u \in (Site[j] \cap visited) \ done[j]
    /\ done' = [done EXCEPT ![j] = @ \cup {u}]
    /\ UNCHANGED <<history, visited, metadata, trie, files, ending, page, walked>>

\* Not visited: _fetch() is called, and may take longer than 2 s.
Fetch(j, u) ==
    /\ At(j, "loop", "fetching")
    /\ ~stopped[j]
    /\ u \in (Site[j] \ visited) \ done[j]
    /\ done' = [done EXCEPT ![j] = @ \cup {u}]
    /\ page' = [page EXCEPT ![j] = u]
    /\ UNCHANGED <<history, visited, metadata, trie, files, ending, walked>>

FetchFails(j) ==
    /\ At(j, "fetching", "loop")
    /\ UNCHANGED <<history, visited, metadata, trie, files, ending, page, done, walked>>

\* _store_page_metadata(): the last writer's origin stays.  The stop event is
\* not looked at between here and MarkVisited.
StoreMetadata(j) ==
    /\ At(j, "fetching", "index")
    /\ metadata' = [metadata EXCEPT ![page[j]] = Seed[j]]
    /\ UNCHANGED <<history, visited, trie, files, ending, page, done, walked>>

\* _index_tokens(): the first writer's origin stays; nothing to do for a page
\* without text.
IndexTokens(j) ==
    /\ At(j, "index", "mark")
    /\ IF page[j] \in Textless
       THEN UNCHANGED trie
       ELSE /\ postings' = [postings EXCEPT ![page[j]] = IF @ = Nobody THEN Seed[j] ELSE @]
            /\ dirty' = TRUE
    /\ UNCHANGED <<history, visited, metadata, files, ending, page, done, walked>>

\* _mark_visited(); every FLUSH_EVERY_N pages a flush follows.
MarkVisited(j) ==
    /\ \E next \in {"loop", "flush"} : At(j, "mark", next)
    /\ visited' = visited \cup {page[j]}
    /\ UNCHANGED <<history, metadata, trie, files, ending, page, done, walked>>

AfterFlush(j) == IF ending[j] # "none" THEN "dead" ELSE "loop"

\* _flush_to_disk() looks at the reset event once, before anything is written.
FlushGate(j) ==
    /\ At(j, "flush", IF aborting THEN AfterFlush(j) ELSE "export")
    /\ UNCHANGED <<history, visited, metadata, trie, files, ending, page, done, walked>>

\* The export is skipped for a clean trie; otherwise it starts with walk().
Walk(j) ==
    /\ At(j, "export", IF dirty THEN "write" ELSE AfterFlush(j))
    /\ walked' = IF dirty THEN [walked EXCEPT ![j] = postings] ELSE walked
    /\ UNCHANGED <<history, visited, metadata, trie, files, ending, page, done>>

\* The shard files now hold image, but for files without a bucket that could not
\* be removed, which the code goes on without.
PutShards(image) ==
    \E stuck \in SUBSET {u \in Urls : image[u] = Nobody /\ shards[u] # Nobody} :
        /\ shards' = [u \in Urls |-> IF u \in stuck THEN shards[u] ELSE image[u]]
        /\ unremoved' = stuck

WriteShards(j) ==
    /\ At(j, "write", AfterFlush(j))
    /\ PutShards(walked[j])
    /\ walked' = [walked EXCEPT ![j] = NoPostings]
    /\ dirty' = FALSE
    /\ UNCHANGED <<history, visited, metadata, postings, ending, page, done>>

\* The loop ends: stopped, out of budget, frontier exhausted, or crashed.
\* _finalize() begins with the label.
LeaveLoop(j) ==
    /\ At(j, "loop", "finalize")
    /\ ending' = [ending EXCEPT ![j] = IF stopped[j] THEN "stopped" ELSE "completed"]
    /\ UNCHANGED <<history, visited, metadata, trie, files, page, done, walked>>

\* Nothing is archived or flushed while a reset runs.
FinalizeGate(j) ==
    /\ At(j, "finalize", IF aborting THEN "dead" ELSE "archive")
    /\ UNCHANGED <<history, visited, metadata, trie, files, ending, page, done, walked>>

RowsOf(j, rows) == {i \in DOMAIN rows : rows[i].job = j}

\* Mutant of Upserted: every archive adds a row.
UpsertedTwice(row) == Append(history, row)

\* The last row of the job is replaced in its place; a job without one gets a new row.
Upserted(row) ==
    LET own == RowsOf(row.job, history)
    IN  IF own = {} THEN Append(history, row) ELSE [history EXCEPT ![Max(own)] = row]

\* Mutant of Ringed: the overflow is cut at the wrong end.
RingedOldest(rows) == SubSeq(rows, 1, HistoryCap)

\* The oldest rows over the cap go.
Ringed(rows) == SubSeq(rows, Len(rows) - HistoryCap + 1, Len(rows))

\* Both writers of the history, the worker's and the handler's.
Archive(j, status) ==
    LET rows == Upserted([job |-> j, status |-> status])
    IN  history' = IF Len(rows) > HistoryCap THEN Ringed(rows) ELSE rows

\* _archive_final_state(): upserts the job's row.
ArchiveFinal(j) ==
    /\ At(j, "archive", "flush")
    /\ Archive(j, ending[j])
    /\ UNCHANGED <<visited, metadata, trie, files, ending, page, done, walked>>

Worker(j) ==
    \/ \E u \in Urls : SkipVisited(j, u) \/ Fetch(j, u)
    \/ FetchFails(j) \/ StoreMetadata(j) \/ IndexTokens(j) \/ MarkVisited(j)
    \/ FlushGate(j) \/ Walk(j) \/ WriteShards(j)
    \/ LeaveLoop(j) \/ FinalizeGate(j) \/ ArchiveFinal(j)

-----------------------------------------------------------------------------
(* API threads *)

Handler(c, from, to) ==
    /\ cpc[c] = from
    /\ cpc' = [cpc EXCEPT ![c] = to]
    /\ UNCHANGED <<page, done, walked, ending>>

\* POST /api/crawler/create: a fresh job_id is registered, ...
Register(c, j) ==
    /\ Handler(c, "ready", "persist")
    /\ wpc[j] = "unborn" /\ \A d \in Clients : target[d] # j
    /\ target' = [target EXCEPT ![c] = j]
    /\ registry' = registry \cup {j}
    /\ UNCHANGED <<store, trie, files, aborting, wpc, stopped, joining, bounds, past>>

\* ... its record persisted, ...
Persist(c) ==
    /\ Handler(c, "persist", "start")
    /\ jobs' = jobs \cup {target[c]}
    /\ UNCHANGED <<registry, history, visited, metadata, trie, files, aborting, wpc, stopped,
                   target, joining, bounds, past>>

\* ... and its thread started.
Start(c) ==
    /\ Handler(c, "start", "ready")
    /\ wpc' = [wpc EXCEPT ![target[c]] = "loop"]
    /\ target' = [target EXCEPT ![c] = Nobody]
    /\ UNCHANGED <<registry, store, trie, files, aborting, stopped, joining, bounds, past>>

\* POST /api/crawler/stop/{job_id}
StopJob(c, j) ==
    /\ Handler(c, "ready", "ready")
    /\ j \in registry /\ ~stopped[j]
    /\ stopped' = [stopped EXCEPT ![j] = TRUE]
    /\ UNCHANGED <<registry, store, trie, files, aborting, wpc, target, joining, bounds, past>>

\* DELETE /api/crawler/delete/{job_id}: out of the registry, ...
Drop(c, j) ==
    /\ Handler(c, "ready", "stop")
    /\ deletes < MaxDeletes
    /\ deletes' = deletes + 1
    /\ j \in registry
    /\ registry' = registry \ {j}
    /\ target' = [target EXCEPT ![c] = j]
    /\ joining' = [joining EXCEPT ![c] = {j}]
    /\ UNCHANGED <<store, trie, files, aborting, wpc, stopped, resets, past>>

\* Mutant of StopDropped: only a thread that runs is told to stop.
StopDroppedIfAlive(c) ==
    /\ Handler(c, "stop", "join")
    /\ stopped' = [stopped EXCEPT ![target[c]] = wpc[target[c]] # "unborn"]
    /\ UNCHANGED <<registry, store, trie, files, aborting, wpc, target, joining, bounds, past>>

\* ... told to stop, ...
StopDropped(c) ==
    /\ Handler(c, "stop", "join")
    /\ stopped' = [stopped EXCEPT ![target[c]] = TRUE]
    /\ UNCHANGED <<registry, store, trie, files, aborting, wpc, target, joining, bounds, past>>

\* Mutant of Joined: start the work without waiting.
JoinedAtOnce(j) == TRUE

\* join(timeout=2.0) returns for a dead thread, raises for one not started yet,
\* which the handlers swallow, and gives up on one that takes too long.
Joined(j) == wpc[j] \in {"dead", "unborn"} \/ JoinTimesOut

JoinDropped(c) ==
    /\ Handler(c, "join", "archive")
    /\ Joined(target[c])
    /\ UNCHANGED <<registry, store, trie, files, aborting, wpc, stopped, target, joining,
                   bounds, past>>

\* Mutant of ArchiveDeleted: a row that exists is not overwritten.
ArchiveDeletedKeeps(c) ==
    /\ Handler(c, "archive", "purgeRecord")
    /\ IF RowsOf(target[c], history) = {} THEN Archive(target[c], "deleted") ELSE UNCHANGED history
    /\ UNCHANGED <<registry, jobs, visited, metadata, trie, files, aborting, wpc, stopped,
                   target, joining, bounds, past>>

\* ... archived as deleted, over the row its worker may have written, ...
ArchiveDeleted(c) ==
    /\ Handler(c, "archive", "purgeRecord")
    /\ Archive(target[c], "deleted")
    /\ UNCHANGED <<registry, jobs, visited, metadata, trie, files, aborting, wpc, stopped,
                   target, joining, bounds, past>>

\* The job is in no registry: look for its record, purge what it names, answer 404.
DropUnknown(c, j) ==
    /\ Handler(c, "ready", IF j \in jobs THEN "purgeRecord" ELSE "ready")
    /\ deletes < MaxDeletes
    /\ deletes' = deletes + 1
    /\ j \notin registry
    /\ target' = IF j \in jobs THEN [target EXCEPT ![c] = j] ELSE target
    /\ UNCHANGED <<registry, store, trie, files, aborting, wpc, stopped, joining, resets, past>>

\* ... and purged: its record, ...
PurgeRecord(c) ==
    /\ Handler(c, "purgeRecord", "purgeTrie")
    /\ jobs' = jobs \ {target[c]}
    /\ UNCHANGED <<registry, history, visited, metadata, trie, files, aborting, wpc, stopped,
                   target, joining, bounds, past>>

OfOrigin(index, o) == {u \in Urls : index[u] = o}
Without(index, U) == [u \in Urls |-> IF u \in U THEN Nobody ELSE index[u]]

\* ... the postings of its origin, ...
PurgeTrie(c) ==
    /\ Handler(c, "purgeTrie", "purgeStore")
    /\ LET victims == OfOrigin(postings, Seed[target[c]])
       IN  /\ postings' = Without(postings, victims)
           /\ dirty' = (dirty \/ victims # {})
    /\ UNCHANGED <<registry, store, files, aborting, wpc, stopped, target, joining, bounds, past>>

\* Mutant of PurgedVisited: the visited entries stay.
PurgedVisitedKeeps(victims) == visited

PurgedVisited(victims) == visited \ victims

\* ... and the metadata rows of its origin with their visited entries.
PurgeStore(c) ==
    /\ Handler(c, "purgeStore", "ready")
    /\ LET victims == OfOrigin(metadata, Seed[target[c]])
       IN  /\ metadata' = Without(metadata, victims)
           /\ visited' = PurgedVisited(victims)
    /\ gone' = gone \cup joining[c]
    /\ target' = [target EXCEPT ![c] = Nobody]
    /\ joining' = [joining EXCEPT ![c] = {}]
    /\ UNCHANGED <<registry, jobs, history, trie, files, aborting, wpc, stopped, bounds, wiped>>

\* POST /api/system/reset: abort_pending_flushes(), ...
Abort(c) ==
    /\ Handler(c, "ready", "stopAll")
    /\ resets < MaxResets
    /\ resets' = resets + 1
    /\ aborting' = TRUE
    /\ UNCHANGED <<registry, store, trie, files, wpc, stopped, target, joining, deletes, past>>

\* ... shutdown_all_workers(): stop every worker of a snapshot of the registry, ...
StopAll(c) ==
    /\ Handler(c, "stopAll", "listAll")
    /\ stopped' = [j \in Jobs |-> stopped[j] \/ j \in registry]
    /\ UNCHANGED <<registry, store, trie, files, aborting, wpc, target, joining, bounds, past>>

\* Mutant of ListAll: only one worker is waited for.
ListAllFirst(c) ==
    /\ Handler(c, "listAll", "joinAll")
    /\ joining' = [joining EXCEPT ![c] =
                      IF registry = {} THEN {} ELSE {CHOOSE j \in registry : TRUE}]
    /\ UNCHANGED <<registry, store, trie, files, aborting, wpc, stopped, target, bounds, past>>

\* ... wait for those of another snapshot, ...
ListAll(c) ==
    /\ Handler(c, "listAll", "joinAll")
    /\ joining' = [joining EXCEPT ![c] = registry]
    /\ UNCHANGED <<registry, store, trie, files, aborting, wpc, stopped, target, bounds, past>>

JoinAll(c) ==
    /\ Handler(c, "joinAll", "clearRegistry")
    /\ \A j \in joining[c] : Joined(j)
    /\ joining' = [joining EXCEPT ![c] = {}]
    /\ UNCHANGED <<registry, store, trie, files, aborting, wpc, stopped, target, bounds, past>>

\* ... and forget them all.
ClearRegistry(c) ==
    /\ Handler(c, "clearRegistry", "clearTrie")
    /\ registry' = {}
    /\ UNCHANGED <<store, trie, files, aborting, wpc, stopped, target, joining, bounds, past>>

ClearTrie(c) ==
    /\ Handler(c, "clearTrie", "clearStore")
    /\ postings' = NoPostings
    /\ dirty' = FALSE
    /\ UNCHANGED <<registry, store, files, aborting, wpc, stopped, target, joining, bounds, past>>

\* NoSQLStore.clear_all(), its memory.
ClearStore(c) ==
    /\ Handler(c, "clearStore", "purgeShards")
    /\ jobs' = {}
    /\ history' = <<>>
    /\ visited' = {}
    /\ metadata' = NoPostings
    /\ UNCHANGED <<registry, trie, files, aborting, wpc, stopped, target, joining, bounds, past>>

\* _purge_shard_files(): every file that can be removed.
PurgeShards(c) ==
    /\ Handler(c, "purgeShards", "allow")
    /\ PutShards(NoPostings)
    /\ UNCHANGED <<registry, store, trie, aborting, wpc, stopped, target, joining, bounds, past>>

\* allow_flushes(), whoever else may be resetting.
Allow(c) ==
    /\ Handler(c, "allow", "ready")
    /\ aborting' = FALSE
    /\ wiped' = {j \in Jobs : wpc[j] # "unborn"}
    /\ UNCHANGED <<registry, store, trie, files, wpc, stopped, target, joining, bounds, gone>>

Delete(c) ==
    \/ \E j \in Jobs : Drop(c, j) \/ DropUnknown(c, j)
    \/ StopDropped(c) \/ JoinDropped(c) \/ ArchiveDeleted(c)
    \/ PurgeRecord(c) \/ PurgeTrie(c) \/ PurgeStore(c)

Reset(c) ==
    \/ Abort(c) \/ StopAll(c) \/ ListAll(c) \/ JoinAll(c) \/ ClearRegistry(c)
    \/ ClearTrie(c) \/ ClearStore(c) \/ PurgeShards(c) \/ Allow(c)

Api(c) ==
    \/ \E j \in Jobs : Register(c, j) \/ StopJob(c, j)
    \/ Persist(c) \/ Start(c) \/ Delete(c) \/ Reset(c)

Next == (\E j \in Jobs : Worker(j)) \/ (\E c \in Clients : Api(c))

Spec == Init /\ [][Next]_vars

-----------------------------------------------------------------------------
Index == [Urls -> Origins \cup {Nobody}]

\* Type invariant of the jobs, the data and the handlers.
TypeOK ==
    /\ registry \subseteq Jobs /\ jobs \subseteq Jobs
    /\ history \in Seq([job : Jobs, status : {"stopped", "completed", "deleted"}])
    /\ visited \subseteq Urls
    /\ metadata \in Index /\ postings \in Index /\ shards \in Index
    /\ dirty \in BOOLEAN /\ aborting \in BOOLEAN /\ unremoved \subseteq Urls
    /\ wpc \in [Jobs -> {"unborn", "loop", "fetching", "index", "mark", "flush", "export",
                          "write", "finalize", "archive", "dead"}]
    /\ stopped \in [Jobs -> BOOLEAN]
    /\ ending \in [Jobs -> {"none", "stopped", "completed"}]
    /\ \A j \in Jobs : wpc[j] \in {"finalize", "archive", "dead"} <=>
                           /\ ending[j] # "none"
                           /\ wpc[j] \notin {"flush", "export", "write"}
    /\ page \in [Jobs -> Urls \cup {Nobody}]
    /\ done \in [Jobs -> SUBSET Urls]
    /\ walked \in [Jobs -> Index]
    /\ cpc \in [Clients -> {"ready", "persist", "start", "stop", "join", "archive",
                             "purgeRecord", "purgeTrie", "purgeStore", "stopAll", "listAll",
                             "joinAll", "clearRegistry", "clearTrie", "clearStore",
                             "purgeShards", "allow"}]
    /\ target \in [Clients -> Jobs \cup {Nobody}]
    /\ joining \in [Clients -> SUBSET Jobs]
    /\ deletes \in Nat /\ resets \in Nat
    /\ gone \subseteq Jobs /\ wiped \subseteq Jobs

\* routes.py:498, "lose every trace of this crawl so subsequent /api/search calls
\* cannot surface" it: once a delete has returned, no posting and no metadata row
\* carries the deleted job's origin, and none will.
DeleteLeavesNoTrace ==
    \A j \in gone : OfOrigin(postings, Seed[j]) = {} /\ OfOrigin(metadata, Seed[j]) = {}

\* routes.py:353, "Delete overrides stopped/completed": until a reset wipes the
\* history, a deleted job stays on record as deleted.
DeletedStaysDeleted ==
    \A j \in gone \ wiped : \A i \in RowsOf(j, history) : history[i].status = "deleted"

\* worker.py:634, "so repeat finalize calls [...] don't accumulate duplicates", and :648,
\* "Bound history ring": whichever of its two writers came last, the history is within
\* the cap and has one row per job.
HistoryIsRing ==
    /\ Len(history) <= HistoryCap
    /\ \A j \in Jobs : Cardinality(RowsOf(j, history)) <= 1

\* worker.py:601, "so the on-disk atlas_store.json carries the terminal state": at the
\* cap too, the row that a worker or a delete has just written is in the history.
ArchivedRowIsKept ==
    [][/\ \A j \in Jobs : wpc[j] = "archive" /\ wpc'[j] # "archive" =>
              [job |-> j, status |-> ending[j]] \in {history'[i] : i \in DOMAIN history'}
       /\ \A c \in Clients : cpc[c] = "archive" /\ cpc'[c] # "archive" =>
              [job |-> target[c], status |-> "deleted"] \in {history'[i] : i \in DOMAIN history'}]_vars

\* worker.py:73, "a late _flush_to_disk() cannot resurrect shards": once a reset
\* has returned, no shard file holds postings of a job from before it, but for
\* files that could not be removed.
ShardsStayGone == \A j \in wiped : OfOrigin(shards, Seed[j]) \subseteq unremoved

\* routes.py:716, "stop workers, wipe memory, purge disk": once a reset has returned,
\* no job that existed before it has left anything in memory, or in the shard files
\* that could be removed, and none will.
ResetLeavesNothing ==
    /\ \A j \in wiped : /\ OfOrigin(postings, Seed[j]) = {}
                        /\ OfOrigin(metadata, Seed[j]) = {}
                        /\ RowsOf(j, history) = {} /\ j \notin jobs
    /\ ShardsStayGone

\* routes.py:281, "so a re-crawl starts cold": whenever no handler is at work, a URL
\* the crawlers skip as visited is one that search can find, if it has any text.
Quiet == \A c \in Clients : cpc[c] = "ready"
VisitedIsSearchable == Quiet => \A u \in visited \ Textless : postings[u] # Nobody

\* routes.py:142, "mirrors the live thread map": a worker that nobody has told to
\* stop is one that the pause, stop and delete routes can find.
LiveIsRegistered ==
    \A j \in Jobs : (wpc[j] \notin {"unborn", "dead"} /\ ~stopped[j] /\ Quiet) => j \in registry
=============================================================================
