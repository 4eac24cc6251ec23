# Atlas Search v2: formal model

TLA+ modules, TLC configurations and TLAPS proofs for the crawler, the persistent store and the
inverted index of this repository. Modules are translated from the Python source; `PROJECT.json`
names, for every definition, the lines it models.

## 1. Inventory

One process: a FastAPI application (request handlers run on a thread pool), one daemon thread per
crawl job, one sync daemon thread. They share two in-memory singletons, `NoSQLStore` and `AtlasTrie`.

| Component (source) | State | Operations | Correct when |
|---|---|---|---|
| Frontier (`crawler/queue.py`) | deque, seen hashes, three counters, one lock | `push`, `pop`, `clear`, `status` | bounded, FIFO across evictions, each URL admitted once, counters balance |
| Worker (`crawler/worker.py`) | stop and pause events, label, counts, its frontier | crawl loop, `pause`, `resume`, `stop`, `_finalize` | budget respected, breadth-first, obeys stop and pause, ends, final status archived |
| Store (`storage/nosql.py`) | `data`, `_dirty`, `_write_seq`, `atlas_store.json` and its `.tmp` | mutations, `save`, daemon, `clear_all`, `shutdown`, load | a write is never forgotten, the file is whole, a wipe is final |
| Index (`storage/trie.py`) | nodes, postings, two counters, `_dirty` | `insert`, `bulk_insert`, `purge_by_origin`, `clear`, `walk`, `search` | a word is a node with postings, purges are exact, counters exact |
| Shards (`storage/exporter.py`) | `data/storage/*.data` | export, sweep, import | a clean trie is on disk, a failed export is repeated, shutdown loses nothing |
| Jobs API (`api/routes.py`) | `_JOBS`, the reset event, `job_history` | create, pause, resume, stop, delete, reset, export | deletes and resets are final, every live worker can be reached, the history keeps what was archived |
| Lifespan (`api/main.py`) | - | boot import, shutdown order | index, visited set and deletes survive a restart together |
| Search, ranking (`search/`) | none; one trie lookup per token | aggregation, scoring, order, window | an answer is exact over a quiet index and regular over a changing one |
| Page text (`core/parser.py`, `core/normalize.py`, `core/security.py`) | the parser's three flags and counter | parser callbacks, sanitise, fold, tokenize | what a reader sees is what is indexed, and what a query finds in any case |
| URL checks, configuration, templates, `app.js` | none of the system's | predicates, constants, presentation | not modelled |

Interactions: the API calls methods of running workers from other threads; workers and handlers
mutate the two singletons under *their* locks, one critical section per call; workers and the sync
daemon save the store, workers, the export route and the lifespan export the trie; the reset handler
talks to workers through one global event.

What is hard here: no lock spans two singletons or a file write; saves and exports overlap; flags
are read, work is done, and the flag is cleared afterwards; the API waits at most 2 s for a worker
whose fetch may take 10 s; the process may die between any two steps, with two halves of its state
saved at different times. On the sequential side, a page passes through functions (parse, sanitise,
fold, encode) that are each simple and must agree with one another. `PROJECT.json` lists the
hazards one by one with their lines and the properties aimed at them.

## 2. Modules

| Module | Models | Notes |
|---|---|---|
| `UrlFrontier` | abstract: a URL is new, pending once, then gone | implemented by `CrawlerQueue` |
| `CrawlerQueue` | the ring buffer, one action per method (each holds the lock throughout) | a URL stands for its hash |
| `CrawlerWorker` | extends `CrawlerQueue`: worker thread and control API | one action per read of an event or call; pause, resume and stop are two or three steps each |
| `DurableStore` | abstract: memory and a disk that follows it key by key | implemented by `NoSQLStore` and `TrieExport` |
| `NoSQLStore` | mutations, `save()` step by step, daemon, shutdown, `clear_all()`, crash and load; every removal of a file may fail | keys hold stamps; a shallow snapshot keeps sharing objects (`live`) until the key is rebound; open files follow renames (`handle`) |
| `InvertedIndex` | abstract: word x URL -> posting | implemented by `AtlasTrie` |
| `AtlasTrie` | the trie, one action per method (each holds the RLock), boot by `bulk_insert` | a node is its path |
| `TrieExport` | the dirty flag, `walk`, writing and sweeping shards, their callers (workers, export requests, shutdown), shards that cannot be written or removed, crash and import | a word's postings are the stamp of their last change; a shard file is replaced in one step, its temporary name being unique |
| `Lifespan` | extends `TrieExport`: crawls, visited marks with their TTL and sweep, flushes, export requests, deletes whose join may time out, the store file, shutdown and crash | a save of the store is one step; time is a clock of whole units |
| `SearchEngine` | extends `AtlasTrie`: a query that looks its tokens up one by one, then ranks; prefix search | one query at a time, since queries only read |
| `CrawlJobs` | registry, create/stop/delete/reset handlers step by step against workers, index, metadata, visited set, history ring, shards, reset event | the frontier is abstracted to "any page of the site"; a page may have no text; a shard file may not be removable |
| `HtmlParser` | the three parser callbacks, next to the element tree they describe | tree and visible text are history; one tag of each kind: the parser's own, and the two kinds of blocks it does not know (`nav`, `main`) |
| `Normalize` | `sanitize_html_input`, `turkish_fold`, `tokenize` as operators | characters are named, those the functions tell apart |
| `ShardCodec` | the line format: encode, decode, parse | numbers are decimals |
| `PageText` | extends the three: a page from callbacks to postings, to the shard file and back, and a query's side of it | the body may end at any callback |

`MC*` modules instantiate them for TLC. `CrawlerWorkerProofs` (with the queue's), `NoSQLStoreProofs`,
`AtlasTrieProofs`, `SearchEngineProofs`, `LifespanProofs` (with those of `TrieExport`), `CrawlJobsProofs`
and `PageTextProofs` (with those of its three text modules) hold the theorems; `FoldFacts` holds the
lemmas about induction and sums that `SearchEngineProofs` and `PageTextProofs` share. History variables
are read by no guard:

* `admitted` in `CrawlerQueue`; `pages`, `poppedHalted` in `CrawlerWorker`; `covered` in `NoSQLStore`;
* `outdated` (exports since whose walk the index changed), `behind` (shards that one of those touched
  last), `leftover` (shards that could not be removed) and `overtaken` in `TrieExport`;
* in `Lifespan`, of the marks: `promised`, `unsaved`, `lost` (marked or deleted since the last save, at a
  crash), `lastCrash`; of the deletes: `forgotten`, `outrun` (workers whose page was deleted under them)
  and `unbacked` (pages that such a worker marked);
* `unremoved`, `gone`, `wiped` in `CrawlJobs`; `steady`, `throughout`, `sometime` in `SearchEngine`;
  `open`, `shown`, `preview` in `HtmlParser` (`open` decides only which callbacks a page can cause).

Definitions whose comment starts with "Mutant of" are plausible bugs that no specification uses;
`PROJECT.json` pairs each with the property that must catch it.

How the modules fit: `CrawlerWorker` composes the loop with the real queue. `CrawlJobs` composes
the handlers with the *effects* of many workers, taking from `CrawlerWorker` only that a worker may
pick any page or leave, and from `TrieExport` that an export is a walk and then a write.
`NoSQLStore` sees all callers as mutations of a key. `Lifespan` runs the whole of `TrieExport`, each
change of a word coming from a worker's page or a delete, and takes from `NoSQLStore` that a save is
atomic on disk and may happen at any time; an export request begins at any time, as in the code. `SearchEngine` runs the whole of `AtlasTrie` between the
lookups of a query. Where a module takes something from another without extending it, the
correspondence is by reading, not by proof.

## 3. Runs

All runs are exhaustive for their bounds. States are distinct states.

| Run (cfg) | Instance | Shows |
|---|---|---|
| `queue` (`MCCrawlerQueue`) | 5 URLs, capacity 3, depths -1..1 | FIFO suffix, at-most-once, accounting, eviction rule, refinement of `UrlFrontier`. Five URLs over three slots give evictions, a clear of a full buffer and pushes of evicted URLs |
| `worker` (`MCCrawlerWorker`) | 2 webs of 5 pages and an invalid URL, 3 seeds, capacity 2, depth 2, budget 4, 2 API threads; 432 k states | budget, breadth-first order with every depth explained by a parent, at most one entry taken after a halt, the shortcut's own claim; stop terminates, and a job not left paused ends |
| `store_one_saver` (`NoSQLStoreOneSaver`) | 2 keys (one copied, one shared), 3 writes, 1 failure, 1 removal that fails, 1 crash; daemon and orderly shutdown; 125 k states | clean means durable, refinement of `DurableStore`, writes are eventually saved |
| `store_many_savers` (`NoSQLStoreManySavers`) | worker, daemon and a shutdown whose join times out, a wipe, a failure, a removal that fails; 4.6 M states | the sequence test covers every write; no stray temporary file, but by that removal |
| `lifespan` (`Lifespan`) | 1 worker, 1 export request at a time, 3 tokens on 2 pages in 2 shards, 2 inserts, 1 delete, 1 failure (a shard not written or not removed, or a join that times out), 1 restart, TTL 1, sweep budget 1, clock to 1; 2.4 M states | a visited page can be found, but for a mark from before a crash, for a TTL, and one set by a worker that its delete gave up on; checks and marks are as promised to the unit, and after a crash but for what was not saved; deletes and both halves of the memory survive an orderly restart; a clean trie is on disk but for two named races |
| `search` (`SearchEngine`) | words a and aba with ab between them; 2 URLs, 2 origins, 2 depths, 3 inserts, 1 reboot; queries (aba, a, a) and (ab), 2 windows; 187 k states | words, postings, paths and counters agree, refinement of `InvertedIndex`; an answer over a quiet index is exact to the place of every hit, over a changing one it misses nothing that was there throughout and invents nothing; prefix search merges the words below |
| `text` (`PageText`) | the 8 kinds of tags whose blocks are the parser's, 3 chunks of text with both Turkish i's, pages of up to 6 callbacks, URLs with backslashes, depth 12, 5 search words; 211 k states | the flags follow the tree, the text and the preview are the words a reader sees, the shard file gives back what went in, a search finds exactly the visible words |
| `jobs_one_client` (`CrawlJobsOneClient`) | 2 jobs on own sites, one with a page without text, 1 delete, 1 reset, joins succeed, shard files that cannot be removed, history of 2; 1.0 M states | deletes and resets are final, but for such files; what is visited and has text is searchable; no job is twice in the history |
| `jobs_two_clients` (`CrawlJobsTwoClients`) | 2 jobs on a shared site, 2 clients, 2 deletes, history of 1; 1.5 M states | a purged origin stays gone, live workers stay registered, deletes before start included; a full history keeps the row just written |

The passing runs state under which conditions a promise holds. Dropping one condition breaks it, as a
comment, docstring or the readme makes it. Three such configurations are runs whose violation is
expected (`findings` quotes the lines):

| Run (cfg) | Broken promise | What it takes |
|---|---|---|
| `store_partial` (`NoSQLStorePartial`) | "readers never observe a partial file", `nosql.py:17-18` | two savers share one temporary name: one renames what the other is writing |
| `export_race` (`TrieExportRace`) | `is_dirty` is "True when an indexing mutation has happened since the last export", `trie.py:309` | an insert between another worker's `walk` and `mark_exported` |
| `jobs_ghost` (`CrawlJobsGhost`) | delete leaves no trace, `routes.py:498-499` | a fetch longer than the 2 s join |

The others are kept as configurations, each of which ends in a counterexample
(`tlc -config <cfg> <module>`; with `-continue` where one file has two of them):

| Configuration | Module | Property violated | Promise and what breaks it |
|---|---|---|---|
| `NoSQLStoreStale` | `MCNoSQLStore` | `CleanMeansDurable` | `is_dirty` is "True when writes have happened since the last successful flush" (`nosql.py:201`): of two overlapping saves the older snapshot is renamed last |
| `NoSQLStoreResurrect` | `MCNoSQLStore` | `PurgedDataStaysGone` | workers "cannot resurrect deleted files" (`readme.md:93`): the daemon's save straddles `clear_all()` |
| `CrawlerWorkerPromises` | `MCCrawlerWorker` | `CompletedJobExhaustsLinks` | pending and crawled pages cover "everything the loop will ever touch" (`worker.py:312-313`): a pending page fails or is skipped |
| `CrawlerWorkerPromises` | `MCCrawlerWorker` | `ArchivedStatusIsTerminal` | the store "carries the terminal state" (`worker.py:601-604`): a pause or resume races the end of the job |
| `AtlasTriePromises` | `MCAtlasTrie` | `StartsWithMeansIndexed` | "True when any indexed word starts with prefix" (`trie.py:253`): a purge leaves the nodes |
| `AtlasTriePromises` | `MCAtlasTrie` | `OneOriginPerUrl` | "origin does not change between postings for the same URL" (`engine.py:155-156`): two jobs index one page |
| `LifespanPromises` | `MCLifespan` | `VisitedMeansIndexed` | "Mark visited only after a successful fetch+index" (`worker.py:284`): the daemon saves the mark, and a crash comes before the next export. A delete that gives up on the page's worker breaks it without a crash (`JoinTimesOut = TRUE`, `MaxFailures = 1`, `MaxRestarts = 0`) |
| `LifespanPromises` | `MCLifespan` | `DeletedStaysGoneOverCrashes` | "Cascading delete" (`routes.py:271`): a crash before the next export brings the postings back at boot |
| `PageTextNav` | `MCPageText` | `TextIsWhatIsShown` | "Block-level tags emit a whitespace separator" (`parser.py:120`): `nav`, and the blocks in none of its sets (`main`, `aside`, `form`, `hr`, `fieldset`, `figure`, `address`, ...), are blocks and do not, so their neighbours' words merge |
| `PageTextEntities` | `MCPageText` | `TextIsWhatIsShown` | "All visible text" (`parser.py:221`): text between `&lt;` and `&gt;` is decoded first and then stripped as a tag |
| `PageTextLinkBreak` | `MCPageText` | `SnippetIsParagraphs` | "so adjacent text nodes don't merge" (`parser.py:120-122`): in the preview they do around a link that holds only a line break |
| `PageTextOmittedEnd` | `MCPageText` | `FlagsFollowTree` | `_in_p` is "Inside `<p>`" (`parser.py:52-53`): a paragraph whose end tag is left out never ends for the parser |
| `PageTextSigma` | `MCPageText` | `FindsWhatIsShown` | "phantom misses" are what one helper for both sides avoids (`normalize.py:15-18`): lower casing of a final sigma depends on text that the query does not have |
| `CrawlJobsGhost`, with this invariant instead | `MCCrawlJobs` | `DeletedStaysDeleted` | "Delete overrides stopped/completed" (`routes.py:353-354`): the worker outlives the join and archives last |
| `CrawlJobsResurrect` | `MCCrawlJobs` | `ShardsStayGone` | a late flush "cannot resurrect shards" (`worker.py:73-74`): the worker outlives the join of a reset |
| `CrawlJobsOrphan` | `MCCrawlJobs` | `LiveIsRegistered` | the registry "mirrors the live thread map" (`routes.py:141-142`): a job is created during a reset |
| `CrawlJobsShared` | `MCCrawlJobs` | `VisitedIsSearchable` | "a re-crawl starts cold" (`routes.py:280-281`): two jobs meet one page, the first is deleted |
| `CrawlJobsTwoDeletes` | `MCCrawlJobs` | `VisitedIsSearchable` | the same promise: a second delete of the job finds it in no registry (`routes.py:479-483`), purges without a join, and the worker, which the first delete still waits for, marks its page afterwards |

The type invariants (`QTypeOK`, `TypeOK`, `LTypeOK`, `STypeOK`) are theorems; those of `PageText`
and `HtmlParser`, as far as the proofs need them, are part of their inductive invariants. The runs list the properties
that say something of the code. `ShutdownPersistsIndex`, and under one worker `CleanMeansExported` and the
refinement of `DurableStore` by `TrieExport`, are theorems without a run of their own: `lifespan` runs
the same module under more.

**Bounds.** Most bounds are on what the environment does (`MaxWrites`, `MaxClears`, `MaxFailures`, `MaxJams`,
`MaxRestarts`, `MaxPurges`, `MaxReboots`, `MaxDeletes`, `MaxResets`, `MaxTime`, `MaxEvents`), so an
operation that began can finish. `MaxInserts` is an exception in `Lifespan`: it bounds the turns of a
worker's loop over the tokens of its page, and a worker that meets it stays on the page until a restart.
Two inserts are a whole page of two tokens, or a page and the first token of another. Six callbacks
are enough for two blocks with text, a link inside boilerplate followed by a paragraph, or three
inline neighbours. One expiry more than the sweep's budget of 1 stands for 65 against 64. The violations need at
most two writers and two mutations, the passing runs allow at least that. The theorems of section 4
hold without bounds (the bounds are arbitrary constants there).

**Deadlock** is checked for `queue`, `worker` and `search`. The other specifications end: the process
exits, or every bounded event has happened and every job has ended.

**Symmetry**: URLs in `queue`, origins in `search`; their temporal properties are safety
properties, and no `CHOOSE` picks among the symmetric values.

**Fairness.** `CrawlerWorker`: weak fairness of the worker thread; its fetch has a timeout, its
waits and sleeps are bounded and it holds no lock across them. Nothing is assumed of API threads.
`NoSQLStore`: weak fairness of the daemon's save, of a shutdown that began, and of a `clear_all()`
that holds the lock. Nothing is assumed of workers: when they flush depends on the crawl. A writer
that keeps writing during every save keeps the store dirty for ever; with the bound on writes that
cannot happen, so `DirtyIsFlushed` says that writes which cease are saved.

## 4. Proofs

Checked by TLAPS for every value of the constants that the `ASSUME`s allow.

* **The frontier** (`CrawlerWorkerProofs`): typing, capacity, FIFO, at-most-once and accounting follow from one
  inductive invariant, `QInv`: the five properties together. At-most-once needs that `seen_hashes`
  is exactly the set of admitted URLs; accounting needs the suffix property for the length of the
  tail; each operation is one lemma step. On top of it, the eviction rule (an action property) and
  the refinement of `UrlFrontier`: an eviction, a pop and a clear each take pending URLs away for
  good, which needs that no URL is pending twice.
* **The worker** (`CrawlerWorkerProofs`): `WInv` carries `QInv` along, since the crawl loop chooses what it pushes.
  The budget needs that it is checked before each pop. Breadth-first order needs that the entry taken
  last lies between pending and admitted depths and that each pending entry is explained by a page one
  level up. `HaltTakesAtMostOne` needs where the worker was when the halt came. The shortcut needs
  the sum of crawled, taken and pending entries.
* **`NoSQLStoreProofs`**: `CleanMeansCovered` for any number of workers. The strengthening says what a
  saver's captured sequence number may be at each program point: at most `write_seq`, and, from the
  replace to the acknowledgement, at most `covered`, which in turn never exceeds `write_seq`. Then
  an acknowledgement that finds `write_seq = snapSeq` has `covered = write_seq`. This is the claim of
  `nosql.py:139-142`, and it is all that the sequence test gives: `NoSQLStoreStale` shows that it
  does not make the file current. Two more properties hold of behaviours in which saves do not overlap
  (`SerialSaves`) and clears remove the file (`ClearsRemove`): a clean store is on disk, and the file is whole; and, when nothing is wiped, the
  store refines `DurableStore` over failures and crashes. `DaemonAndMainAreSerial` proves that this
  is so for the daemon and an orderly shutdown. No temporary file is left, without those conditions, but by a crash or a removal that fails.
* **`AtlasTrieProofs`**: typing, word iff postings, reachability, counters and the refinement of
  `InvertedIndex`. The invariant adds what the refinement needs at boot: saved postings exist
  exactly for the words still to be imported and those words are not in the new trie yet. Each
  action then maps to `Occurs`, `Forget`, `Wipe` or a stutter.
* **`SearchEngineProofs`**: queries only read, so what is proved of the trie holds beside them.
  `AnswerIsRegular` needs that, while lookups are to come, the two histories enclose the index
  (`Watched`), and that what was gathered lies between them (`Gathered`). That the ranking exists and
  loses no hit needs that the rank order is total: score, depth and URL decide. `AnswerExact` needs
  that over a quiet index the hits are, page by page, the sum of the frequencies and the least of the
  depths over the tokens looked up so far, and that the place of a hit in the ranking is the number of
  hits that outrank it. `OccurrenceNeverDemotes`: one more occurrence makes one summand larger and no
  depth greater. `PrefixMergesWords`: the walk meets each word below the prefix once, and a sum over a
  finite set does not depend on the order.
* **The shard files** (`LifespanProofs`): `EInv`. An export has *passed* a shard when it has written it, or swept it,
  or found nothing there to sweep (`Passed`). `RaceInv` says of an export since whose walk the index has
  not changed that its snapshot is the index and that what it has passed is on disk, or was touched
  afterwards by an export that had been overtaken (`Settled`). When such a worker marks the trie clean it has
  passed every shard, which is `ExportCleanOnDisk`. After the joins nothing overtakes the export of a
  shutdown, so that what it has passed is on disk (`Landed`, `LastExport`); hence `ShutdownPersistsIndex`.
  With one worker, no requests and no purges every export is undisturbed, a clean trie is on disk, and
  the files refine `DurableStore`.
* **The lifespan** (`LifespanProofs`): every step is one of `TrieExport`'s, with more guards, or leaves the index alone,
  so `EInv` carries over. `OnPage`: the tokens that a worker has passed on its page have postings, unless
  a delete of the page gave up waiting for it, and no page that a worker is on counts as gone. This
  makes a marked page findable, and keeps out what was deleted. `Quiet`: the disk has the marks once the
  store is closed. `Kept` and `KeptFile`: a mark, in memory or in the file, agrees with what was
  promised (`Agrees`: the same, unless both are over), is in the file not saved yet, or was lost in a
  crash and is over a TTL after it; `Expiry` bounds marks by a TTL from now, so that a mark that a crash
  brings back is over a TTL after the crash.
* **`CrawlJobsProofs`**: types, one row per job, the cap. The cascading promises are proved by where a
  job's data may still be at each step of a handler (`Traceless`, `Emptied`, `Found`) and by who can
  still run (`Accounted`): after its join, the worker that a delete or a reset waited for is dead, and
  no other has its origin. What shard files still hold after a reset is what could not be removed
  (`PutShardsFacts`, `Shed`). For many clients `Overridden` and `Settled` take the place of `Accounted`: a
  job is in the registry, about to be joined, or finished, so that a delete purges only what is finished.
* **`FoldFacts`**: induction over numbers and finite sets as statements about *sets* (a set with 0 and
  the successors of its members has all numbers), from the well-foundedness of the natural numbers.
  With it a fold over data of any length can be reasoned about: a function with the equations of the fold
  exists, and the recursion determines it. A sum over a finite set does not depend on the order, and
  grows with its summands.
* **`PageTextProofs`**: the text functions are folds over sequences, so each lemma is an induction over
  the sequence (`SequenceInduction`).
  - The flags: of each element with a flag at most one is open, which is what the block structure gives.
  - The text: `XInv` says that what the parser wrote and what a reader saw have the same words, with the
    word at the end still growing in both or in neither; stripping tags and joining with single spaces
    keep the words. The preview needs besides where a paragraph's last word may end.
  - The round trip: the decimals of a number read back as the number; an escaped field has no tab and no
    line end, so a line splits where it was joined and a file into its lines; decoding undoes encoding
    character by character; folding a folded word changes nothing, as its capitals are gone.
  - The search: without sigmas folding is letter by letter and moves no boundary between words, so
    folding the page and cutting it is cutting it and folding the words; the words of the postings are
    those of the page, folded, and the query's tokens are its words, folded.

Some theorems name what they assume of the environment. Each assumption is needed: without it TLC
finds a counterexample.

| Assumption | Means | Theorems | Without it |
|---|---|---|---|
| `JoinTimesOut = FALSE` | joins of 2 s succeed | deletes, resets, visited of `CrawlJobs` | `CrawlJobsGhost`, `CrawlJobsResurrect` |
| `OwnOrigins` | no two jobs have one seed | `DeleteIsTraceless`, `ResetIsFinal`, `VisitedStaysSearchable` and its `ForMany` | any instance with two jobs of one seed: the second job writes again what carries that origin |
| `OwnSites` | no two jobs meet a page | `VisitedStaysSearchable` and its `ForMany` | `CrawlJobsShared` |
| `OneClient` | lifecycle requests come one after the other | `DeletedIsOnRecord`, `ResetIsFinal`, `VisitedStaysSearchable`; `LiveStaysRegistered` when there are resets | `CrawlJobsOrphan`; two clients that reset and create or delete |
| `ApartDeletes` | no two requests delete one job at once | `VisitedStaysSearchableForMany` | `CrawlJobsTwoDeletes` |
| `StartedFirst` | no job is deleted before its thread has started | `DeletedIsOnRecordForMany` | two clients, one deletes what the other is still creating: the job is archived as stopped after it was archived as deleted |
| `SerialSaves` | saves do not overlap | the `Serial` theorems of `NoSQLStore` | `NoSQLStorePartial` |
| `ClearsRemove` | a `clear_all()` removes the store file | `SerialCleanIsDurable`, `SerialFileIsWhole` | a failed removal (`nosql.py:387-391`) leaves a clean store that is not what its file holds. `SerialFileIsWhole` needs it only because both are proved together |
| `SoleExporter` | one crawl at a time, neither purges nor requests | clean means exported, refinement of `DurableStore` by `TrieExport` | `TrieExportRace` |
| `WellFormed` | end tags match, but that a paragraph may end another; part of `Rendered` | all of `PageTextProofs` but the round trip | `PageTextOmittedEnd` |
| `Rendered` | `WellFormed`, and every block is in the parser's own set, `parser.py:63-70` (no `nav`, `main`, `aside`, `form`, `hr`, ...) | text, preview, search | `PageTextNav` |
| `CleanData` | no entity stands for `<` | text, preview; part of `NoSigmas` | `PageTextEntities` |
| `PlainParagraphs` | `Rendered`, and links hold no line break | preview | `PageTextLinkBreak` |
| `NoSigmas` | pages and queries write no sigma, and queries are not empty words | search | `PageTextSigma` |
| `Written(A)` | text, URLs and origins are sequences over some alphabet `A`, URLs not empty | round trip | nothing to read: `export_all_to_legacy_format()` skips an empty URL (`exporter.py:152`) |

`DeleteIsTraceless` needs neither `OneClient` nor the absence of resets, and the history needs nothing.

Exceptions that are part of the properties themselves, and not assumptions: what was not saved before a
crash (`VisitedIsFindable`, `CheckedAgainstPromise`), a worker that its delete gave up waiting for
(`VisitedIsFindable`), a crash and a shard file that cannot be removed (`DeletedStaysGone`,
`ResetLeavesNothing`, `ShutdownPersistsAll`), exports that were overtaken (`CleanMeansOnDisk`), a page without
text (`VisitedIsSearchable`), a crash and a removal that fails (`NoStrayTmp`). The comment of each says so.

The instance of `text` satisfies all hypotheses of `PageTextProofs`; `Written(A)` holds for any set `A`
that has the characters in it.

Only model-checked: the three liveness properties (`StopTerminates`, `EndsUnlessPaused`, `DirtyIsFlushed`),
which are out of the prover's reach, as is `ENABLED`; and the counterexamples of section 3. Every
invariant and every other property that a passing run checks is a theorem.

## 5. Not modelled

* URL validation (SSRF checks against DNS answers, `normalize_url`, href resolution): predicates over
  strings; the models take a set of accepted URLs.
* The page title, the cuts at 200 characters and the hydration of results: wording only.
* The rate limit, the log ring, the read-only routes and the dashboard.
* HTML that is not well formed beyond stray end tags and paragraphs left open; Unicode beyond the
  characters whose case is irregular.
* Real time: `Lifespan` has a clock of whole units, timeouts elsewhere are choices.

Failures of the store's handlers inside `try`/`except` that only log are left out where the state is
then that of not having run. Removals that fail are modelled: of shards (`exporter.py:184-185`, `routes.py:707-708`)
and of the store file and its temporary one (`nosql.py:282-283`, `385-395`). A network fetch is a choice between a page, an error and a skip.

## 6. What is left

The model is complete but for section 5, and all safety properties of the runs are proved. Left open:

1. `ResetIsFinal` for many clients: which requests may run beside a reset. The proof assumes that none
   does; `CrawlJobsOrphan` shows that a creation may not.
2. `FindsWhatIsShown` with sigmas that stand inside words, where lower casing does not depend on the text
   around the word.
