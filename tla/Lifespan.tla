------------------------------ MODULE Lifespan ------------------------------
(***************************************************************************)
(* The two persistent halves of the program together, over crawls, deletes *)
(* shutdowns and crashes: the shard files of TrieExport and the store file *)
(* with visited_urls, the pages that need no crawl before their TTL is     *)
(* over (worker.py, nosql.py, the lifespan of api/main.py).                *)
(*                                                                         *)
(* A word of TrieExport is here a token on a page, and a page is all that  *)
(* its crawl found.  A save of the store is one step, NoSQLStore has its   *)
(* details; its daemon may save at any time.  Time is a clock of whole     *)
(* units that only Tick moves.                                             *)
(***************************************************************************)
EXTENDS TrieExport

LOCAL INSTANCE FiniteSetsExt

CONSTANTS
    Pages,
    PageOf,        \* [Words -> Pages]
    NoPage,        \* a worker between two pages
    Flushing,      \* a worker between the two halves of _flush_to_disk()
    Ttl,           \* VISITED_TTL_SECONDS
    SweepBudget,   \* of _sweep_expired(): 64
    MaxTime        \* bound on the clock

ASSUME PageOfAssumption == PageOf \in [Words -> Pages]
ASSUME NoPageAssumption == {NoPage, Flushing} \cap Pages = {} /\ NoPage # Flushing
ASSUME TimesAssumption ==
    Ttl \in Nat \ {0} /\ SweepBudget \in Nat \ {0} /\ MaxTime \in Nat

VARIABLES
    now,
    visited,      \* visited_urls: [page -> its expiry], 0 without an entry
    visitedFile,  \* the same in the store file
    page,         \* the page each worker is on
    left,         \* the tokens of it still to be indexed
    deleting,     \* the page whose crawl is being deleted
    closed,       \* the store has been shut down
    promised,     \* history: expiry of the last mark that no delete took back
    unsaved,      \* history: pages marked or deleted since the last save
    lost,         \* history: those of them at a crash, until their next mark
    forgotten,    \* history: pages deleted, their crawl ended, and not crawled since
    outrun,       \* history: workers whose page was deleted while they were on it
    unbacked,     \* history: pages whose last mark such a worker set
    lastCrash     \* history: when the process last ended without saving all

store == <<visited, visitedFile, closed>>
crawl == <<page, left>>
marks == <<promised, unsaved, lost, unbacked>>
deletes == <<forgotten, outrun>>
told == <<marks, deletes, lastCrash>>
lvars == <<vars, now, store, crawl, deleting, told>>

Tokens(p) == {w \in Words : PageOf[w] = p}
Indexed(p) == \A w \in Tokens(p) : trie[w] # 0

LInit ==
    /\ Init
    /\ now = 0
    /\ visited = [p \in Pages |-> 0]
    /\ visitedFile = visited
    /\ page = [x \in Workers |-> NoPage]
    /\ left = [x \in Workers |-> {}]
    /\ deleting = NoPage
    /\ closed = FALSE
    /\ promised = visited
    /\ unsaved = {} /\ lost = {} /\ unbacked = {}
    /\ forgotten = {} /\ outrun = {}
    /\ lastCrash = -Ttl

Crawls(x) == Running /\ WorkersAlive /\ pc[x] = "idle"

-----------------------------------------------------------------------------
(* Crawling a page *)

\* Mutant of Expired: entries that expire in the next unit go as well.
ExpiredEarly(t) == {p \in Pages : visited[p] # 0 /\ visited[p] <= t + 1}

Expired(t) == {p \in Pages : visited[p] # 0 /\ visited[p] <= t}

\* _sweep_expired(): some expired entries, as many as the budget allows.
Swept ==
    LET n == Cardinality(Expired(now))
    IN  kSubset(IF n < SweepBudget THEN n ELSE SweepBudget, Expired(now))

Without(P) == [p \in Pages |-> IF p \in P THEN 0 ELSE visited[p]]

\* Mutant of Visit: the page is marked before it is fetched.
VisitMarks(x, p) ==
    /\ Crawls(x) /\ page[x] = NoPage
    /\ visited[p] <= now
    /\ visited' = [visited EXCEPT ![p] = now + Ttl]
    /\ page' = [page EXCEPT ![x] = p]
    /\ left' = [left EXCEPT ![x] = Tokens(p)]
    /\ forgotten' = forgotten \ {p}
    /\ UNCHANGED <<vars, now, visitedFile, closed, deleting, marks, outrun, lastCrash>>

\* _is_visited_recently(): sweep, then look; a page that is not visited is
\* fetched.
Visit(x, p) ==
    /\ Crawls(x) /\ page[x] = NoPage
    /\ \E P \in Swept :
        /\ visited' = Without(P)
        /\ IF Without(P)[p] > now
           THEN UNCHANGED <<crawl, forgotten>>
           ELSE /\ page' = [page EXCEPT ![x] = p]
                /\ left' = [left EXCEPT ![x] = Tokens(p)]
                /\ forgotten' = forgotten \ {p}
    /\ UNCHANGED <<vars, now, visitedFile, closed, deleting, marks, outrun, lastCrash>>

\* _fetch() returned nothing.
FetchFails(x) ==
    /\ Crawls(x) /\ page[x] \in Pages /\ left[x] = Tokens(page[x])
    /\ page' = [page EXCEPT ![x] = NoPage]
    /\ left' = [left EXCEPT ![x] = {}]
    /\ outrun' = outrun \ {x}
    /\ UNCHANGED <<vars, now, store, deleting, marks, forgotten, lastCrash>>

\* One turn of _index_tokens().
IndexToken(x, w) ==
    /\ w \in left[x]
    /\ Insert(x, w)
    /\ left' = [left EXCEPT ![x] = @ \ {w}]
    /\ UNCHANGED <<now, store, page, deleting, told>>

\* What memory now says of the mark of p is not on disk yet.
Told(p, expiry) ==
    /\ promised' = [promised EXCEPT ![p] = expiry]
    /\ unsaved' = unsaved \cup {p}
    /\ lost' = lost \ {p}

\* _mark_visited()
MarkVisited(x) ==
    /\ Crawls(x) /\ page[x] \in Pages /\ left[x] = {}
    /\ visited' = [visited EXCEPT ![page[x]] = now + Ttl]
    /\ Told(page[x], now + Ttl)
    /\ unbacked' = IF x \in outrun THEN unbacked \cup {page[x]} ELSE unbacked \ {page[x]}
    /\ outrun' = outrun \ {x}
    /\ page' = [page EXCEPT ![x] = NoPage]
    /\ UNCHANGED <<vars, now, visitedFile, closed, left, deleting, forgotten, lastCrash>>

-----------------------------------------------------------------------------
(* Saving *)

SaveStore ==
    /\ visitedFile' = visited
    /\ unsaved' = {}

\* The first half of a flush, every FLUSH_EVERY_N pages and when a job ends:
\* store.save().  A flush that finds both halves clean changes nothing.
FlushStore(x) ==
    /\ Crawls(x) /\ page[x] = NoPage
    /\ dirty \/ visitedFile # visited
    /\ SaveStore
    /\ page' = [page EXCEPT ![x] = Flushing]
    /\ UNCHANGED <<vars, now, visited, closed, left, deleting, promised, lost, unbacked,
                   deletes, lastCrash>>

\* The second half: export the shards, or not if the trie is clean.
FlushShards(x) ==
    /\ Crawls(x) /\ page[x] = Flushing
    /\ page' = [page EXCEPT ![x] = NoPage]
    /\ IF dirty THEN Begin(x) ELSE UNCHANGED vars
    /\ UNCHANGED <<now, store, left, deleting, told>>

\* The sync daemon.
DaemonSaves ==
    /\ ~closed
    /\ visitedFile # visited
    /\ SaveStore
    /\ UNCHANGED <<vars, now, visited, closed, crawl, deleting, promised, lost, unbacked,
                   deletes, lastCrash>>

\* A request for an export begins, or any export takes a step.
Exports ==
    /\ \E x \in Exporters : (x \in Workers => pc[x] # "idle") /\ Export(x)
    /\ UNCHANGED <<now, store, crawl, deleting, told>>

-----------------------------------------------------------------------------
(* Deleting a crawl *)

CrawledBy(p) == {x \in Workers : page[x] = p}

\* stop() and join() of the worker on the page, then the postings, whether it has
\* ended or not.  A delete that finds neither postings nor a mark changes nothing.
DeletePostings(p) ==
    LET W == {w \in Tokens(p) : trie[w] # 0}
    IN  /\ Running /\ ~ShuttingDown
        /\ deleting = NoPage
        /\ Joined(CrawledBy(p) = {})
        /\ W # {} \/ visited[p] # 0
        /\ deleting' = p
        /\ forgotten' = IF CrawledBy(p) = {} THEN forgotten \cup {p} ELSE forgotten
        /\ outrun' = outrun \cup CrawledBy(p)
        /\ IF W = {}
           THEN UNCHANGED rest
           ELSE PurgeWords(W)
        /\ UNCHANGED <<now, store, crawl, marks, lastCrash>>

\* Mutant of DeleteRows: the mark stays.
DeleteRowsKeepsMark ==
    /\ Running /\ deleting # NoPage
    /\ Told(deleting, 0)
    /\ deleting' = NoPage
    /\ UNCHANGED <<vars, now, store, crawl, unbacked, deletes, lastCrash>>

\* Then purge_origin() of the store, with the mark of the page.
DeleteRows ==
    /\ Running /\ deleting # NoPage
    /\ visited' = Without({deleting})
    /\ Told(deleting, 0)
    /\ deleting' = NoPage
    /\ UNCHANGED <<vars, now, visitedFile, closed, crawl, unbacked, deletes, lastCrash>>

-----------------------------------------------------------------------------
(* Process lifecycle *)

\* Stop and join the workers, which have ended when they are between two pages and
\* not exporting; the server has finished the deletes.
BeginShutdown ==
    /\ deleting = NoPage
    /\ ShutdownAfter(WorkersQuiet /\ \A x \in Workers : page[x] = NoPage)
    /\ UNCHANGED <<now, store, crawl, deleting, told>>

\* Mutant of CloseStore: shutdown(save=False).
CloseStoreUnsaved ==
    /\ ~Running /\ ~closed
    /\ closed' = TRUE
    /\ UNCHANGED <<vars, now, visited, visitedFile, crawl, deleting, told>>

\* After the export, failed or not, the store saves a last time.
CloseStore ==
    /\ ~Running /\ ~closed
    /\ closed' = TRUE
    /\ SaveStore
    /\ UNCHANGED <<vars, now, visited, crawl, deleting, promised, lost, unbacked, deletes,
                   lastCrash>>

Orderly == closed /\ pc[Main] = "exited" /\ ~outlived

\* The process is gone, orderly or not, and a new one loads both halves.
Reload ==
    /\ Restart
    /\ visited' = visitedFile
    /\ closed' = FALSE
    /\ page' = [x \in Workers |-> NoPage]
    /\ left' = [x \in Workers |-> {}]
    /\ deleting' = NoPage
    /\ outrun' = {}
    /\ lost' = lost \cup unsaved
    /\ unsaved' = {}
    /\ IF Orderly
       THEN /\ forgotten' = {p \in forgotten : \A w \in Tokens(p) : ShardOf[w] \notin leftover}
            /\ UNCHANGED lastCrash
       ELSE forgotten' = {} /\ lastCrash' = now
    /\ UNCHANGED <<now, visitedFile, promised, unbacked>>

Tick ==
    /\ now < MaxTime
    /\ now' = now + 1
    /\ UNCHANGED <<vars, store, crawl, deleting, told>>

LNext ==
    \/ \E x \in Workers :
        \/ \E p \in Pages : Visit(x, p)
        \/ FetchFails(x)
        \/ \E w \in Words : IndexToken(x, w)
        \/ MarkVisited(x) \/ FlushStore(x) \/ FlushShards(x)
    \/ DaemonSaves \/ Exports
    \/ \E p \in Pages : DeletePostings(p)
    \/ DeleteRows
    \/ BeginShutdown \/ CloseStore \/ Reload \/ Tick

LSpec == LInit /\ [][LNext]_lvars

-----------------------------------------------------------------------------
\* Type invariant of the composition.
LTypeOK ==
    /\ now \in 0..MaxTime
    /\ visited \in [Pages -> Nat] /\ visitedFile \in [Pages -> Nat]
    /\ page \in [Workers -> Pages \cup {NoPage, Flushing}]
    /\ left \in [Workers -> SUBSET Words]
    /\ \A x \in Workers :
        left[x] \subseteq (IF page[x] \in Pages THEN Tokens(page[x]) ELSE {})
    /\ deleting \in Pages \cup {NoPage}
    /\ closed => ~Running
    /\ promised \in [Pages -> Nat]
    /\ unsaved \subseteq Pages /\ lost \subseteq Pages /\ unbacked \subseteq Pages
    /\ forgotten \subseteq Pages
    /\ outrun \subseteq {x \in Workers : page[x] \in Pages}
    /\ lastCrash \in -Ttl..MaxTime

\* worker.py:284: whatever failed, was deleted or was restarted, a page that
\* crawls skip can be found, but for two marks.  One was set before a crash, and
\* lasts no longer than a TTL after it; the other was set by a worker that the
\* delete of its page had given up waiting for.
VisitedIsFindable ==
    \A p \in Pages : visited[p] > now /\ deleting # p
        => Indexed(p) \/ visited[p] <= lastCrash + Ttl \/ p \in unbacked

\* worker.py:420-432, 718-732: neither the bounded sweep nor a restart shows.  A
\* check lets a page through exactly when the TTL of its last mark is over or a
\* delete took the mark back, to the unit, however many entries expired.  A crash
\* makes no difference either, but to pages marked or deleted since the last save:
\* those may be crawled again early, or skipped, for no longer than a TTL.
CheckedAgainstPromise ==
    [][/\ \A x \in Workers, p \in Pages :
              (page[x] = NoPage /\ page'[x] = p) => promised[p] <= now \/ p \in lost
       /\ \A p \in Pages : visited'[p] > now' =>
              \/ visited'[p] = promised'[p]
              \/ p \in lost' /\ visited'[p] <= lastCrash' + Ttl]_lvars

\* routes.py:310-328 with main.py:68-82: what was deleted after its worker had
\* ended stays out of the index over exports, their failures and orderly restarts,
\* until it is crawled again, or a crash or a shard file that could not be removed
\* brings it back.
DeletedStaysGone == \A p \in forgotten : \A w \in Tokens(p) : trie[w] = 0

\* main.py:66-82: an orderly shutdown leaves both halves of the memory on disk,
\* and more than that only in shard files that could not be removed.
ShutdownPersistsAll ==
    Orderly => visitedFile = visited /\ \A w \in Words : OnDisk(w)

\* What a crash or a join that timed out breaks, see VisitedIsFindable: visited
\* without postings.
VisitedMeansIndexed ==
    \A p \in Pages :
        (/\ visited[p] > now /\ deleting # p
         /\ \A x \in Workers : page[x] # p) => Indexed(p)

\* What a crash breaks, see DeletedStaysGone: the shard files still hold what was
\* deleted after the last export, and the next boot imports it.
DeletedStaysGoneOverCrashes ==
    [][\A p \in forgotten : (\A x \in Workers : page'[x] # p)
            => \A w \in Tokens(p) : trie'[w] = 0]_lvars
=============================================================================
