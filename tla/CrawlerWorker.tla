---------------------------- MODULE CrawlerWorker ----------------------------
(***************************************************************************)
(* One crawl job: crawler/worker.py, class CrawlerWorker.  The worker      *)
(* thread runs _seed_frontier, _crawl_loop and _finalize over its own      *)
(* CrawlerQueue; API threads call pause(), resume() and stop() on it at    *)
(* any time, and each of those is several unsynchronised steps.  The       *)
(* worker's step boundaries are its reads of the two events and its calls. *)
(* The network is nondeterministic: a page may be skipped by the visited   *)
(* check, fail, or be crawled; its links come from a map fixed by Init.    *)
(***************************************************************************)
EXTENDS CrawlerQueue

CONSTANTS
    MaxDepth,      \* max_depth, clamped to >= 0 by the constructor
    MaxUrls,       \* max_urls, clamped to >= 1 by the constructor
    ValidUrls,     \* the URLs validate_url() accepts
    Seeds,         \* the seed URLs jobs are created with
    LinkMaps,      \* the possible webs: functions from Urls to Seq(Urls)
    Clients        \* API threads

ASSUME MaxDepthAssumption == MaxDepth \in Nat
ASSUME MaxUrlsAssumption == MaxUrls \in Nat \ {0}
ASSUME ValidUrlsAssumption == ValidUrls \subseteq Urls
ASSUME SeedsAssumption == Seeds \subseteq Urls
ASSUME LinkMapsAssumption == LinkMaps \subseteq [Urls -> Seq(Urls)]

VARIABLES
    seed,           \* seed_url
    links,          \* the web: links[u] is parser.links of page u
    pc,             \* where the worker thread is
    item,           \* the entry popped last
    remaining,      \* links _enqueue_children has still to push
    crawled_count,
    fetch_errors,
    stop_event,     \* _stop_event.is_set()
    pause_event,    \* _pause_event.is_set(); FALSE means paused
    status_label,
    archived,       \* status of the job_history row, "none" before it exists
    apc,            \* where each API thread is
    pages,          \* history: entries crawled, in order
    poppedHalted,   \* history: entries popped since the job was last told to
                    \* halt (paused or stopped), 0 while it is not
    crashed         \* history: an exception escaped the loop

control == <<seed, links, apc>>
loopvars == <<item, remaining, crawled_count, fetch_errors, pages, crashed>>
flags == <<stop_event, pause_event, status_label, archived>>
vars == <<qvars, control, loopvars, flags, pc, poppedHalted>>

Halted == stop_event \/ ~pause_event

Init ==
    /\ QInit
    /\ seed \in Seeds
    /\ links \in LinkMaps
    /\ pc = "idle"
    /\ item = [url |-> seed, depth |-> 0]
    /\ remaining = <<>>
    /\ crawled_count = 0
    /\ fetch_errors = 0
    /\ stop_event = FALSE
    /\ pause_event = TRUE
    /\ status_label = "idle"
    /\ archived = "none"
    /\ apc = [c \in Clients |-> "ready"]
    /\ pages = <<>>
    /\ poppedHalted = 0
    /\ crashed = FALSE

-----------------------------------------------------------------------------
(* The worker thread *)

Step(from, to) == pc = from /\ pc' = to

\* run(): Thread.start() was called by create_job.
Run ==
    /\ Step("idle", "seeding")
    /\ status_label' = "running"
    /\ UNCHANGED <<qvars, control, loopvars, stop_event, pause_event, archived,
                   poppedHalted>>

\* _seed_frontier(): an invalid seed sets the stop event.
SeedFrontier ==
    /\ Step("seeding", "checkStop")
    /\ IF seed \in ValidUrls
       THEN Push(seed, 0) /\ UNCHANGED stop_event
       ELSE stop_event' = TRUE /\ UNCHANGED qvars
    /\ UNCHANGED <<control, loopvars, pause_event, status_label, archived, poppedHalted>>

\* while not self._stop_event.is_set()
CheckStop ==
    /\ pc = "checkStop"
    /\ pc' = IF stop_event THEN "finalize" ELSE "checkPause"
    /\ UNCHANGED <<qvars, control, loopvars, flags, poppedHalted>>

\* Mutant of CheckPause: the pause gate is not honoured.
CheckPauseIgnored ==
    /\ Step("checkPause", "take")
    /\ UNCHANGED <<qvars, control, loopvars, flags, poppedHalted>>

\* Mutant of CheckPause: waits for the gate without a timeout.
CheckPauseForever ==
    /\ pc = "checkPause"
    /\ pc' = IF pause_event THEN "take" ELSE "checkPause"
    /\ UNCHANGED <<qvars, control, loopvars, flags, poppedHalted>>

\* A paused worker waits at most 0.5 s and goes back to the stop check.
CheckPause ==
    /\ pc = "checkPause"
    /\ pc' = IF pause_event THEN "take" ELSE "checkStop"
    /\ UNCHANGED <<qvars, control, loopvars, flags, poppedHalted>>

\* Mutant of OutOfBudget: one page too many.
OutOfBudgetLate == crawled_count > MaxUrls

OutOfBudget == crawled_count >= MaxUrls

\* The budget is spent: discard the frontier and leave the loop.
BudgetReached ==
    /\ Step("take", "finalize")
    /\ OutOfBudget
    /\ Clear
    /\ UNCHANGED <<control, loopvars, flags, poppedHalted>>

\* Nothing to pop: sleep, then leave unless the frontier has filled meanwhile.
FrontierEmpty ==
    /\ Step("take", "backoff")
    /\ ~OutOfBudget
    /\ deque = <<>>
    /\ UNCHANGED <<qvars, control, loopvars, flags, poppedHalted>>

\* Mutant of Backoff: tries again for ever.
BackoffRetries ==
    /\ Step("backoff", "checkStop")
    /\ UNCHANGED <<qvars, control, loopvars, flags, poppedHalted>>

Backoff ==
    /\ pc = "backoff"
    /\ pc' = IF Len(deque) = 0 THEN "finalize" ELSE "checkStop"
    /\ UNCHANGED <<qvars, control, loopvars, flags, poppedHalted>>

TakeItem ==
    /\ Step("take", "fetch")
    /\ ~OutOfBudget
    /\ Pop
    /\ item' = Head(deque)
    /\ poppedHalted' = IF Halted THEN poppedHalted + 1 ELSE 0
    /\ UNCHANGED <<control, remaining, crawled_count, fetch_errors, pages, crashed, flags>>

\* _is_visited_recently() answers True, or _fetch() returns None without
\* counting an error (validation block, not HTML).
SkipItem ==
    /\ Step("fetch", "checkStop")
    /\ UNCHANGED <<qvars, control, loopvars, flags, poppedHalted>>

\* Mutant of FetchFails: the first entry that fails goes back to the frontier.
FetchFailsRequeued ==
    /\ Step("fetch", "checkStop")
    /\ fetch_errors = 0
    /\ ~Full
    /\ deque' = Append(deque, item)
    /\ enqueued_total' = enqueued_total + 1
    /\ admitted' = Append(admitted, item)
    /\ fetch_errors' = fetch_errors + 1
    /\ UNCHANGED <<seen_hashes, dropped_total, popped_total, discarded, control, item,
                   remaining, crawled_count, pages, crashed, flags, poppedHalted>>

\* _fetch() raises inside: counted, logged, None.
FetchFails ==
    /\ Step("fetch", "checkStop")
    /\ fetch_errors' = fetch_errors + 1
    /\ UNCHANGED <<qvars, control, item, remaining, crawled_count, pages, crashed, flags,
                   poppedHalted>>

\* The page is parsed, counted, stored, indexed, marked visited and flushed.
CrawlPage ==
    /\ Step("fetch", "expand")
    /\ item.url \in ValidUrls
    /\ crawled_count' = crawled_count + 1
    /\ pages' = Append(pages, item)
    /\ UNCHANGED <<qvars, control, item, remaining, fetch_errors, crashed, flags, poppedHalted>>

\* Mutant of RoomForChildren: the shortcut leaves one URL out.
RoomForChildrenShort == crawled_count + Len(deque) + 1 < MaxUrls

RoomForChildren == crawled_count + Len(deque) < MaxUrls

\* Children are enqueued only below max_depth and while the pages crawled
\* plus those pending are fewer than max_urls.
Expand ==
    /\ pc = "expand"
    /\ IF item.depth < MaxDepth /\ RoomForChildren
       THEN pc' = "pushing" /\ remaining' = links[item.url]
       ELSE pc' = "checkStop" /\ UNCHANGED remaining
    /\ UNCHANGED <<qvars, control, item, crawled_count, fetch_errors, pages, crashed, flags,
                   poppedHalted>>

ChildDepth == item.depth + 1

\* _enqueue_children(), one link: push it unless validate_url() refuses it.
PushChild ==
    /\ pc = "pushing"
    /\ remaining # <<>>
    /\ IF Head(remaining) \in ValidUrls
       THEN Push(Head(remaining), ChildDepth)
       ELSE UNCHANGED qvars
    /\ remaining' = Tail(remaining)
    /\ UNCHANGED <<pc, control, item, crawled_count, fetch_errors, pages, crashed, flags,
                   poppedHalted>>

ChildrenDone ==
    /\ Step("pushing", "checkStop")
    /\ remaining = <<>>
    /\ UNCHANGED <<qvars, control, loopvars, flags, poppedHalted>>

\* run()'s `except Exception`: an exception that escapes the seeding or the
\* loop body.
LoopCrashes ==
    /\ pc \in {"seeding", "take", "fetch", "expand", "pushing"}
    /\ pc' = "finalize"
    /\ crashed' = TRUE
    /\ UNCHANGED <<qvars, control, item, remaining, crawled_count, fetch_errors, pages,
                   flags, poppedHalted>>

\* _finalize(): the terminal label, read from the stop event.
Finalize ==
    /\ Step("finalize", "archive")
    /\ status_label' = IF stop_event THEN "stopped" ELSE "completed"
    /\ UNCHANGED <<qvars, control, loopvars, stop_event, pause_event, archived,
                   poppedHalted>>

\* _archive_final_state(): the history row carries the label of that moment.
Archive ==
    /\ Step("archive", "done")
    /\ archived' = status_label
    /\ UNCHANGED <<qvars, control, loopvars, stop_event, pause_event, status_label,
                   poppedHalted>>

Worker ==
    \/ Run \/ SeedFrontier
    \/ CheckStop \/ CheckPause
    \/ BudgetReached \/ FrontierEmpty \/ Backoff \/ TakeItem
    \/ SkipItem \/ FetchFails \/ CrawlPage
    \/ Expand \/ PushChild \/ ChildrenDone
    \/ LoopCrashes \/ Finalize \/ Archive

-----------------------------------------------------------------------------
(* API threads: pause(), resume() and stop(), one attribute at a time *)

Call(c, from, to) ==
    /\ apc[c] = from
    /\ apc' = [apc EXCEPT ![c] = to]
    /\ UNCHANGED <<qvars, seed, links, loopvars, pc, archived>>

\* The guard of pause() and resume(): refused once stop was requested.
PauseCheck(c) ==
    /\ ~stop_event
    /\ Call(c, "ready", "pauseClear")
    /\ UNCHANGED <<stop_event, pause_event, status_label, poppedHalted>>

PauseClear(c) ==
    /\ Call(c, "pauseClear", "pauseLabel")
    /\ pause_event' = FALSE
    /\ poppedHalted' = IF Halted THEN poppedHalted ELSE 0
    /\ UNCHANGED <<stop_event, status_label>>

PauseLabel(c) ==
    /\ Call(c, "pauseLabel", "ready")
    /\ status_label' = "paused"
    /\ UNCHANGED <<stop_event, pause_event, poppedHalted>>

ResumeCheck(c) ==
    /\ ~stop_event
    /\ Call(c, "ready", "resumeSet")
    /\ UNCHANGED <<stop_event, pause_event, status_label, poppedHalted>>

ResumeSet(c) ==
    /\ Call(c, "resumeSet", "resumeLabel")
    /\ pause_event' = TRUE
    /\ poppedHalted' = IF stop_event THEN poppedHalted ELSE 0
    /\ UNCHANGED <<stop_event, status_label>>

ResumeLabel(c) ==
    /\ Call(c, "resumeLabel", "ready")
    /\ status_label' = "running"
    /\ UNCHANGED <<stop_event, pause_event, poppedHalted>>

StopSet(c) ==
    /\ Call(c, "ready", "stopRelease")
    /\ stop_event' = TRUE
    /\ poppedHalted' = IF stop_event THEN poppedHalted ELSE 0
    /\ UNCHANGED <<pause_event, status_label>>

\* The gate is released so that a paused loop sees the stop flag.
StopRelease(c) ==
    /\ Call(c, "stopRelease", "ready")
    /\ pause_event' = TRUE
    /\ UNCHANGED <<stop_event, status_label, poppedHalted>>

Api(c) ==
    \/ PauseCheck(c) \/ PauseClear(c) \/ PauseLabel(c)
    \/ ResumeCheck(c) \/ ResumeSet(c) \/ ResumeLabel(c)
    \/ StopSet(c) \/ StopRelease(c)

Next == Worker \/ \E c \in Clients : Api(c)

Spec == Init /\ [][Next]_vars

\* The thread is scheduled and every call in it returns: urlopen has a 10 s
\* timeout, sleeps and waits are bounded, and no lock is held across them.
FairSpec == Spec /\ WF_vars(Worker)

-----------------------------------------------------------------------------
\* Type invariant of the job.
TypeOK ==
    /\ QTypeOK
    /\ seed \in Seeds
    /\ links \in LinkMaps
    /\ pc \in {"idle", "seeding", "checkStop", "checkPause", "take", "backoff",
               "fetch", "expand", "pushing", "finalize", "archive", "done"}
    /\ item \in Entry
    /\ remaining \in Seq(Urls)
    /\ crawled_count \in Nat
    /\ fetch_errors \in Nat
    /\ stop_event \in BOOLEAN
    /\ pause_event \in BOOLEAN
    /\ status_label \in {"idle", "running", "paused", "stopped", "completed"}
    /\ archived \in {"none", "running", "paused", "stopped", "completed"}
    /\ apc \in [Clients -> {"ready", "pauseClear", "pauseLabel", "resumeSet",
                            "resumeLabel", "stopRelease"}]
    /\ pages \in Seq(Entry)
    /\ poppedHalted \in Nat
    /\ crashed \in BOOLEAN

\* The URL budget is a hard bound: never more than max_urls pages are crawled,
\* whichever pages were skipped, failed or evicted (the check precedes pop).
BudgetRespected == crawled_count <= MaxUrls /\ crawled_count = Len(pages)

\* Breadth-first: entries are admitted in non-decreasing depth, pending spans
\* at most two consecutive depths, and no depth exceeds max_depth.  Every depth is
\* explained: a page at depth d > 0 was linked by a page this job crawled before it at
\* depth d - 1; only the seed has depth 0.
BreadthFirst ==
    /\ \A i, j \in 1 .. Len(admitted) :
           i < j => admitted[i].depth <= admitted[j].depth
    /\ \A i, j \in 1 .. Len(deque) : deque[j].depth <= deque[i].depth + 1
    /\ \A i \in 1 .. Len(admitted) : admitted[i].depth <= MaxDepth
    /\ \A i \in 1 .. Len(pages) :
        IF pages[i].depth = 0 THEN pages[i].url = seed
        ELSE \E j \in 1 .. (i - 1) :
                /\ pages[j].depth = pages[i].depth - 1
                /\ \E k \in 1 .. Len(links[pages[j].url]) :
                       links[pages[j].url][k] = pages[i].url

\* A halted job takes at most the one entry it was already about to pop: after
\* pause() until resume(), and after stop() for good.
HaltTakesAtMostOne == Halted => poppedHalted <= 1

\* The URLs a page at depth < max_depth links to and that validate.
ExpectedChildren(entry) ==
    IF entry.depth < MaxDepth
    THEN {links[entry.url][k] : k \in 1 .. Len(links[entry.url])} \cap ValidUrls
    ELSE {}

CompletedUnderBudget ==
    /\ pc \in {"archive", "done"}
    /\ status_label = "completed"
    /\ ~crashed
    /\ crawled_count < MaxUrls

\* worker.py:310-314, under the assumption that comment makes: when everything
\* popped was crawled, skipping the enqueue step loses nothing, so a completed
\* job under its budget has admitted every link of every page it expanded.
ShortcutLosesNothing ==
    (CompletedUnderBudget /\ popped_total = Len(pages))
    => \A i \in 1 .. Len(pages) : ExpectedChildren(pages[i]) \subseteq seen_hashes

\* The same without that assumption: a job that completes under its budget has
\* looked at every link of every page it crawled above max_depth.
CompletedJobExhaustsLinks ==
    CompletedUnderBudget
    => \A i \in 1 .. Len(pages) : ExpectedChildren(pages[i]) \subseteq seen_hashes

\* What history shows of a finished job is a terminal status.
ArchivedStatusIsTerminal == archived \in {"none", "stopped", "completed"}

\* A started job that is asked to stop ends, even when it is paused, and even
\* when a late pause() closes the gate again after stop() opened it.
StopTerminates == (stop_event /\ pc # "idle") ~> (pc = "done")

\* A started job that is not left paused forever ends: the frontier admits
\* each URL once, so the loop runs dry or out of budget.
EndsUnlessPaused == (<>[]pause_event /\ <>(pc # "idle")) => <>(pc = "done")
=============================================================================
