---------------------------- MODULE CrawlerQueue ----------------------------
(***************************************************************************)
(* The frontier of one crawl job: crawler/queue.py, class CrawlerQueue.    *)
(* A ring buffer of (url, depth) entries under one lock, with a per-job    *)
(* set of seen hashes and three counters that the dashboard shows.  Every  *)
(* method body runs inside `with self._lock`, so an operation is one       *)
(* action; the eviction warning is logged outside the lock and touches no  *)
(* state of the queue.  A URL stands for its own sha256.                   *)
(***************************************************************************)
EXTENDS Integers, Sequences, FiniteSets

CONSTANTS
    Urls,          \* the URLs that can be pushed
    PushDepths,    \* the depths callers push with (int(depth))
    MaxCapacity    \* max_capacity of the constructor

\* __init__ raises ValueError unless max_capacity > 0.
ASSUME MaxCapacityAssumption == MaxCapacity \in Nat \ {0}
ASSUME PushDepthsAssumption == PushDepths \subseteq Int

VARIABLES
    deque,           \* _deque: pending entries, head first
    seen_hashes,     \* _seen_hashes
    enqueued_total,
    dropped_total,
    popped_total,
    admitted,        \* history: every entry ever appended, in order
    discarded        \* history: how many entries clear() removed so far

qvars == <<deque, seen_hashes, enqueued_total, dropped_total, popped_total,
           admitted, discarded>>

Entry == [url : Urls, depth : Nat]

QInit ==
    /\ deque = <<>>
    /\ seen_hashes = {}
    /\ enqueued_total = 0
    /\ dropped_total = 0
    /\ popped_total = 0
    /\ admitted = <<>>
    /\ discarded = 0

Full == Len(deque) >= MaxCapacity

DepthAccepted(d) == d >= 0

\* Mutant of SeenAfter: the URL about to be evicted may come back.
SeenAfterForgetsEvicted(u) ==
    (seen_hashes \cup {u}) \ (IF Full THEN {Head(deque).url} ELSE {})

\* The evicted head, if any, stays deduplicated.
SeenAfter(u) == seen_hashes \cup {u}

\* push(): False, and nothing changes, for a negative depth or a seen URL.
PushRejected(u, d) ==
    /\ ~DepthAccepted(d) \/ u \in seen_hashes
    /\ UNCHANGED qvars

\* push(): the newcomer goes to the tail; when the buffer is full the head is
\* evicted first and its hash stays in seen_hashes.
PushAccepted(u, d) ==
    LET entry == [url |-> u, depth |-> d]
    IN  /\ DepthAccepted(d)
        /\ u \notin seen_hashes
        /\ deque' = Append(IF Full THEN Tail(deque) ELSE deque, entry)
        /\ dropped_total' = IF Full THEN dropped_total + 1 ELSE dropped_total
        /\ seen_hashes' = SeenAfter(u)
        /\ enqueued_total' = enqueued_total + 1
        /\ admitted' = Append(admitted, entry)
        /\ UNCHANGED <<popped_total, discarded>>

Push(u, d) == PushRejected(u, d) \/ PushAccepted(u, d)

\* Mutant of Pop: takes the newest entry.
PopNewest ==
    /\ deque # <<>>
    /\ deque' = SubSeq(deque, 1, Len(deque) - 1)
    /\ popped_total' = popped_total + 1
    /\ UNCHANGED <<seen_hashes, enqueued_total, dropped_total, admitted, discarded>>

\* Mutant of Pop: a URL may be pushed again once it was popped.
PopForgetsHash ==
    /\ deque # <<>>
    /\ deque' = Tail(deque)
    /\ seen_hashes' = seen_hashes \ {Head(deque).url}
    /\ popped_total' = popped_total + 1
    /\ UNCHANGED <<enqueued_total, dropped_total, admitted, discarded>>

\* Mutant of Pop: not counted.
PopUncounted ==
    /\ deque # <<>>
    /\ deque' = Tail(deque)
    /\ UNCHANGED <<seen_hashes, enqueued_total, dropped_total, popped_total, admitted,
                   discarded>>

\* pop() on a non-empty queue; on an empty one it returns None and changes nothing.
Pop ==
    /\ deque # <<>>
    /\ deque' = Tail(deque)
    /\ popped_total' = popped_total + 1
    /\ UNCHANGED <<seen_hashes, enqueued_total, dropped_total, admitted, discarded>>

\* clear(): drops what is pending, leaves the counters and the hashes alone.
Clear ==
    /\ discarded' = discarded + Len(deque)
    /\ deque' = <<>>
    /\ UNCHANGED <<seen_hashes, enqueued_total, dropped_total, popped_total, admitted>>

\* Mutant of Status: Critical only beyond the capacity.
StatusOffByOne ==
    CASE Len(deque) > MaxCapacity -> "Critical"
      [] Len(deque) <= MaxCapacity /\ 10 * Len(deque) >= 8 * MaxCapacity -> "Backpressure"
      [] OTHER -> "Healthy"

\* status(): the label the dashboard shows, _BACKPRESSURE_RATIO = 0.8.
Status ==
    CASE Full -> "Critical"
      [] ~Full /\ 10 * Len(deque) >= 8 * MaxCapacity -> "Backpressure"
      [] OTHER -> "Healthy"

QNext ==
    \/ \E u \in Urls, d \in PushDepths : Push(u, d)
    \/ Pop
    \/ Clear

QSpec == QInit /\ [][QNext]_qvars

-----------------------------------------------------------------------------
\* Type invariant: entries, counters and the bound on what is pending.
QTypeOK ==
    /\ deque \in Seq(Entry)
    /\ seen_hashes \subseteq Urls
    /\ enqueued_total \in Nat
    /\ dropped_total \in Nat
    /\ popped_total \in Nat
    /\ admitted \in Seq(Entry)
    /\ discarded \in Nat

\* The queue never holds more than max_capacity entries, whatever the order
\* of pushes, pops and clears (the len check precedes the append).
CapacityRespected == Len(deque) <= MaxCapacity

\* Pending is always exactly the newest part of what was admitted, in admission
\* order: eviction, pop and clear only ever consume from the head, so the
\* crawl is first-in first-out even across ring-buffer evictions.
PendingIsNewestSuffix ==
    /\ Len(deque) <= Len(admitted)
    /\ \A i \in 1 .. Len(deque) :
           deque[i] = admitted[Len(admitted) - Len(deque) + i]

\* A URL is admitted at most once in the life of the queue: neither eviction
\* nor pop nor clear forgets its hash, so the frontier cannot cycle.
AdmittedAtMostOnce ==
    /\ seen_hashes = {admitted[i].url : i \in 1 .. Len(admitted)}
    /\ \A i, j \in 1 .. Len(admitted) :
           admitted[i].url = admitted[j].url => i = j

\* Every admitted entry is accounted for: still pending, popped, evicted or
\* discarded by clear().  The dashboard's three counters balance up to clear().
EntriesAccountedFor ==
    /\ enqueued_total = Len(deque) + popped_total + dropped_total + discarded
    /\ enqueued_total = Len(admitted)

\* A pushed URL is never the one that is lost: an eviction happens exactly on
\* an accepted push into a queue whose status() is Critical, takes one entry,
\* and leaves the newcomer at the tail.
EvictionOnlyWhenCritical ==
    [][/\ dropped_total' # dropped_total
             <=> (enqueued_total' # enqueued_total /\ Status = "Critical")
       /\ enqueued_total' # enqueued_total
             => deque'[Len(deque')] = admitted'[Len(admitted')]]_qvars

\* The frontier as a set of phases, the promise the crawl loop relies on.
Frontier == INSTANCE UrlFrontier WITH
    phase <- [u \in Urls |->
                 IF \E i \in 1 .. Len(deque) : deque[i].url = u THEN "pending"
                 ELSE IF u \in seen_hashes THEN "gone"
                 ELSE "new"]

\* The queue implements the abstract frontier: new -> pending -> gone, no URL
\* ever comes back, whichever operation moved it.
ImplementsFrontier == Frontier!FSpec
=============================================================================
