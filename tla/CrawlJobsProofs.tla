-------------------------- MODULE CrawlJobsProofs --------------------------
(***************************************************************************)
(* Safety of the jobs, their data and the API threads, for any number of   *)
(* jobs, pages, clients, deletes and resets.                               *)
(*                                                                         *)
(* The job history needs no help: one row per job is inductive (Rows), and *)
(* so is the cap.  What deletes and resets promise rests on their joins    *)
(* and, the origin being all a purge goes by, on one origin per job; each  *)
(* theorem names the hypotheses it needs.                                  *)
(***************************************************************************)
EXTENDS CrawlJobs, FiniteSetTheorems, TLAPS

LOCAL INSTANCE FiniteSetsExt

Row == [job : Jobs, status : {"stopped", "completed", "deleted"}]

-----------------------------------------------------------------------------
(* The history *)

\* At most one row per job, said without counting.
OneRowPerJob(rows) ==
    \A i, k \in 1 .. Len(rows) : rows[i].job = rows[k].job => i = k

LEMMA RingedFacts ==
    ASSUME NEW rows \in Seq(Row), Len(rows) = HistoryCap + 1
    PROVE  /\ Ringed(rows) \in Seq(Row) /\ Len(Ringed(rows)) = HistoryCap
           /\ \A i \in 1 .. HistoryCap : Ringed(rows)[i] = rows[i + 1]
BY HistoryCapAssumption DEF Ringed

\* The row that is written replaces the job's only one or comes last.
LEMMA UpsertedFacts ==
    ASSUME NEW row \in Row, history \in Seq(Row), OneRowPerJob(history)
    PROVE  /\ Upserted(row) \in Seq(Row) /\ OneRowPerJob(Upserted(row))
           /\ \/ /\ Len(Upserted(row)) = Len(history) + 1
                 /\ Upserted(row)[Len(history) + 1] = row
                 /\ \A i \in 1 .. Len(history) :
                        Upserted(row)[i] = history[i] /\ history[i].job # row.job
              \/ /\ Len(Upserted(row)) = Len(history)
                 /\ \E k \in 1 .. Len(history) :
                        /\ Upserted(row)[k] = row /\ history[k].job = row.job
                        /\ \A i \in 1 .. Len(history) :
                               i # k => Upserted(row)[i] = history[i]
<1> DEFINE own == RowsOf(row.job, history)
<1>1. own = {i \in 1 .. Len(history) : history[i].job = row.job}
  BY DEF RowsOf
<1>2. CASE own = {}
  <2>1. Upserted(row) = Append(history, row)
    BY <1>2 DEF Upserted
  <2> QED
    BY <1>1, <1>2, <2>1 DEF OneRowPerJob, Row
<1>3. CASE own # {}
  <2>1. PICK k \in own : own = {k}
    BY <1>1, <1>3 DEF OneRowPerJob
  <2>2. Max(own) = k
    BY <1>1, <2>1 DEF Max
  <2>3. Upserted(row) = [history EXCEPT ![k] = row]
    BY <1>3, <2>2 DEF Upserted
  <2>4. k \in 1 .. Len(history) /\ history[k].job = row.job
    BY <1>1, <2>1
  <2> HIDE DEF own
  <2>5. /\ Upserted(row) \in Seq(Row) /\ Len(Upserted(row)) = Len(history)
        /\ Upserted(row)[k] = row
        /\ \A i \in 1 .. Len(history) : i # k => Upserted(row)[i] = history[i]
    BY <2>3, <2>4
  <2>6. OneRowPerJob(Upserted(row))
    BY <2>4, <2>5 DEF OneRowPerJob
  <2> QED
    BY <2>4, <2>5, <2>6
<1> QED
  BY <1>2, <1>3

Rows == history \in Seq(Row) /\ Len(history) <= HistoryCap /\ OneRowPerJob(history)

LEMMA ArchiveRows ==
    ASSUME Rows, NEW j \in Jobs, NEW status \in {"stopped", "completed", "deleted"},
           Archive(j, status)
    PROVE  /\ Rows'
           /\ [job |-> j, status |-> status] \in {history'[i] : i \in DOMAIN history'}
           /\ \A i \in DOMAIN history' :
                  \/ history'[i] = [job |-> j, status |-> status]
                  \/ history'[i].job # j /\ \E k \in DOMAIN history : history'[i] = history[k]
<1> DEFINE row == [job |-> j, status |-> status]
           rows == Upserted(row)
<1>1. row \in Row /\ row.job = j
  BY DEF Row
<1>2. history' = IF Len(rows) > HistoryCap THEN Ringed(rows) ELSE rows
  BY DEF Archive
<1> HIDE DEF row, rows
<1>3. /\ rows \in Seq(Row) /\ OneRowPerJob(rows)
      /\ \/ /\ Len(rows) = Len(history) + 1
            /\ rows[Len(history) + 1] = row
            /\ \A i \in 1 .. Len(history) : rows[i] = history[i] /\ history[i].job # row.job
         \/ /\ Len(rows) = Len(history)
            /\ \E k \in 1 .. Len(history) :
                   /\ rows[k] = row /\ history[k].job = row.job
                   /\ \A i \in 1 .. Len(history) : i # k => rows[i] = history[i]
  BY <1>1, UpsertedFacts DEF Rows, rows
<1>4. /\ \E k \in 1 .. Len(rows) : rows[k] = row
      /\ Len(rows) = Len(history) + 1 => rows[Len(rows)] = row
  BY <1>1, <1>3 DEF Rows
<1>5. ASSUME NEW i \in 1 .. Len(rows), rows[i] # row
      PROVE  rows[i].job # j /\ \E k \in 1 .. Len(history) : rows[i] = history[k]
  BY <1>1, <1>3, <1>5 DEF Rows, OneRowPerJob
<1>6. DOMAIN history = 1 .. Len(history)
  BY DEF Rows
<1>7. CASE Len(rows) > HistoryCap
  <2>1. Len(rows) = HistoryCap + 1 /\ Len(rows) = Len(history) + 1
    BY <1>3, <1>7, HistoryCapAssumption DEF Rows
  <2>2. /\ history' \in Seq(Row) /\ Len(history') = HistoryCap
        /\ \A i \in 1 .. HistoryCap : history'[i] = rows[i + 1]
    BY <1>2, <1>3, <1>7, <2>1, RingedFacts
  <2>3. OneRowPerJob(history')
    BY <1>3, <2>1, <2>2, HistoryCapAssumption DEF OneRowPerJob
  <2>4. history'[HistoryCap] = row /\ HistoryCap \in 1 .. HistoryCap
    BY <1>4, <2>1, <2>2, HistoryCapAssumption
  <2>5. Rows'
    BY <2>2, <2>3, HistoryCapAssumption DEF Rows
  <2>6. DOMAIN history' = 1 .. HistoryCap
    BY <2>2
  <2>7. \A i \in 1 .. HistoryCap :
            \/ history'[i] = row
            \/ history'[i].job # j /\ \E k \in 1 .. Len(history) : history'[i] = history[k]
    BY <1>5, <2>1, <2>2, HistoryCapAssumption
  <2> QED
    BY <1>6, <2>4, <2>5, <2>6, <2>7 DEF row
<1>8. CASE ~(Len(rows) > HistoryCap)
  <2>1. Rows'
    BY <1>2, <1>3, <1>8, HistoryCapAssumption DEF Rows, OneRowPerJob
  <2>2. history' = rows /\ DOMAIN history' = 1 .. Len(rows)
    BY <1>2, <1>3, <1>8
  <2> QED
    BY <1>4, <1>5, <1>6, <2>1, <2>2 DEF row
<1> QED
  BY <1>7, <1>8

-----------------------------------------------------------------------------
(* Types *)

\* What a handler between two of its steps is about, and a worker within a page.
Placed ==
    /\ \A c \in Clients :
           cpc[c] \in {"persist", "start", "stop", "join", "archive", "purgeRecord",
                       "purgeTrie", "purgeStore"} => target[c] \in Jobs
    /\ \A c \in Clients : cpc[c] \in {"persist", "start"} =>
           /\ wpc[target[c]] = "unborn"
           /\ \A d \in Clients : d # c /\ cpc[d] \in {"persist", "start"} =>
                                     target[d] # target[c]
    /\ \A j \in Jobs : wpc[j] \in {"fetching", "index", "mark"} => page[j] \in Urls

JInv == TypeOK /\ Placed /\ Rows

WPC == {"unborn", "loop", "fetching", "index", "mark", "flush", "export",
        "write", "finalize", "archive", "dead"}
CPC == {"ready", "persist", "start", "stop", "join", "archive", "purgeRecord",
        "purgeTrie", "purgeStore", "stopAll", "listAll", "joinAll", "clearRegistry",
        "clearTrie", "clearStore", "purgeShards", "allow"}

LEMMA JobConstants ==
    /\ NoPostings \in Index
    /\ \A j \in Jobs : Seed[j] \in Origins
    /\ \A j \in Jobs : \A u \in Site[j] : u \in Urls
BY SeedAssumption, SiteAssumption DEF NoPostings, Index

\* Whatever is not as the image says is of a file that could not be removed.
LEMMA PutShardsFacts ==
    ASSUME shards \in Index, NEW image \in Index, PutShards(image)
    PROVE  /\ shards' \in Index /\ unremoved' \subseteq Urls
           /\ \A u \in Urls : shards'[u] = image[u] \/ u \in unremoved'
BY DEF PutShards, Index

\* A worker's step keeps the types of everything it does not name.
LEMMA AtTypes ==
    ASSUME JInv, NEW j \in Jobs, NEW from \in WPC \ {"unborn"}, NEW to \in WPC,
           At(j, from, to),
           visited' \subseteq Urls, metadata' \in Index, postings' \in Index,
           shards' \in Index, unremoved' \subseteq Urls, dirty' \in BOOLEAN,
           ending' \in [Jobs -> {"none", "stopped", "completed"}],
           \A k \in Jobs : k # j => ending'[k] = ending[k] /\ page'[k] = page[k],
           to \in {"finalize", "archive", "dead"} <=>
               /\ ending'[j] # "none"
               /\ to \notin {"flush", "export", "write"},
           page' \in [Jobs -> Urls \cup {Nobody}],
           to \in {"fetching", "index", "mark"} => page'[j] \in Urls,
           done' \in [Jobs -> SUBSET Urls], walked' \in [Jobs -> Index],
           Rows'
    PROVE  JInv'
<1>1. /\ wpc[j] = from /\ wpc' \in [Jobs -> WPC] /\ wpc'[j] = to
      /\ \A k \in Jobs : k # j => wpc'[k] = wpc[k]
  BY DEF At, JInv, TypeOK, WPC
<1>2. UNCHANGED <<registry, jobs, aborting, stopped, client, bounds, past>>
  BY DEF At
<1>3. \A k \in Jobs : wpc'[k] \in {"finalize", "archive", "dead"} <=>
                         /\ ending'[k] # "none"
                         /\ wpc'[k] \notin {"flush", "export", "write"}
  BY <1>1 DEF JInv, TypeOK
<1>4. Placed'
  BY <1>1, <1>2 DEF JInv, Placed, client
<1>5. history' \in Seq(Row)
  BY DEF Rows
<1>6. aborting' \in BOOLEAN /\ stopped' \in [Jobs -> BOOLEAN]
  BY <1>2 DEF JInv, TypeOK
<1>7. TypeOK'
  BY <1>1, <1>2, <1>3, <1>5, <1>6 DEF JInv, TypeOK, WPC, Row, client, bounds, past
<1> QED
  BY <1>4, <1>7 DEF JInv

LEMMA WorkerTypes == ASSUME JInv, NEW j \in Jobs, Worker(j) PROVE JInv'
<1> USE JobConstants
<1>1. /\ visited \subseteq Urls /\ metadata \in Index /\ postings \in Index
      /\ shards \in Index /\ unremoved \subseteq Urls /\ dirty \in BOOLEAN
      /\ ending \in [Jobs -> {"none", "stopped", "completed"}]
      /\ page \in [Jobs -> Urls \cup {Nobody}] /\ done \in [Jobs -> SUBSET Urls]
      /\ walked \in [Jobs -> Index] /\ Rows
  BY DEF JInv, TypeOK
<1>2. wpc[j] \in {"fetching", "index", "mark"} => page[j] \in Urls
  BY DEF JInv, Placed
<1>3. wpc[j] \in {"finalize", "archive", "dead"} <=>
          ending[j] # "none" /\ wpc[j] \notin {"flush", "export", "write"}
  BY DEF JInv, TypeOK
<1>4. history' = history => (Rows <=> Rows')
  BY DEF Rows
<1>5. ASSUME NEW u \in Urls, SkipVisited(j, u) PROVE JInv'
  BY <1>1, <1>3, <1>4, <1>5, AtTypes DEF SkipVisited, trie, files, At, WPC
<1>6. ASSUME NEW u \in Urls, Fetch(j, u) PROVE JInv'
  BY <1>1, <1>3, <1>4, <1>6, AtTypes DEF Fetch, trie, files, At, WPC
<1>7. CASE FetchFails(j)
  BY <1>1, <1>3, <1>4, <1>7, AtTypes DEF FetchFails, trie, files, At, WPC
<1>8. CASE StoreMetadata(j)
  <2>1. metadata' \in Index
    BY <1>1, <1>8 DEF StoreMetadata, Index
  <2> QED
    BY <1>1, <1>2, <1>3, <1>4, <1>8, <2>1, AtTypes DEF StoreMetadata, trie, files, At, WPC
<1>9. CASE IndexTokens(j)
  <2>1. postings' \in Index
    BY <1>1, <1>9 DEF IndexTokens, trie, Index
  <2>2. CASE page[j] \in Textless
    BY <1>1, <1>2, <1>3, <1>4, <1>9, <2>1, <2>2, AtTypes DEF IndexTokens, trie, files, At, WPC
  <2>3. CASE page[j] \notin Textless
    BY <1>1, <1>2, <1>3, <1>4, <1>9, <2>1, <2>3, AtTypes DEF IndexTokens, files, At, WPC
  <2> QED
    BY <2>2, <2>3
<1>10. CASE MarkVisited(j)
  <2>1. PICK next \in {"loop", "flush"} : At(j, "mark", next)
    BY <1>10 DEF MarkVisited
  <2>2. /\ visited' \subseteq Urls
        /\ UNCHANGED <<history, metadata, postings, dirty, shards, unremoved, ending, page,
                       done, walked>>
    BY <1>1, <1>2, <1>10 DEF MarkVisited, trie, files, At
  <2> QED
    BY <1>1, <1>3, <1>4, <2>1, <2>2, AtTypes DEF At, WPC
<1>11. CASE FlushGate(j)
  BY <1>1, <1>3, <1>4, <1>11, AtTypes DEF FlushGate, AfterFlush, trie, files, At, WPC
<1>12. CASE Walk(j)
  BY <1>1, <1>3, <1>4, <1>12, AtTypes DEF Walk, AfterFlush, trie, files, At, WPC
<1>13. CASE WriteShards(j)
  <2>1. shards' \in Index /\ unremoved' \subseteq Urls
    BY <1>1, <1>13, PutShardsFacts DEF WriteShards
  <2> QED
    BY <1>1, <1>3, <1>4, <1>13, <2>1, AtTypes DEF WriteShards, AfterFlush, At, WPC
<1>14. CASE LeaveLoop(j)
  BY <1>1, <1>3, <1>4, <1>14, AtTypes DEF LeaveLoop, trie, files, At, WPC
<1>15. CASE FinalizeGate(j)
  BY <1>1, <1>3, <1>4, <1>15, AtTypes DEF FinalizeGate, trie, files, At, WPC
<1>16. CASE ArchiveFinal(j)
  <2>1. ending[j] \in {"stopped", "completed"}
    BY <1>1, <1>3, <1>16 DEF ArchiveFinal, At
  <2>2. Rows'
    BY <1>1, <1>16, <2>1, ArchiveRows DEF ArchiveFinal
  <2> QED
    BY <1>1, <1>3, <1>16, <2>1, <2>2, AtTypes DEF ArchiveFinal, trie, files, At, WPC
<1> QED
  BY <1>5, <1>6, <1>7, <1>8, <1>9, <1>10, <1>11, <1>12, <1>13, <1>14, <1>15, <1>16
  DEF Worker

\* A handler's step keeps the types of everything it does not name.
LEMMA HandlerTypes ==
    ASSUME JInv, NEW c \in Clients, NEW from \in CPC, NEW to \in CPC,
           Handler(c, from, to),
           registry' \subseteq Jobs, jobs' \subseteq Jobs, visited' \subseteq Urls,
           metadata' \in Index, postings' \in Index, shards' \in Index,
           unremoved' \subseteq Urls, dirty' \in BOOLEAN, aborting' \in BOOLEAN,
           stopped' \in [Jobs -> BOOLEAN],
           wpc' \in [Jobs -> WPC],
           \A j \in Jobs : \/ wpc'[j] = wpc[j]
                           \/ wpc[j] = "unborn" /\ wpc'[j] = "loop" /\ from = "start"
                              /\ j = target[c],
           to \in {"persist", "start"} =>
               /\ wpc[target'[c]] = "unborn"
               /\ from = "ready" => \A d \in Clients : target[d] # target'[c]
               /\ from # "ready" => from = "persist" /\ target'[c] = target[c],
           target' \in [Clients -> Jobs \cup {Nobody}],
           \A d \in Clients : d # c => target'[d] = target[d],
           to \in {"persist", "start", "stop", "join", "archive", "purgeRecord",
                   "purgeTrie", "purgeStore"} => target'[c] \in Jobs,
           joining' \in [Clients -> SUBSET Jobs],
           deletes' \in Nat, resets' \in Nat, gone' \subseteq Jobs, wiped' \subseteq Jobs,
           Rows'
    PROVE  JInv'
<1>1. /\ cpc[c] = from /\ cpc' \in [Clients -> CPC] /\ cpc'[c] = to
      /\ \A d \in Clients : d # c => cpc'[d] = cpc[d]
      /\ UNCHANGED <<page, done, walked, ending>>
  BY DEF Handler, JInv, TypeOK, CPC
<1>2. \A k \in Jobs : wpc'[k] \in {"finalize", "archive", "dead"} <=>
                         /\ ending'[k] # "none"
                         /\ wpc'[k] \notin {"flush", "export", "write"}
  BY <1>1 DEF JInv, TypeOK
<1>3. Placed'
  <2>1. ASSUME NEW d \in Clients, cpc'[d] \in {"persist", "start"}
        PROVE  wpc'[target'[d]] = "unborn"
    BY <1>1, <2>1 DEF JInv, Placed
  <2>2. ASSUME NEW d \in Clients, NEW e \in Clients, d # e,
               cpc'[d] \in {"persist", "start"}, cpc'[e] \in {"persist", "start"}
        PROVE  target'[d] # target'[e]
    BY <1>1, <2>2 DEF JInv, Placed
  <2> QED
    BY <1>1, <2>1, <2>2 DEF JInv, Placed
<1>4. history' \in Seq(Row)
  BY DEF Rows
<1>5. TypeOK'
  BY <1>1, <1>2, <1>4 DEF JInv, TypeOK, WPC, CPC, Row
<1> QED
  BY <1>3, <1>5 DEF JInv

\* The types of what a handler's step starts from.
LEMMA HandlerStarts ==
    ASSUME JInv, NEW c \in Clients
    PROVE  /\ registry \subseteq Jobs /\ jobs \subseteq Jobs /\ visited \subseteq Urls
           /\ metadata \in Index /\ postings \in Index /\ shards \in Index
           /\ unremoved \subseteq Urls
           /\ dirty \in BOOLEAN /\ aborting \in BOOLEAN /\ stopped \in [Jobs -> BOOLEAN]
           /\ wpc \in [Jobs -> WPC] /\ target \in [Clients -> Jobs \cup {Nobody}]
           /\ joining \in [Clients -> SUBSET Jobs] /\ deletes \in Nat /\ resets \in Nat
           /\ gone \subseteq Jobs /\ wiped \subseteq Jobs /\ Rows
           /\ history' = history => Rows'
           /\ cpc[c] \in {"persist", "start", "stop", "join", "archive", "purgeRecord",
                          "purgeTrie", "purgeStore"} => target[c] \in Jobs
           /\ cpc[c] \in {"persist", "start"} => wpc[target[c]] = "unborn"
BY DEF JInv, TypeOK, Placed, Rows, WPC

LEMMA CreateTypes ==
    ASSUME JInv, NEW c \in Clients,
           \/ Persist(c) \/ Start(c)
           \/ \E j \in Jobs : Register(c, j) \/ StopJob(c, j)
    PROVE  JInv'
<1> USE HandlerStarts
<1>1. ASSUME NEW j \in Jobs, Register(c, j) PROVE JInv'
  BY <1>1, HandlerTypes DEF Register, Handler, store, trie, files, bounds, past, CPC
<1>2. CASE Persist(c)
  BY <1>2, HandlerTypes DEF Persist, Handler, trie, files, bounds, past, CPC
<1>3. CASE Start(c)
  <2>1. /\ cpc[c] = "start" /\ target[c] \in Jobs /\ wpc[target[c]] = "unborn"
        /\ wpc' = [wpc EXCEPT ![target[c]] = "loop"]
        /\ target' = [target EXCEPT ![c] = Nobody]
        /\ Handler(c, "start", "ready")
    BY <1>3 DEF Start, Handler
  <2>2. /\ wpc' \in [Jobs -> WPC] /\ target' \in [Clients -> Jobs \cup {Nobody}]
        /\ \A j \in Jobs : wpc'[j] = wpc[j] \/ (wpc[j] = "unborn" /\ wpc'[j] = "loop"
                                              /\ j = target[c])
        /\ \A d \in Clients : d # c => target'[d] = target[d]
    BY <2>1 DEF WPC
  <2>3. UNCHANGED <<registry, jobs, history, visited, metadata, postings, dirty, shards,
                    unremoved, aborting, stopped, joining, deletes, resets, gone, wiped>>
    BY <1>3 DEF Start, store, trie, files, bounds, past
  <2> QED
    BY <2>1, <2>2, <2>3, HandlerTypes DEF CPC
<1>4. ASSUME NEW j \in Jobs, StopJob(c, j) PROVE JInv'
  BY <1>4, HandlerTypes DEF StopJob, Handler, store, trie, files, bounds, past, CPC
<1> QED
  BY <1>1, <1>2, <1>3, <1>4

LEMMA DeleteTypes == ASSUME JInv, NEW c \in Clients, Delete(c) PROVE JInv'
<1> USE HandlerStarts
<1>1. ASSUME NEW j \in Jobs, Drop(c, j) PROVE JInv'
  <2>1. /\ Handler(c, "ready", "stop") /\ deletes' = deletes + 1
        /\ registry' = registry \ {j} /\ target' = [target EXCEPT ![c] = j]
        /\ joining' = [joining EXCEPT ![c] = {j}]
        /\ UNCHANGED <<jobs, history, visited, metadata, postings, dirty, shards,
                       unremoved, aborting, wpc, stopped, resets, gone, wiped>>
    BY <1>1 DEF Drop, store, trie, files, past
  <2>2. /\ registry' \subseteq Jobs /\ deletes' \in Nat
        /\ target' \in [Clients -> Jobs \cup {Nobody}] /\ target'[c] \in Jobs
        /\ \A d \in Clients : d # c => target'[d] = target[d]
        /\ joining' \in [Clients -> SUBSET Jobs]
    BY <2>1
  <2> QED
    BY <2>1, <2>2, HandlerTypes DEF CPC
<1>2. ASSUME NEW j \in Jobs, DropUnknown(c, j) PROVE JInv'
  <2>1. PICK to \in {"purgeRecord", "ready"} :
            /\ Handler(c, "ready", to)
            /\ to = "purgeRecord" => target' = [target EXCEPT ![c] = j]
            /\ to = "ready" => target' = target
    BY <1>2 DEF DropUnknown
  <2>2. /\ deletes' = deletes + 1
        /\ UNCHANGED <<registry, jobs, history, visited, metadata, postings, dirty, shards,
                       unremoved, aborting, wpc, stopped, joining, resets, gone, wiped>>
    BY <1>2 DEF DropUnknown, store, trie, files, past
  <2>3. /\ deletes' \in Nat /\ target' \in [Clients -> Jobs \cup {Nobody}]
        /\ to = "purgeRecord" => target'[c] \in Jobs
        /\ \A d \in Clients : d # c => target'[d] = target[d]
    BY <2>1, <2>2
  <2>4. CASE to = "purgeRecord"
    <3>1. Handler(c, "ready", "purgeRecord") /\ target'[c] \in Jobs
      BY <2>1, <2>3, <2>4
    <3> QED
      BY <2>2, <2>3, <3>1, HandlerTypes DEF CPC
  <2>5. CASE to = "ready"
    <3>1. Handler(c, "ready", "ready")
      BY <2>1, <2>5
    <3> QED
      BY <2>2, <2>3, <3>1, HandlerTypes DEF CPC
  <2> QED
    BY <2>4, <2>5
<1>3. CASE StopDropped(c)
  BY <1>3, HandlerTypes DEF StopDropped, Handler, store, trie, files, bounds, past, CPC
<1>4. CASE JoinDropped(c)
  BY <1>4, HandlerTypes DEF JoinDropped, Handler, store, trie, files, bounds, past, CPC
<1>5. CASE ArchiveDeleted(c)
  <2>1. target[c] \in Jobs /\ Archive(target[c], "deleted")
    BY <1>5 DEF ArchiveDeleted, Handler
  <2>2. Rows'
    BY <2>1, ArchiveRows
  <2> QED
    BY <1>5, <2>1, <2>2, HandlerTypes DEF ArchiveDeleted, Handler, trie, files, bounds, past, CPC
<1>6. CASE PurgeRecord(c)
  BY <1>6, HandlerTypes DEF PurgeRecord, Handler, trie, files, bounds, past, CPC
<1>7. CASE PurgeTrie(c)
  <2>1. postings' \in Index /\ dirty' \in BOOLEAN
    BY <1>7 DEF PurgeTrie, Without, Index
  <2> QED
    BY <1>7, <2>1, HandlerTypes DEF PurgeTrie, Handler, store, files, bounds, past, CPC
<1>8. CASE PurgeStore(c)
  <2>1. metadata' \in Index /\ visited' \subseteq Urls
    BY <1>8 DEF PurgeStore, PurgedVisited, Without, Index
  <2>2. gone' \subseteq Jobs
    BY <1>8 DEF PurgeStore
  <2> QED
    BY <1>8, <2>1, <2>2, HandlerTypes DEF PurgeStore, Handler, trie, files, bounds, CPC
<1> QED
  BY <1>1, <1>2, <1>3, <1>4, <1>5, <1>6, <1>7, <1>8 DEF Delete

LEMMA ResetTypes == ASSUME JInv, NEW c \in Clients, Reset(c) PROVE JInv'
<1> USE HandlerStarts, JobConstants
<1>1. CASE Abort(c)
  <2>1. /\ Handler(c, "ready", "stopAll") /\ resets' = resets + 1 /\ aborting' = TRUE
        /\ UNCHANGED <<registry, jobs, history, visited, metadata, postings, dirty, shards,
                       unremoved, wpc, stopped, target, joining, deletes, gone, wiped>>
    BY <1>1 DEF Abort, store, trie, files, past
  <2>2. resets' \in Nat /\ aborting' \in BOOLEAN
    BY <2>1
  <2> QED
    BY <2>1, <2>2, HandlerTypes DEF CPC
<1>2. CASE StopAll(c)
  BY <1>2, HandlerTypes DEF StopAll, Handler, store, trie, files, bounds, past, CPC
<1>3. CASE ListAll(c)
  BY <1>3, HandlerTypes DEF ListAll, Handler, store, trie, files, bounds, past, CPC
<1>4. CASE JoinAll(c)
  BY <1>4, HandlerTypes DEF JoinAll, Handler, store, trie, files, bounds, past, CPC
<1>5. CASE ClearRegistry(c)
  BY <1>5, HandlerTypes DEF ClearRegistry, Handler, store, trie, files, bounds, past, CPC
<1>6. CASE ClearTrie(c)
  BY <1>6, HandlerTypes DEF ClearTrie, Handler, store, files, bounds, past, CPC
<1>7. CASE ClearStore(c)
  <2>1. Rows'
    BY <1>7, HistoryCapAssumption DEF ClearStore, Rows, OneRowPerJob
  <2> QED
    BY <1>7, <2>1, HandlerTypes DEF ClearStore, Handler, trie, files, bounds, past, CPC
<1>8. CASE PurgeShards(c)
  <2>1. shards' \in Index /\ unremoved' \subseteq Urls
    BY <1>8, PutShardsFacts DEF PurgeShards
  <2> QED
    BY <1>8, <2>1, HandlerTypes DEF PurgeShards, Handler, store, trie, bounds, past, CPC
<1>9. CASE Allow(c)
  BY <1>9, HandlerTypes DEF Allow, Handler, store, trie, files, bounds, past, CPC
<1> QED
  BY <1>1, <1>2, <1>3, <1>4, <1>5, <1>6, <1>7, <1>8, <1>9 DEF Reset

LEMMA JInvStarts == Init => JInv
<1> SUFFICES ASSUME Init PROVE JInv
  OBVIOUS
<1>1. Rows
  BY HistoryCapAssumption DEF Init, Rows, OneRowPerJob
<1>2. Placed
  BY DEF Init, Placed
<1>3. TypeOK
  BY <1>1, JobConstants DEF Init, TypeOK, Rows, Row
<1> QED
  BY <1>1, <1>2, <1>3 DEF JInv

LEMMA JInvSteps == ASSUME JInv, [Next]_vars PROVE JInv'
<1>1. ASSUME NEW j \in Jobs, Worker(j) PROVE JInv'
  BY <1>1, WorkerTypes
<1>2. ASSUME NEW c \in Clients, Api(c) PROVE JInv'
  BY <1>2, CreateTypes, DeleteTypes, ResetTypes DEF Api
<1>3. CASE UNCHANGED vars
  BY <1>3 DEF vars, store, trie, files, worker, client, bounds, past, JInv, TypeOK, Placed, Rows
<1> QED
  BY <1>1, <1>2, <1>3 DEF Next

\* Types, the place of every handler and worker, and the history's rows hold.
THEOREM JInvHolds == Spec => []JInv
BY JInvStarts, JInvSteps, PTL DEF Spec

\* Whatever the workers and the API threads do, in whatever order: every registry,
\* index, counter and program counter keeps its type, and a worker that has passed
\* its finalisation carries the label the archive needs.
THEOREM JobsTypeCorrect == Spec => []TypeOK
<1>1. JInv => TypeOK
  BY DEF JInv
<1> QED
  BY <1>1, JInvHolds, PTL

\* The job history is a ring of one row per job, although a worker and a delete may
\* both archive the same job, in either order, and the oldest rows are cut at the cap.
THEOREM HistoryStaysRing == Spec => []HistoryIsRing
<1>1. ASSUME JInv PROVE HistoryIsRing
  <2>1. Rows
    BY <1>1 DEF JInv
  <2>2. ASSUME NEW j \in Jobs PROVE Cardinality(RowsOf(j, history)) <= 1
    <3>1. CASE RowsOf(j, history) = {}
      BY <3>1, FS_EmptySet
    <3>2. ASSUME NEW k \in RowsOf(j, history) PROVE RowsOf(j, history) = {k}
      BY <2>1, <3>2 DEF Rows, OneRowPerJob, RowsOf
    <3>3. ASSUME NEW k \in RowsOf(j, history)
          PROVE  Cardinality(RowsOf(j, history)) = 1
      BY <3>2, <3>3, FS_Singleton
    <3> QED
      BY <3>1, <3>3
  <2> QED
    BY <2>1, <2>2 DEF HistoryIsRing, Rows
<1> QED
  BY <1>1, JInvHolds, PTL

-----------------------------------------------------------------------------
(* The row a finished or deleted job leaves *)

\* Only its archive takes a worker out of "archive", ...
LEMMA LeavesArchiveByArchiving ==
    ASSUME JInv, Next, NEW j \in Jobs, wpc[j] = "archive", wpc'[j] # "archive"
    PROVE  ArchiveFinal(j)
<1>1. PICK k \in Jobs : Worker(k)
  BY DEF Next, Api, Delete, Reset, Register, Persist, Start, StopJob, Drop, DropUnknown,
     StopDropped, JoinDropped, ArchiveDeleted, PurgeRecord, PurgeTrie, PurgeStore, Abort,
     StopAll, ListAll, JoinAll, ClearRegistry, ClearTrie, ClearStore, PurgeShards, Allow,
     JInv, TypeOK, Placed, Handler
<1>2. k = j
  BY <1>1 DEF Worker, SkipVisited, Fetch, FetchFails, StoreMetadata, IndexTokens,
     MarkVisited, FlushGate, Walk, WriteShards, LeaveLoop, FinalizeGate, ArchiveFinal, At,
     JInv, TypeOK
<1> QED
  BY <1>1, <1>2 DEF Worker, SkipVisited, Fetch, FetchFails, StoreMetadata, IndexTokens,
     MarkVisited, FlushGate, Walk, WriteShards, LeaveLoop, FinalizeGate, At, AfterFlush

\* ... and only its archive takes a delete out of "archive".
LEMMA LeavesArchiveByDeleting ==
    ASSUME JInv, Next, NEW c \in Clients, cpc[c] = "archive", cpc'[c] # "archive"
    PROVE  ArchiveDeleted(c)
<1>1. PICK d \in Clients : Api(d)
  BY DEF Next, Worker, SkipVisited, Fetch, FetchFails, StoreMetadata, IndexTokens,
     MarkVisited, FlushGate, Walk, WriteShards, LeaveLoop, FinalizeGate, ArchiveFinal, At,
     client
<1>2. ArchiveDeleted(d) \/ \E from \in CPC \ {"archive"}, to \in CPC : Handler(d, from, to)
  BY <1>1 DEF Api, Delete, Reset, Register, Persist, Start, StopJob, Drop, DropUnknown,
     StopDropped, JoinDropped, PurgeRecord, PurgeTrie, PurgeStore, Abort,
     StopAll, ListAll, JoinAll, ClearRegistry, ClearTrie, ClearStore, PurgeShards, Allow,
     CPC
<1>3. d = c
  BY <1>2 DEF ArchiveDeleted, Handler, JInv, TypeOK
<1> QED
  BY <1>2, <1>3 DEF Handler

\* A full history does not lose what was just written to it: the row of a worker that
\* ends, or of the delete that overrides it, is in the history the archive leaves.
THEOREM ArchiveKeepsItsRow == Spec => ArchivedRowIsKept
<1> DEFINE Kept ==
      /\ \A j \in Jobs : wpc[j] = "archive" /\ wpc'[j] # "archive" =>
             [job |-> j, status |-> ending[j]] \in {history'[i] : i \in DOMAIN history'}
      /\ \A c \in Clients : cpc[c] = "archive" /\ cpc'[c] # "archive" =>
             [job |-> target[c], status |-> "deleted"] \in {history'[i] : i \in DOMAIN history'}
<1>1. ASSUME JInv, [Next]_vars PROVE [Kept]_vars
  <2> SUFFICES ASSUME Next PROVE Kept
    BY <1>1
  <2>1. ASSUME NEW j \in Jobs, wpc[j] = "archive", wpc'[j] # "archive"
        PROVE  [job |-> j, status |-> ending[j]] \in {history'[i] : i \in DOMAIN history'}
    <3>1. ArchiveFinal(j)
      BY <1>1, <2>1, LeavesArchiveByArchiving
    <3>2. ending[j] \in {"stopped", "completed"}
      BY <1>1, <2>1 DEF JInv, TypeOK
    <3> QED
      BY <1>1, <3>1, <3>2, ArchiveRows DEF ArchiveFinal, JInv
  <2>2. ASSUME NEW c \in Clients, cpc[c] = "archive", cpc'[c] # "archive"
        PROVE  [job |-> target[c], status |-> "deleted"]
                   \in {history'[i] : i \in DOMAIN history'}
    <3>1. ArchiveDeleted(c)
      BY <1>1, <2>2, LeavesArchiveByDeleting
    <3>2. target[c] \in Jobs
      BY <1>1, <2>2 DEF JInv, Placed
    <3> QED
      BY <1>1, <3>1, <3>2, ArchiveRows DEF ArchiveDeleted, JInv
  <2> QED
    BY <2>1, <2>2
<1> QED
  BY <1>1, JInvHolds, PTL DEF Spec, ArchivedRowIsKept

-----------------------------------------------------------------------------
(* The registry and the threads *)

Live(j) == wpc[j] \notin {"unborn", "dead"}
Finished(j) == stopped[j] /\ wpc[j] \notin {"fetching", "index", "mark"}
Created(j, c) == cpc[c] \in {"persist", "start"} /\ target[c] = j

\* What a worker's step leaves alone, and where it may go: a stopped one fetches nothing.
LEMMA WorkerMoves ==
    ASSUME JInv, NEW j \in Jobs, Worker(j)
    PROVE  /\ Live(j) /\ wpc'[j] # "unborn"
           /\ \A k \in Jobs : k # j => wpc'[k] = wpc[k]
           /\ Finished(j) => Finished(j)'
           /\ UNCHANGED <<registry, jobs, aborting, stopped, cpc, target, joining, deletes,
                          resets, gone, wiped>>
<1>1. \E from \in WPC \ {"unborn", "dead"}, to \in WPC \ {"unborn"} :
          /\ At(j, from, to)
          /\ from \notin {"fetching", "index", "mark"} /\ stopped[j] =>
                 to \notin {"fetching", "index", "mark"}
  BY DEF Worker, SkipVisited, Fetch, FetchFails, StoreMetadata, IndexTokens, MarkVisited,
     FlushGate, Walk, WriteShards, LeaveLoop, FinalizeGate, ArchiveFinal, AfterFlush, At, WPC
<1> QED
  BY <1>1 DEF At, Live, Finished, JInv, TypeOK, client, bounds, past

\* Whoever calls: a handler's step takes its own thread on, and no other.
LEMMA HandlerMoves ==
    ASSUME JInv, NEW c \in Clients, NEW from, NEW to, Handler(c, from, to)
    PROVE  /\ cpc[c] = from /\ cpc'[c] = to /\ \A d \in Clients : d # c => cpc'[d] = cpc[d]
           /\ UNCHANGED <<page, done, walked, ending>>
BY DEF Handler, JInv, TypeOK

\* The API is used by one caller at a time.
OneClient == \A c, d \in Clients : c = d

\* Every job that was created is in the registry, told to stop, or about to be: a reset
\* stops all it finds registered, and forgets none that came later, there being none.
Registered ==
    /\ \A j \in Jobs : (wpc[j] # "unborn" \/ \E c \in Clients : Created(j, c)) =>
           \/ j \in registry \/ stopped[j]
           \/ \E c \in Clients : cpc[c] = "stop" /\ target[c] = j
    /\ \A c \in Clients : cpc[c] \in {"listAll", "joinAll", "clearRegistry"} =>
           \A j \in registry : stopped[j]
    /\ \A c \in Clients : MaxResets = 0 =>
           cpc[c] \notin {"stopAll", "listAll", "joinAll", "clearRegistry"}

LEMMA RegisteredSteps ==
    ASSUME MaxResets = 0 \/ OneClient, JInv, Registered, [Next]_vars
    PROVE  Registered'
<1> USE DEF Registered, Created
<1>1. ASSUME NEW j \in Jobs, Worker(j) PROVE Registered'
  BY <1>1, WorkerMoves DEF Live
<1>2. ASSUME NEW c \in Clients, NEW j \in Jobs, Register(c, j) PROVE Registered'
  <2>1. Handler(c, "ready", "persist") /\ target' = [target EXCEPT ![c] = j]
        /\ registry' = registry \cup {j} /\ UNCHANGED <<wpc, stopped>>
    BY <1>2 DEF Register
  <2>2. target'[c] = j /\ \A d \in Clients : d # c => target'[d] = target[d]
    BY <2>1 DEF JInv, TypeOK
  <2>3. /\ cpc[c] = "ready" /\ cpc'[c] = "persist"
        /\ \A d \in Clients : d # c => cpc'[d] = cpc[d]
    BY <2>1, HandlerMoves
  <2>4. \A d \in Clients : cpc'[d] \notin {"listAll", "joinAll", "clearRegistry"}
    BY <2>3 DEF OneClient
  <2> QED
    BY <2>1, <2>2, <2>3, <2>4
<1>3. ASSUME NEW c \in Clients, Persist(c) PROVE Registered'
  BY <1>3, HandlerMoves DEF Persist
<1>4. ASSUME NEW c \in Clients, Start(c) PROVE Registered'
  <2>1. Handler(c, "start", "ready") /\ target' = [target EXCEPT ![c] = Nobody]
        /\ wpc' = [wpc EXCEPT ![target[c]] = "loop"] /\ UNCHANGED <<registry, stopped>>
        /\ target[c] \in Jobs
    BY <1>4 DEF Start, Handler, JInv, Placed
  <2>2. \A j \in Jobs : wpc'[j] = wpc[j] \/ j = target[c]
    BY <2>1 DEF JInv, TypeOK
  <2>3. \A d \in Clients : d # c => target'[d] = target[d]
    BY <2>1 DEF JInv, TypeOK
  <2> QED
    BY <2>1, <2>2, <2>3, HandlerMoves
<1>5. ASSUME NEW c \in Clients, NEW j \in Jobs, StopJob(c, j) PROVE Registered'
  <2>1. Handler(c, "ready", "ready") /\ stopped' = [stopped EXCEPT ![j] = TRUE]
        /\ UNCHANGED <<registry, wpc, target>>
    BY <1>5 DEF StopJob
  <2>2. \A k \in Jobs : stopped[k] => stopped'[k]
    BY <2>1 DEF JInv, TypeOK
  <2>3. registry \subseteq Jobs
    BY DEF JInv, TypeOK
  <2> QED
    BY <2>1, <2>2, <2>3, HandlerMoves
<1>6. ASSUME NEW c \in Clients, NEW j \in Jobs, Drop(c, j) PROVE Registered'
  <2>1. Handler(c, "ready", "stop") /\ target' = [target EXCEPT ![c] = j]
        /\ registry' = registry \ {j} /\ UNCHANGED <<wpc, stopped>>
    BY <1>6 DEF Drop, worker
  <2>2. target'[c] = j /\ \A d \in Clients : d # c => target'[d] = target[d]
    BY <2>1 DEF JInv, TypeOK
  <2> QED
    BY <2>1, <2>2, HandlerMoves
<1>7. ASSUME NEW c \in Clients, NEW j \in Jobs, DropUnknown(c, j) PROVE Registered'
  <2>1. PICK to \in {"purgeRecord", "ready"} : Handler(c, "ready", to)
    BY <1>7 DEF DropUnknown
  <2>2. UNCHANGED <<registry, wpc, stopped>>
        /\ \A d \in Clients : d # c => target'[d] = target[d]
    BY <1>7 DEF DropUnknown, JInv, TypeOK
  <2> QED
    BY <2>1, <2>2, HandlerMoves
<1>8. ASSUME NEW c \in Clients, StopDropped(c) PROVE Registered'
  <2>1. Handler(c, "stop", "join") /\ stopped' = [stopped EXCEPT ![target[c]] = TRUE]
        /\ UNCHANGED <<registry, wpc, target>> /\ target[c] \in Jobs
    BY <1>8 DEF StopDropped, Handler, JInv, Placed
  <2>2. stopped'[target[c]] /\ \A k \in Jobs : stopped[k] => stopped'[k]
    BY <2>1 DEF JInv, TypeOK
  <2>3. registry \subseteq Jobs
    BY DEF JInv, TypeOK
  <2> QED
    BY <2>1, <2>2, <2>3, HandlerMoves
<1>9. ASSUME NEW c \in Clients,
             JoinDropped(c) \/ ArchiveDeleted(c) \/ PurgeRecord(c) \/ PurgeTrie(c)
      PROVE  Registered'
  BY <1>9, HandlerMoves DEF JoinDropped, ArchiveDeleted, PurgeRecord, PurgeTrie
<1>10. ASSUME NEW c \in Clients, PurgeStore(c) PROVE Registered'
  <2>1. Handler(c, "purgeStore", "ready") /\ UNCHANGED <<registry, wpc, stopped>>
        /\ \A d \in Clients : d # c => target'[d] = target[d]
    BY <1>10 DEF PurgeStore, JInv, TypeOK
  <2> QED
    BY <2>1, HandlerMoves
<1>11. ASSUME NEW c \in Clients, Abort(c) PROVE Registered'
  <2>1. Handler(c, "ready", "stopAll") /\ UNCHANGED <<registry, wpc, stopped, target>>
        /\ resets < MaxResets /\ resets \in Nat
    BY <1>11 DEF Abort, JInv, TypeOK
  <2>2. MaxResets # 0
    BY <2>1, JobsBoundsAssumption
  <2> QED
    BY <2>1, <2>2, HandlerMoves
<1>12. ASSUME NEW c \in Clients, StopAll(c) PROVE Registered'
  <2>1. Handler(c, "stopAll", "listAll") /\ UNCHANGED <<registry, wpc, target>>
        /\ \A j \in Jobs : stopped'[j] = (stopped[j] \/ j \in registry)
    BY <1>12 DEF StopAll
  <2>2. registry \subseteq Jobs /\ \A j \in registry : stopped'[j]
    BY <2>1 DEF JInv, TypeOK
  <2>3. \A j \in Jobs : stopped[j] => stopped'[j]
    BY <2>1
  <2>4. /\ cpc[c] = "stopAll" /\ cpc'[c] = "listAll"
        /\ \A d \in Clients : d # c => cpc'[d] = cpc[d]
    BY <2>1, HandlerMoves
  <2> QED
    BY <2>1, <2>2, <2>3, <2>4
<1>13. ASSUME NEW c \in Clients, ListAll(c) \/ JoinAll(c) PROVE Registered'
  BY <1>13, HandlerMoves DEF ListAll, JoinAll
<1>14. ASSUME NEW c \in Clients, ClearRegistry(c) PROVE Registered'
  <2>1. Handler(c, "clearRegistry", "clearTrie") /\ UNCHANGED <<wpc, target, stopped>>
        /\ registry' = {} /\ MaxResets # 0
    BY <1>14, HandlerMoves DEF ClearRegistry
  <2> QED
    BY <2>1, HandlerMoves DEF OneClient
<1>15. ASSUME NEW c \in Clients,
              ClearTrie(c) \/ ClearStore(c) \/ PurgeShards(c) \/ Allow(c)
       PROVE  Registered'
  BY <1>15, HandlerMoves DEF ClearTrie, ClearStore, PurgeShards, Allow
<1>16. CASE UNCHANGED vars
  BY <1>16 DEF vars, worker, client
<1> QED
  BY <1>1, <1>2, <1>3, <1>4, <1>5, <1>6, <1>7, <1>8, <1>9, <1>10, <1>11, <1>12, <1>13,
     <1>14, <1>15, <1>16
  DEF Next, Api, Delete, Reset

\* A worker no one has told to stop can be paused, stopped and deleted, whatever creates
\* and deletes interleave; with resets too, if the API has one caller at a time.
THEOREM LiveStaysRegistered ==
    ASSUME MaxResets = 0 \/ OneClient
    PROVE  Spec => []LiveIsRegistered
<1>1. Init => Registered
  BY DEF Init, Registered, Created
<1>2. JInv /\ Registered => LiveIsRegistered
  BY DEF Registered, LiveIsRegistered, Quiet
<1>3. JInv /\ Registered /\ [Next]_vars => Registered'
  BY RegisteredSteps
<1> QED
  BY <1>1, <1>2, <1>3, JInvHolds, PTL DEF Spec

-----------------------------------------------------------------------------
(* A delete that has waited for its worker *)

OwnOrigins == \A j, k \in Jobs : Seed[j] = Seed[k] => j = k
Clear(index, j) == \A u \in Urls : index[u] # Seed[j]

\* Only a worker that is not finished writes to the index or the metadata.
LEMMA WorkerWrites ==
    ASSUME JInv, NEW j \in Jobs, Worker(j)
    PROVE  /\ postings' # postings =>
                  /\ wpc[j] = "index" /\ page[j] \in Urls
                  /\ postings' = [postings EXCEPT ![page[j]] = IF @ = Nobody THEN Seed[j] ELSE @]
           /\ metadata' # metadata =>
                  /\ wpc[j] = "fetching" /\ page[j] \in Urls
                  /\ metadata' = [metadata EXCEPT ![page[j]] = Seed[j]]
BY DEF Worker, SkipVisited, Fetch, FetchFails, StoreMetadata, IndexTokens, MarkVisited,
   FlushGate, Walk, WriteShards, LeaveLoop, FinalizeGate, ArchiveFinal, At, trie, files,
   JInv, Placed

\* A purged origin stays purged while its job's worker is at no page.
LEMMA IdleStaysClear ==
    ASSUME OwnOrigins, JInv, NEW k \in Jobs, Worker(k), NEW j \in Jobs,
           wpc[j] \notin {"fetching", "index", "mark"}
    PROVE  /\ Clear(postings, j) => Clear(postings, j)'
           /\ Clear(metadata, j) => Clear(metadata, j)'
<1>1. ASSUME postings' # postings, Clear(postings, j) PROVE Clear(postings, j)'
  <2>1. k # j /\ Seed[k] # Seed[j]
    BY <1>1, WorkerWrites DEF OwnOrigins
  <2> QED
    BY <1>1, <2>1, WorkerWrites DEF Clear, JInv, TypeOK, Index
<1>2. ASSUME metadata' # metadata, Clear(metadata, j) PROVE Clear(metadata, j)'
  <2>1. k # j /\ Seed[k] # Seed[j]
    BY <1>2, WorkerWrites DEF OwnOrigins
  <2> QED
    BY <1>2, <2>1, WorkerWrites DEF Clear, JInv, TypeOK, Index
<1> QED
  BY <1>1, <1>2 DEF Clear

\* What is finished stays finished, and what has been purged of it stays purged.
LEMMA FinishedKeepsClear ==
    ASSUME OwnOrigins, JInv, NEW k \in Jobs, Worker(k), NEW j \in Jobs, Finished(j)
    PROVE  /\ Finished(j)'
           /\ Clear(postings, j) => Clear(postings, j)'
           /\ Clear(metadata, j) => Clear(metadata, j)'
<1>1. Finished(j)'
  BY WorkerMoves DEF Finished
<1> QED
  BY <1>1, IdleStaysClear DEF Finished

\* No handler starts a finished worker or writes to the index.
LEMMA ApiKeepsClear ==
    ASSUME JInv, NEW c \in Clients, Api(c), NEW j \in Jobs
    PROVE  /\ Finished(j) => Finished(j)'
           /\ stopped[j] => stopped'[j]
           /\ Clear(postings, j) => Clear(postings, j)'
           /\ Clear(metadata, j) => Clear(metadata, j)'
<1>1. /\ \A k \in Jobs : stopped[k] => stopped'[k]
      /\ \A k \in Jobs : wpc'[k] = wpc[k] \/ wpc'[k] = "loop"
  BY DEF Api, Delete, Reset, Register, Persist, Start, StopJob, Drop, DropUnknown,
     StopDropped, JoinDropped, ArchiveDeleted, PurgeRecord, PurgeTrie, PurgeStore, Abort,
     StopAll, ListAll, JoinAll, ClearRegistry, ClearTrie, ClearStore, PurgeShards, Allow,
     worker, JInv, TypeOK
<1>2. \A u \in Urls : postings'[u] = postings[u] \/ postings'[u] = Nobody
  BY DEF Api, Delete, Reset, Register, Persist, Start, StopJob, Drop, DropUnknown,
     StopDropped, JoinDropped, ArchiveDeleted, PurgeRecord, PurgeTrie, PurgeStore, Abort,
     StopAll, ListAll, JoinAll, ClearRegistry, ClearTrie, ClearStore, PurgeShards, Allow,
     trie, files, Without, NoPostings
<1>3. \A u \in Urls : metadata'[u] = metadata[u] \/ metadata'[u] = Nobody
  BY DEF Api, Delete, Reset, Register, Persist, Start, StopJob, Drop, DropUnknown,
     StopDropped, JoinDropped, ArchiveDeleted, PurgeRecord, PurgeTrie, PurgeStore, Abort,
     StopAll, ListAll, JoinAll, ClearRegistry, ClearTrie, ClearStore, PurgeShards, Allow,
     store, Without, NoPostings
<1>4. Seed[j] # Nobody
  BY JobConstants, NobodyAssumption
<1> QED
  BY <1>1, <1>2, <1>3, <1>4 DEF Finished, Clear

Purging == {"archive", "purgeRecord", "purgeTrie", "purgeStore"}

\* From its join on, the job a delete purges is finished; from its purge on, there is
\* nothing of it left in the index.
Traceless ==
    /\ \A c \in Clients :
           /\ cpc[c] \in Purging => \A j \in joining[c] : j = target[c] /\ Finished(j)
           /\ cpc[c] \in {"stop", "join"} => joining[c] = {target[c]}
           /\ cpc[c] = "join" => stopped[target[c]]
           /\ cpc[c] \notin Purging \cup {"stop", "join", "joinAll"} => joining[c] = {}
           /\ cpc[c] = "purgeStore" => \A j \in joining[c] : Clear(postings, j)
    /\ \A j \in gone : Finished(j) /\ Clear(postings, j) /\ Clear(metadata, j)

LEMMA TracelessSteps ==
    ASSUME OwnOrigins, JoinTimesOut = FALSE, JInv, Traceless, [Next]_vars
    PROVE  Traceless'
<1> USE DEF Traceless, Purging
<1>1. ASSUME NEW j \in Jobs, Worker(j) PROVE Traceless'
  <2>1. UNCHANGED <<cpc, target, joining, gone, stopped>>
    BY <1>1, WorkerMoves
  <2>2. gone \subseteq Jobs /\ \A c \in Clients : joining[c] \subseteq Jobs
    BY DEF JInv, TypeOK
  <2> QED
    BY <1>1, <2>1, <2>2, FinishedKeepsClear
<1>2. ASSUME NEW c \in Clients, Api(c) PROVE Traceless'
  <2>1. \A j \in Jobs : /\ Finished(j) => Finished(j)'
                        /\ stopped[j] => stopped'[j]
                        /\ Clear(postings, j) => Clear(postings, j)'
                        /\ Clear(metadata, j) => Clear(metadata, j)'
    BY <1>2, ApiKeepsClear
  <2>2. gone \subseteq Jobs /\ \A d \in Clients : joining[d] \subseteq Jobs
    BY DEF JInv, TypeOK
  <2>3. \A d \in Clients : cpc[d] = "join" => target[d] \in Jobs
    BY DEF JInv, Placed
  <2> USE <2>1, <2>2, <2>3
  <2>4. ASSUME NEW j \in Jobs, Register(c, j) \/ StopJob(c, j) PROVE Traceless'
    <3>1. \E to \in {"ready", "persist"} : Handler(c, "ready", to)
      BY <2>4 DEF Register, StopJob
    <3>2. UNCHANGED <<joining, gone>> /\ \A d \in Clients : d # c => target'[d] = target[d]
      BY <2>4 DEF Register, StopJob, past, JInv, TypeOK
    <3> QED
      BY <3>1, <3>2, HandlerMoves
  <2>5. CASE Persist(c) \/ Start(c)
    <3>1. \E from \in {"persist", "start"}, to \in {"start", "ready"} : Handler(c, from, to)
      BY <2>5 DEF Persist, Start
    <3>2. UNCHANGED <<joining, gone>> /\ \A d \in Clients : d # c => target'[d] = target[d]
      BY <2>5 DEF Persist, Start, past, JInv, TypeOK
    <3> QED
      BY <3>1, <3>2, HandlerMoves
  <2>6. ASSUME NEW j \in Jobs, Drop(c, j) PROVE Traceless'
    <3>1. /\ Handler(c, "ready", "stop") /\ gone' = gone
          /\ target'[c] = j /\ joining'[c] = {j}
          /\ \A d \in Clients : d # c => target'[d] = target[d] /\ joining'[d] = joining[d]
      BY <2>6 DEF Drop, past, JInv, TypeOK
    <3> QED
      BY <3>1, HandlerMoves
  <2>7. ASSUME NEW j \in Jobs, DropUnknown(c, j) PROVE Traceless'
    <3>1. PICK to \in {"purgeRecord", "ready"} : Handler(c, "ready", to)
      BY <2>7 DEF DropUnknown
    <3>2. UNCHANGED <<joining, gone>> /\ \A d \in Clients : d # c => target'[d] = target[d]
      BY <2>7 DEF DropUnknown, past, JInv, TypeOK
    <3> QED
      BY <3>1, <3>2, HandlerMoves
  <2>8. CASE StopDropped(c)
    <3>1. /\ Handler(c, "stop", "join") /\ UNCHANGED <<target, joining, gone>>
          /\ target[c] \in Jobs /\ stopped' = [stopped EXCEPT ![target[c]] = TRUE]
      BY <2>8 DEF StopDropped, Handler, past, JInv, Placed
    <3>2. stopped'[target[c]]
      BY <3>1 DEF JInv, TypeOK
    <3> QED
      BY <3>1, <3>2, HandlerMoves
  <2>9. CASE JoinDropped(c)
    <3>1. /\ Handler(c, "join", "archive") /\ UNCHANGED <<target, joining, gone, wpc, stopped>>
          /\ wpc[target[c]] \in {"dead", "unborn"}
      BY <2>9 DEF JoinDropped, Joined, past
    <3>2. Finished(target[c])'
      BY <3>1, HandlerMoves DEF Finished
    <3> QED
      BY <3>1, <3>2, HandlerMoves
  <2>10. CASE ArchiveDeleted(c) \/ PurgeRecord(c)
    <3>1. \E from \in {"archive", "purgeRecord"}, to \in {"purgeRecord", "purgeTrie"} :
              Handler(c, from, to)
      BY <2>10 DEF ArchiveDeleted, PurgeRecord
    <3>2. UNCHANGED <<target, joining, gone>>
      BY <2>10 DEF ArchiveDeleted, PurgeRecord, past
    <3> QED
      BY <3>1, <3>2, HandlerMoves
  <2>11. CASE PurgeTrie(c)
    <3>1. /\ Handler(c, "purgeTrie", "purgeStore") /\ UNCHANGED <<target, joining, gone>>
          /\ target[c] \in Jobs
          /\ postings' = Without(postings, OfOrigin(postings, Seed[target[c]]))
      BY <2>11 DEF PurgeTrie, Handler, past, JInv, Placed
    <3>2. Clear(postings, target[c])'
      BY <3>1, JobConstants, NobodyAssumption DEF Clear, Without, OfOrigin
    <3> QED
      BY <3>1, <3>2, HandlerMoves
  <2>12. CASE PurgeStore(c)
    <3>1. /\ Handler(c, "purgeStore", "ready") /\ gone' = gone \cup joining[c]
          /\ target[c] \in Jobs
          /\ metadata' = Without(metadata, OfOrigin(metadata, Seed[target[c]]))
          /\ joining' = [joining EXCEPT ![c] = {}]
          /\ \A d \in Clients : d # c => target'[d] = target[d]
      BY <2>12 DEF PurgeStore, Handler, JInv, TypeOK, Placed
    <3>2. joining'[c] = {} /\ \A d \in Clients : d # c => joining'[d] = joining[d]
      BY <3>1 DEF JInv, TypeOK
    <3>3. \A u \in Urls : metadata'[u] # Seed[target[c]]
      BY <3>1, JobConstants, NobodyAssumption DEF Without, OfOrigin
    <3>4. \A j \in joining[c] : j = target[c] /\ Finished(j) /\ Clear(postings, j)
      BY <3>1, HandlerMoves
    <3>5. \A j \in gone' : Finished(j)' /\ Clear(postings, j)' /\ Clear(metadata, j)'
      BY <3>1, <3>3, <3>4 DEF Clear
    <3> QED
      BY <3>1, <3>2, <3>5, HandlerMoves
  <2>13. CASE Abort(c) \/ StopAll(c) \/ ListAll(c) \/ JoinAll(c)
    <3>1. \/ \E from \in {"ready", "stopAll"}, to \in {"stopAll", "listAll"} :
                 Handler(c, from, to) /\ joining' = joining
          \/ Handler(c, "listAll", "joinAll") /\ joining' = [joining EXCEPT ![c] = registry]
          \/ Handler(c, "joinAll", "clearRegistry") /\ joining' = [joining EXCEPT ![c] = {}]
      BY <2>13 DEF Abort, StopAll, ListAll, JoinAll
    <3>2. UNCHANGED <<target, gone>> /\ \A d \in Clients : d # c => joining'[d] = joining[d]
      BY <2>13 DEF Abort, StopAll, ListAll, JoinAll, past, JInv, TypeOK
    <3>3. cpc'[c] = "clearRegistry" => joining'[c] = {}
      BY <3>1, HandlerMoves DEF JInv, TypeOK
    <3> QED
      BY <3>1, <3>2, <3>3, HandlerMoves
  <2>14. CASE ClearRegistry(c) \/ ClearTrie(c) \/ ClearStore(c) \/ PurgeShards(c) \/ Allow(c)
    <3>1. \E from \in {"clearRegistry", "clearTrie", "clearStore", "purgeShards", "allow"},
             to \in {"clearTrie", "clearStore", "purgeShards", "allow", "ready"} :
              Handler(c, from, to)
      BY <2>14 DEF ClearRegistry, ClearTrie, ClearStore, PurgeShards, Allow
    <3>2. UNCHANGED <<target, joining, gone>>
      BY <2>14 DEF ClearRegistry, ClearTrie, ClearStore, PurgeShards, Allow, past
    <3> QED
      BY <3>1, <3>2, HandlerMoves
  <2> QED
    BY <1>2, <2>4, <2>5, <2>6, <2>7, <2>8, <2>9, <2>10, <2>11, <2>12, <2>13, <2>14
    DEF Api, Delete, Reset
<1>3. CASE UNCHANGED vars
  BY <1>3 DEF vars, store, trie, files, worker, client, past, Finished, Clear
<1> QED
  BY <1>1, <1>2, <1>3 DEF Next

\* Where the joins succeed and no other job has its origin, no posting and no metadata row
\* of a deleted job is left in memory or comes back: whatever other deletes, creations and
\* resets run beside it, and also for a job that is deleted before its thread starts.
THEOREM DeleteIsTraceless ==
    ASSUME OwnOrigins, JoinTimesOut = FALSE
    PROVE  Spec => []DeleteLeavesNoTrace
<1>1. Init => Traceless
  BY DEF Init, Traceless, Purging
<1>2. Traceless => DeleteLeavesNoTrace
  BY DEF Traceless, Clear, DeleteLeavesNoTrace, OfOrigin
<1>3. JInv /\ Traceless /\ [Next]_vars => Traceless'
  BY TracelessSteps
<1> QED
  BY <1>1, <1>2, <1>3, JInvHolds, PTL DEF Spec

-----------------------------------------------------------------------------
(* One caller at a time, whose joins succeed *)

Wiping == {"clearRegistry", "clearTrie", "clearStore", "purgeShards", "allow"}

\* Every thread that runs is registered or being deleted, so what a delete or a reset
\* has waited for is all there was to wait for.
Accounted ==
    /\ \A j \in Jobs : Live(j) =>
           j \in registry \/ \E c \in Clients : cpc[c] \in {"stop", "join"} /\ target[c] = j
    /\ \A j \in registry : wpc[j] = "unborn" => \E c \in Clients : Created(j, c)
    /\ \A c \in Clients :
           /\ cpc[c] \in {"persist", "start"} => target[c] \in registry
           /\ cpc[c] \in {"stop", "join"} =>
                  joining[c] = {target[c]} /\ wpc[target[c]] # "unborn"
           /\ cpc[c] \in Purging =>
                  /\ joining[c] \subseteq {target[c]} /\ ~Live(target[c])
                  /\ \A j \in joining[c] : wpc[j] = "dead"
           /\ cpc[c] \notin Purging \cup {"stop", "join", "joinAll"} => joining[c] = {}
           /\ cpc[c] = "joinAll" => joining[c] = registry
           /\ cpc[c] \in Wiping => \A j \in Jobs : ~Live(j)
    /\ \A j \in gone \cup wiped : wpc[j] = "dead"

LEMMA AccountedSteps ==
    ASSUME OneClient, JoinTimesOut = FALSE, JInv, Accounted, [Next]_vars
    PROVE  Accounted'
<1> USE DEF Accounted, Purging, Wiping
<1>0. /\ registry \subseteq Jobs /\ gone \subseteq Jobs /\ wiped \subseteq Jobs
      /\ \A c \in Clients : joining[c] \subseteq Jobs
      /\ \A c \in Clients : cpc[c] \in Purging \cup {"persist", "start", "stop", "join"} =>
                                target[c] \in Jobs
  BY DEF JInv, TypeOK, Placed
<1>1. ASSUME NEW j \in Jobs, Worker(j) PROVE Accounted'
  <2>1. /\ UNCHANGED <<registry, cpc, target, joining, gone, wiped>>
        /\ \A k \in Jobs : Live(k)' => Live(k)
        /\ \A k \in Jobs : wpc'[k] = "unborn" => wpc[k] = "unborn"
        /\ \A k \in Jobs : wpc[k] = "unborn" => wpc'[k] = "unborn"
        /\ \A k \in Jobs : wpc[k] = "dead" => wpc'[k] = "dead"
    BY <1>1, WorkerMoves DEF Live
  <2> QED
    BY <1>0, <2>1 DEF Created
<1>2. ASSUME NEW c \in Clients, Api(c) PROVE Accounted'
  <2>0. \A d \in Clients : d = c
    BY DEF OneClient
  <2> USE <1>0, <2>0 DEF Live, Created
  <2>1. ASSUME NEW j \in Jobs, Register(c, j) PROVE Accounted'
    <3>1. /\ Handler(c, "ready", "persist") /\ UNCHANGED <<wpc, joining, gone, wiped>>
          /\ registry' = registry \cup {j} /\ target'[c] = j
      BY <2>1 DEF Register, past, JInv, TypeOK
    <3> QED
      BY <3>1, HandlerMoves
  <2>2. CASE Persist(c)
    <3>1. /\ Handler(c, "persist", "start")
          /\ UNCHANGED <<registry, wpc, target, joining, gone, wiped>>
      BY <2>2 DEF Persist, past
    <3> QED
      BY <3>1, HandlerMoves
  <2>3. CASE Start(c)
    <3>1. /\ Handler(c, "start", "ready") /\ UNCHANGED <<registry, joining, gone, wiped>>
          /\ wpc' = [wpc EXCEPT ![target[c]] = "loop"]
      BY <2>3 DEF Start, past
    <3>2. /\ target[c] \in Jobs /\ wpc[target[c]] = "unborn" /\ wpc'[target[c]] = "loop"
          /\ \A k \in Jobs : k # target[c] => wpc'[k] = wpc[k]
      BY <3>1, HandlerMoves DEF JInv, TypeOK, Placed
    <3>3. target[c] \in registry
      BY <3>1, HandlerMoves
    <3> QED
      BY <3>1, <3>2, <3>3, HandlerMoves
  <2>4. ASSUME NEW j \in Jobs, StopJob(c, j) PROVE Accounted'
    <3>1. /\ Handler(c, "ready", "ready")
          /\ UNCHANGED <<registry, wpc, target, joining, gone, wiped>>
      BY <2>4 DEF StopJob, past
    <3> QED
      BY <3>1, HandlerMoves
  <2>5. ASSUME NEW j \in Jobs, Drop(c, j) PROVE Accounted'
    <3>1. /\ Handler(c, "ready", "stop") /\ UNCHANGED <<wpc, gone, wiped>>
          /\ registry' = registry \ {j} /\ target'[c] = j /\ joining'[c] = {j}
          /\ j \in registry
      BY <2>5 DEF Drop, past, JInv, TypeOK
    <3>2. wpc[j] # "unborn"
      BY <3>1, HandlerMoves
    <3> QED
      BY <3>1, <3>2, HandlerMoves
  <2>6. ASSUME NEW j \in Jobs, DropUnknown(c, j) PROVE Accounted'
    <3>1. PICK to \in {"purgeRecord", "ready"} :
              Handler(c, "ready", to) /\ (to = "purgeRecord" => target'[c] = j)
      BY <2>6 DEF DropUnknown, JInv, TypeOK
    <3>2. UNCHANGED <<registry, wpc, joining, gone, wiped>> /\ j \notin registry
      BY <2>6 DEF DropUnknown, past
    <3> QED
      BY <3>1, <3>2, HandlerMoves
  <2>7. CASE StopDropped(c)
    <3>1. /\ Handler(c, "stop", "join")
          /\ UNCHANGED <<registry, wpc, target, joining, gone, wiped>>
      BY <2>7 DEF StopDropped, past
    <3> QED
      BY <3>1, HandlerMoves
  <2>8. CASE JoinDropped(c)
    <3>1. /\ Handler(c, "join", "archive") /\ wpc[target[c]] \in {"dead", "unborn"}
          /\ UNCHANGED <<registry, wpc, target, joining, gone, wiped>>
      BY <2>8 DEF JoinDropped, Joined, past
    <3> QED
      BY <3>1, HandlerMoves
  <2>9. CASE ArchiveDeleted(c) \/ PurgeRecord(c) \/ PurgeTrie(c)
    <3>1. \E from \in {"archive", "purgeRecord", "purgeTrie"},
             to \in {"purgeRecord", "purgeTrie", "purgeStore"} : Handler(c, from, to)
      BY <2>9 DEF ArchiveDeleted, PurgeRecord, PurgeTrie
    <3>2. UNCHANGED <<registry, wpc, target, joining, gone, wiped>>
      BY <2>9 DEF ArchiveDeleted, PurgeRecord, PurgeTrie, past
    <3> QED
      BY <3>1, <3>2, HandlerMoves
  <2>10. CASE PurgeStore(c)
    <3>1. /\ Handler(c, "purgeStore", "ready") /\ gone' = gone \cup joining[c]
          /\ joining'[c] = {} /\ UNCHANGED <<registry, wpc, wiped>>
      BY <2>10 DEF PurgeStore, JInv, TypeOK
    <3> QED
      BY <3>1, HandlerMoves
  <2>11. CASE Abort(c) \/ StopAll(c)
    <3>1. \E from \in {"ready", "stopAll"}, to \in {"stopAll", "listAll"} :
              Handler(c, from, to)
      BY <2>11 DEF Abort, StopAll
    <3>2. UNCHANGED <<registry, wpc, target, joining, gone, wiped>>
      BY <2>11 DEF Abort, StopAll, past
    <3> QED
      BY <3>1, <3>2, HandlerMoves
  <2>12. CASE ListAll(c)
    <3>1. /\ Handler(c, "listAll", "joinAll") /\ joining'[c] = registry
          /\ UNCHANGED <<registry, wpc, target, gone, wiped>>
      BY <2>12 DEF ListAll, past, JInv, TypeOK
    <3> QED
      BY <3>1, HandlerMoves
  <2>13. CASE JoinAll(c)
    <3>1. /\ Handler(c, "joinAll", "clearRegistry") /\ joining'[c] = {}
          /\ \A j \in joining[c] : wpc[j] \in {"dead", "unborn"}
          /\ UNCHANGED <<registry, wpc, target, gone, wiped>>
      BY <2>13 DEF JoinAll, Joined, past, JInv, TypeOK
    <3> QED
      BY <3>1, HandlerMoves
  <2>14. CASE ClearRegistry(c) \/ ClearTrie(c) \/ ClearStore(c) \/ PurgeShards(c)
    <3>1. \E from \in {"clearRegistry", "clearTrie", "clearStore", "purgeShards"},
             to \in {"clearTrie", "clearStore", "purgeShards", "allow"} :
              Handler(c, from, to)
      BY <2>14 DEF ClearRegistry, ClearTrie, ClearStore, PurgeShards
    <3>2. /\ UNCHANGED <<wpc, target, joining, gone, wiped>>
          /\ registry' \in {registry, {}}
      BY <2>14 DEF ClearRegistry, ClearTrie, ClearStore, PurgeShards, past
    <3> QED
      BY <3>1, <3>2, HandlerMoves
  <2>15. CASE Allow(c)
    <3>1. /\ Handler(c, "allow", "ready") /\ wiped' = {j \in Jobs : wpc[j] # "unborn"}
          /\ UNCHANGED <<registry, wpc, target, joining, gone>>
      BY <2>15 DEF Allow
    <3> QED
      BY <3>1, HandlerMoves
  <2> QED
    BY <1>2, <2>1, <2>2, <2>3, <2>4, <2>5, <2>6, <2>7, <2>8, <2>9, <2>10, <2>11, <2>12,
       <2>13, <2>14, <2>15
    DEF Api, Delete, Reset
<1>3. CASE UNCHANGED vars
  BY <1>3 DEF vars, store, trie, files, worker, client, past, Live, Created
<1> QED
  BY <1>1, <1>2, <1>3 DEF Next

LEMMA AccountedStarts == Init => Accounted
BY DEF Init, Accounted, Live, Purging, Wiping

\* The rows a job has all carry one of these labels.
Rowed(j, labels) ==
    \A i \in DOMAIN history : history[i].job = j => history[i].status \in labels

\* An archive is about its own job's row; the delete's replaces whatever it was.
LEMMA ArchiveLabels ==
    ASSUME Rows, NEW j \in Jobs, NEW status \in {"stopped", "completed", "deleted"},
           Archive(j, status), NEW k, NEW labels
    PROVE  /\ k # j /\ Rowed(k, labels) => Rowed(k, labels)'
           /\ status \in labels => Rowed(j, labels)'
BY ArchiveRows DEF Rowed

\* No job is deleted before its thread has started.
StartedFirst == \A c \in Clients : cpc[c] \in {"stop", "join"} => wpc[target[c]] # "unborn"

\* From its join on, the worker that a delete waited for is dead; once the handler has
\* archived it, a deleted job is on record as deleted only.
Overridden ==
    /\ \A c \in Clients :
           /\ cpc[c] \in {"stop", "join"} => joining[c] = {target[c]}
           /\ cpc[c] \notin Purging \cup {"stop", "join", "joinAll"} => joining[c] = {}
           /\ cpc[c] \in Purging => \A j \in joining[c] : j = target[c] /\ wpc[j] = "dead"
           /\ cpc[c] \in Purging \ {"archive"} => \A j \in joining[c] : Rowed(j, {"deleted"})
    /\ \A j \in gone : wpc[j] = "dead" /\ Rowed(j, {"deleted"})

LEMMA WorkerHistory ==
    ASSUME JInv, NEW j \in Jobs, Worker(j)
    PROVE  \/ history' = history
           \/ /\ ending[j] \in {"stopped", "completed"} /\ wpc[j] = "archive"
              /\ Archive(j, ending[j])
BY DEF Worker, SkipVisited, Fetch, FetchFails, StoreMetadata, IndexTokens, MarkVisited,
   FlushGate, Walk, WriteShards, LeaveLoop, FinalizeGate, ArchiveFinal, At, JInv, TypeOK

LEMMA ApiHistory ==
    ASSUME JInv, NEW c \in Clients, Api(c)
    PROVE  \/ history' = history
           \/ history' = <<>>
           \/ /\ cpc[c] = "archive" /\ cpc'[c] = "purgeRecord" /\ target[c] \in Jobs
              /\ Archive(target[c], "deleted")
<1>1. history' = history \/ history' = <<>> \/ ArchiveDeleted(c)
  BY DEF Api, Delete, Reset, Register, Persist, Start, StopJob, Drop, DropUnknown,
     StopDropped, JoinDropped, PurgeRecord, PurgeTrie, PurgeStore, Abort,
     StopAll, ListAll, JoinAll, ClearRegistry, ClearTrie, ClearStore, PurgeShards, Allow,
     store
<1> QED
  BY <1>1, HandlerMoves DEF ArchiveDeleted, JInv, Placed

\* A handler's step neither ends a worker nor takes a deleted job's row back.
LEMMA ApiKeepsRecord ==
    ASSUME JInv, NEW c \in Clients, Api(c), NEW j \in Jobs
    PROVE  /\ wpc[j] = "dead" => wpc'[j] = "dead"
           /\ Rowed(j, {"deleted"}) => Rowed(j, {"deleted"})'
<1>1. wpc[j] = "dead" => wpc'[j] = "dead"
  <2>1. wpc' = wpc \/ Start(c)
    BY DEF Api, Delete, Reset, Register, Persist, StopJob, Drop, DropUnknown,
       StopDropped, JoinDropped, ArchiveDeleted, PurgeRecord, PurgeTrie, PurgeStore, Abort,
       StopAll, ListAll, JoinAll, ClearRegistry, ClearTrie, ClearStore, PurgeShards, Allow
  <2>2. Start(c) => wpc[target[c]] = "unborn" /\ wpc' = [wpc EXCEPT ![target[c]] = "loop"]
    BY HandlerMoves DEF Start, JInv, Placed
  <2> QED
    BY <2>1, <2>2 DEF JInv, TypeOK
<1>2. ASSUME Rowed(j, {"deleted"}) PROVE Rowed(j, {"deleted"})'
  <2>1. CASE history' = history
    BY <1>2, <2>1 DEF Rowed
  <2>2. CASE history' = <<>>
    BY <2>2 DEF Rowed
  <2>3. CASE target[c] \in Jobs /\ Archive(target[c], "deleted")
    BY <1>2, <2>3, ArchiveLabels DEF JInv, TypeOK
  <2> QED
    BY <2>1, <2>2, <2>3, ApiHistory
<1> QED
  BY <1>1, <1>2

LEMMA OverriddenSteps ==
    ASSUME JoinTimesOut = FALSE, StartedFirst, JInv, Overridden, [Next]_vars
    PROVE  Overridden'
<1> USE DEF Overridden, Purging
<1>0. /\ gone \subseteq Jobs /\ \A c \in Clients : joining[c] \subseteq Jobs
      /\ Rows
  BY DEF JInv, TypeOK
<1>1. ASSUME NEW j \in Jobs, Worker(j) PROVE Overridden'
  <2>1. /\ UNCHANGED <<cpc, target, joining, gone>> /\ wpc[j] # "dead"
        /\ \A k \in Jobs : wpc[k] = "dead" => wpc'[k] = "dead"
    BY <1>1, WorkerMoves DEF Live
  <2>2. \A k \in Jobs : k # j /\ Rowed(k, {"deleted"}) => Rowed(k, {"deleted"})'
    <3>1. CASE history' = history
      BY <3>1 DEF Rowed
    <3>2. CASE ending[j] \in {"stopped", "completed"} /\ Archive(j, ending[j])
      BY <1>0, <3>2, ArchiveLabels
    <3> QED
      BY <1>1, <3>1, <3>2, WorkerHistory
  <2> QED
    BY <1>0, <2>1, <2>2
<1>2. ASSUME NEW c \in Clients, Api(c) PROVE Overridden'
  <2>1. \A j \in Jobs : /\ wpc[j] = "dead" => wpc'[j] = "dead"
                        /\ Rowed(j, {"deleted"}) => Rowed(j, {"deleted"})'
    BY <1>2, ApiKeepsRecord
  <2> USE <1>0, <2>1
  <2>2. ASSUME NEW j \in Jobs, Register(c, j) \/ StopJob(c, j) \/ DropUnknown(c, j)
        PROVE  Overridden'
    <3>1. \E to \in {"ready", "persist", "purgeRecord"} : Handler(c, "ready", to)
      BY <2>2 DEF Register, StopJob, DropUnknown
    <3>2. UNCHANGED <<joining, gone>> /\ \A d \in Clients : d # c => target'[d] = target[d]
      BY <2>2 DEF Register, StopJob, DropUnknown, past, JInv, TypeOK
    <3> QED
      BY <3>1, <3>2, HandlerMoves
  <2>3. CASE Persist(c) \/ Start(c)
    <3>1. \E from \in {"persist", "start"}, to \in {"start", "ready"} : Handler(c, from, to)
      BY <2>3 DEF Persist, Start
    <3>2. UNCHANGED <<joining, gone>> /\ \A d \in Clients : d # c => target'[d] = target[d]
      BY <2>3 DEF Persist, Start, past, JInv, TypeOK
    <3> QED
      BY <3>1, <3>2, HandlerMoves
  <2>4. ASSUME NEW j \in Jobs, Drop(c, j) PROVE Overridden'
    <3>1. /\ Handler(c, "ready", "stop") /\ gone' = gone
          /\ target'[c] = j /\ joining'[c] = {j}
          /\ \A d \in Clients : d # c => target'[d] = target[d] /\ joining'[d] = joining[d]
      BY <2>4 DEF Drop, past, JInv, TypeOK
    <3> QED
      BY <3>1, HandlerMoves
  <2>5. CASE StopDropped(c) \/ PurgeRecord(c) \/ PurgeTrie(c)
    <3>1. \/ Handler(c, "stop", "join")
          \/ Handler(c, "purgeRecord", "purgeTrie")
          \/ Handler(c, "purgeTrie", "purgeStore")
      BY <2>5 DEF StopDropped, PurgeRecord, PurgeTrie
    <3>2. UNCHANGED <<target, joining, gone>>
      BY <2>5 DEF StopDropped, PurgeRecord, PurgeTrie, past
    <3> QED
      BY <3>1, <3>2, HandlerMoves
  <2>6. CASE JoinDropped(c)
    <3>1. /\ Handler(c, "join", "archive") /\ UNCHANGED <<target, joining, gone>>
          /\ wpc[target[c]] \in {"dead", "unborn"}
      BY <2>6 DEF JoinDropped, Joined, past
    <3>2. wpc[target[c]] = "dead"
      BY <3>1, HandlerMoves DEF StartedFirst
    <3> QED
      BY <3>1, <3>2, HandlerMoves
  <2>7. CASE ArchiveDeleted(c)
    <3>1. /\ Handler(c, "archive", "purgeRecord") /\ UNCHANGED <<target, joining, gone>>
          /\ target[c] \in Jobs /\ Archive(target[c], "deleted")
      BY <2>7 DEF ArchiveDeleted, Handler, past, JInv, Placed
    <3>2. Rowed(target[c], {"deleted"})'
      BY <3>1, ArchiveLabels
    <3> QED
      BY <3>1, <3>2, HandlerMoves
  <2>8. CASE PurgeStore(c)
    <3>1. /\ Handler(c, "purgeStore", "ready") /\ gone' = gone \cup joining[c]
          /\ joining'[c] = {}
          /\ \A d \in Clients : d # c => target'[d] = target[d] /\ joining'[d] = joining[d]
      BY <2>8 DEF PurgeStore, JInv, TypeOK
    <3> QED
      BY <3>1, HandlerMoves
  <2>9. CASE Abort(c) \/ StopAll(c) \/ ListAll(c) \/ JoinAll(c)
    <3>1. \/ \E from \in {"ready", "stopAll"}, to \in {"stopAll", "listAll"} :
                 Handler(c, from, to) /\ joining' = joining
          \/ Handler(c, "listAll", "joinAll") /\ joining' = [joining EXCEPT ![c] = registry]
          \/ Handler(c, "joinAll", "clearRegistry") /\ joining' = [joining EXCEPT ![c] = {}]
      BY <2>9 DEF Abort, StopAll, ListAll, JoinAll
    <3>2. UNCHANGED <<target, gone>> /\ \A d \in Clients : d # c => joining'[d] = joining[d]
      BY <2>9 DEF Abort, StopAll, ListAll, JoinAll, past, JInv, TypeOK
    <3>3. cpc'[c] = "clearRegistry" => joining'[c] = {}
      BY <3>1, HandlerMoves DEF JInv, TypeOK
    <3> QED
      BY <3>1, <3>2, <3>3, HandlerMoves
  <2>10. CASE ClearRegistry(c) \/ ClearTrie(c) \/ ClearStore(c) \/ PurgeShards(c) \/ Allow(c)
    <3>1. \E from \in {"clearRegistry", "clearTrie", "clearStore", "purgeShards", "allow"},
             to \in {"clearTrie", "clearStore", "purgeShards", "allow", "ready"} :
              Handler(c, from, to)
      BY <2>10 DEF ClearRegistry, ClearTrie, ClearStore, PurgeShards, Allow
    <3>2. UNCHANGED <<target, joining, gone>>
      BY <2>10 DEF ClearRegistry, ClearTrie, ClearStore, PurgeShards, Allow, past
    <3> QED
      BY <3>1, <3>2, HandlerMoves
  <2> QED
    BY <1>2, <2>2, <2>3, <2>4, <2>5, <2>6, <2>7, <2>8, <2>9, <2>10
    DEF Api, Delete, Reset
<1>3. CASE UNCHANGED vars
  BY <1>3 DEF vars, store, worker, client, past, Rowed
<1> QED
  BY <1>1, <1>2, <1>3 DEF Next

LEMMA OverriddenStarts == Init => Overridden
BY DEF Init, Overridden, Purging

LEMMA OverriddenMeans == Overridden => DeletedStaysDeleted
BY DEF Overridden, Rowed, DeletedStaysDeleted, RowsOf

\* Where joins succeed and no job is deleted before its thread has started, a deleted job
\* stays on record as deleted: its worker's own archive came before the delete's, or
\* never, whatever other clients create, delete and reset meanwhile.
THEOREM DeletedIsOnRecordForMany ==
    ASSUME JoinTimesOut = FALSE
    PROVE  Spec /\ []StartedFirst => []DeletedStaysDeleted
<1>1. JInv /\ StartedFirst /\ Overridden /\ [Next]_vars => Overridden'
  BY OverriddenSteps
<1> QED
  BY <1>1, OverriddenStarts, OverriddenMeans, JInvHolds, PTL DEF Spec

\* With one caller, jobs have started when they are deleted.
THEOREM DeletedIsOnRecord ==
    ASSUME OneClient, JoinTimesOut = FALSE
    PROVE  Spec => []DeletedStaysDeleted
<1>1. JInv /\ Accounted /\ [Next]_vars => Accounted'
  BY AccountedSteps
<1>2. Accounted => StartedFirst
  BY DEF Accounted, StartedFirst
<1> QED
  BY <1>1, <1>2, DeletedIsOnRecordForMany, AccountedStarts, JInvHolds, PTL DEF Spec

-----------------------------------------------------------------------------
(* A reset that has waited for every worker *)

\* The job has nothing left in shard files but those that could not be removed.
Shed(j) == \A u \in Urls : shards[u] = Seed[j] => u \in unremoved

\* What a reset has wiped, phase by phase, and that nothing of the jobs from before it
\* comes back: not from the index, nor from a walk of it that was still to be written.
Emptied ==
    /\ \A j \in Jobs : wpc[j] # "write" => walked[j] = NoPostings
    /\ \A c \in Clients :
           /\ cpc[c] \in Wiping \ {"clearRegistry"} => registry = {}
           /\ cpc[c] \in {"clearStore", "purgeShards", "allow"} => postings = NoPostings
           /\ cpc[c] \in {"purgeShards", "allow"} =>
                  metadata = NoPostings /\ history = <<>> /\ jobs = {}
           /\ cpc[c] = "allow" => \A u \in Urls : shards[u] # Nobody => u \in unremoved
           /\ cpc[c] \in Purging \cup {"stop", "join"} => target[c] \notin wiped
    /\ \A j \in wiped :
           /\ Clear(postings, j) /\ Clear(metadata, j) /\ Shed(j)
           /\ \A k \in Jobs : Clear(walked[k], j)
           /\ Rowed(j, {}) /\ j \notin jobs /\ j \notin registry

LEMMA NothingIsClear == ASSUME NEW j \in Jobs PROVE Clear(NoPostings, j)
BY JobConstants, NobodyAssumption DEF Clear, NoPostings

LEMMA WorkerExports ==
    ASSUME JInv, NEW j \in Jobs, Worker(j)
    PROVE  /\ UNCHANGED files \/ PutShards(walked[j])
           /\ \A k \in Jobs : k # j => walked'[k] = walked[k]
           /\ \/ wpc'[j] = "write" /\ walked'[j] = postings
              \/ wpc[j] = "write" /\ walked'[j] = NoPostings
              \/ wpc[j] # "write" /\ wpc'[j] # "write" /\ walked'[j] = walked[j]
<1>1. \E from \in WPC, to \in WPC :
          /\ At(j, from, to) /\ (UNCHANGED files \/ PutShards(walked[j]))
          /\ \/ to = "write" /\ walked' = [walked EXCEPT ![j] = postings]
             \/ from = "write" /\ walked' = [walked EXCEPT ![j] = NoPostings]
             \/ from # "write" /\ to # "write" /\ walked' = walked
  BY DEF Worker, SkipVisited, Fetch, FetchFails, StoreMetadata, IndexTokens, MarkVisited,
     FlushGate, Walk, WriteShards, LeaveLoop, FinalizeGate, ArchiveFinal, AfterFlush, WPC
<1> QED
  BY <1>1 DEF At, JInv, TypeOK

LEMMA EmptiedByWorker ==
    ASSUME OwnOrigins, JInv, Accounted, Emptied, NEW j \in Jobs, Worker(j)
    PROVE  Emptied'
<1>1. /\ UNCHANGED <<registry, jobs, cpc, target, wiped>> /\ Live(j)
      /\ \A k \in Jobs : k # j => wpc'[k] = wpc[k]
  BY WorkerMoves
<1>2. wiped \subseteq Jobs /\ Rows
  BY DEF JInv, TypeOK
<1>3. \A k \in Jobs : wpc'[k] # "write" => walked'[k] = NoPostings
  BY <1>1, WorkerExports DEF Emptied
<1>4. \A c \in Clients : cpc[c] \notin Wiping
  BY <1>1 DEF Accounted
<1>5. ASSUME NEW k \in wiped
      PROVE  /\ Clear(postings, k)' /\ Clear(metadata, k)' /\ Shed(k)'
             /\ \A i \in Jobs : Clear(walked'[i], k)
             /\ Rowed(k, {})'
  <2>1. k \in Jobs /\ k # j /\ wpc[k] = "dead"
    BY <1>1, <1>2 DEF Accounted, Live
  <2>2. Clear(postings, k)' /\ Clear(metadata, k)'
    BY <2>1, IdleStaysClear DEF Emptied
  <2>3. Shed(k)'
    <3>1. Shed(k) /\ Clear(walked[j], k) /\ shards \in Index /\ walked[j] \in Index
      BY DEF Emptied, JInv, TypeOK
    <3>2. CASE UNCHANGED files
      BY <3>1, <3>2 DEF Shed, files
    <3>3. CASE PutShards(walked[j])
      BY <3>1, <3>3, PutShardsFacts DEF Shed, Clear
    <3> QED
      BY <3>2, <3>3, WorkerExports
  <2>4. ASSUME NEW i \in Jobs PROVE Clear(walked'[i], k)
    <3>1. walked'[i] \in {walked[i], postings, NoPostings}
      BY WorkerExports
    <3>2. Clear(walked[i], k) /\ Clear(postings, k) /\ Clear(NoPostings, k)
      BY <2>1, NothingIsClear DEF Emptied
    <3> QED
      BY <3>1, <3>2
  <2>5. Rowed(k, {})'
    <3>1. Rowed(k, {})
      BY DEF Emptied
    <3>2. CASE history' = history
      BY <3>1, <3>2 DEF Rowed
    <3>3. CASE ending[j] \in {"stopped", "completed"} /\ Archive(j, ending[j])
      BY <1>2, <2>1, <3>1, <3>3, ArchiveLabels
    <3> QED
      BY <3>2, <3>3, WorkerHistory
  <2> QED
    BY <2>2, <2>3, <2>4, <2>5
<1> QED
  BY <1>1, <1>3, <1>4, <1>5 DEF Emptied, Wiping

\* The data no handler writes while it deletes, creates or stops.
LEMMA ApiData ==
    ASSUME JInv, NEW c \in Clients, Api(c)
    PROVE  /\ (UNCHANGED files \/ PutShards(NoPostings)) /\ walked' = walked
           /\ \A j \in Jobs : wpc'[j] # "write" => wpc[j] # "write"
<1>1. (UNCHANGED files \/ PutShards(NoPostings)) /\ walked' = walked
  BY DEF Api, Delete, Reset, Register, Persist, Start, StopJob, Drop, DropUnknown,
     StopDropped, JoinDropped, ArchiveDeleted, PurgeRecord, PurgeTrie, PurgeStore, Abort,
     StopAll, ListAll, JoinAll, ClearRegistry, ClearTrie, ClearStore, PurgeShards, Allow,
     Handler
<1>2. wpc' = wpc \/ Start(c)
  BY DEF Api, Delete, Reset, Register, Persist, StopJob, Drop, DropUnknown,
     StopDropped, JoinDropped, ArchiveDeleted, PurgeRecord, PurgeTrie, PurgeStore, Abort,
     StopAll, ListAll, JoinAll, ClearRegistry, ClearTrie, ClearStore, PurgeShards, Allow
<1>3. CASE Start(c)
  <2>1. wpc[target[c]] = "unborn" /\ wpc' = [wpc EXCEPT ![target[c]] = "loop"]
        /\ target[c] \in Jobs
    BY <1>3 DEF Start, Handler, JInv, Placed
  <2> QED
    BY <1>1, <2>1 DEF JInv, TypeOK
<1> QED
  BY <1>1, <1>2, <1>3

LEMMA EmptiedByApi ==
    ASSUME OneClient, OwnOrigins, JInv, Accounted, Emptied, NEW c \in Clients, Api(c)
    PROVE  Emptied'
<1>0. /\ \A d \in Clients : d = c
      /\ wiped \subseteq Jobs /\ registry \subseteq Jobs /\ Rows
      /\ cpc[c] \in Purging \cup {"persist", "start", "stop", "join"} => target[c] \in Jobs
      /\ \A k \in wiped : wpc[k] = "dead"
  BY DEF OneClient, JInv, TypeOK, Placed, Accounted, Purging
<1>1. ASSUME NEW k \in wiped
      PROVE  /\ Clear(postings, k)' /\ Clear(metadata, k)' /\ Shed(k)'
             /\ \A i \in Jobs : Clear(walked'[i], k)
             /\ Rowed(k, {})'
  <2>1. Clear(postings, k)' /\ Clear(metadata, k)'
    BY <1>0, ApiKeepsClear DEF Emptied
  <2>2. Shed(k)' /\ \A i \in Jobs : Clear(walked'[i], k)
    <3>1. Shed(k) /\ shards \in Index /\ k \in Jobs /\ \A i \in Jobs : Clear(walked[i], k)
      BY <1>0 DEF Emptied, JInv, TypeOK
    <3>2. CASE UNCHANGED files
      BY <3>1, <3>2, ApiData DEF Shed, files
    <3>3. CASE PutShards(NoPostings)
      BY <3>1, <3>3, ApiData, NothingIsClear, JobConstants, PutShardsFacts DEF Shed, Clear
    <3> QED
      BY <3>2, <3>3, ApiData
  <2>3. Rowed(k, {})'
    <3>1. Rowed(k, {})
      BY DEF Emptied
    <3>2. CASE history' = history
      BY <3>1, <3>2 DEF Rowed
    <3>3. CASE history' = <<>>
      BY <3>3 DEF Rowed
    <3>4. CASE cpc[c] = "archive" /\ target[c] \in Jobs /\ Archive(target[c], "deleted")
      <4>1. target[c] # k
        BY <3>4 DEF Emptied, Purging
      <4> QED
        BY <1>0, <3>1, <3>4, <4>1, ArchiveLabels
    <3> QED
      BY <3>2, <3>3, <3>4, ApiHistory
  <2> QED
    BY <2>1, <2>2, <2>3
<1>2. \A j \in Jobs : wpc'[j] # "write" => walked'[j] = NoPostings
  BY ApiData DEF Emptied
<1> USE DEF Emptied, Wiping, Purging
<1>3. ASSUME NEW j \in Jobs, Register(c, j) PROVE Emptied'
  <2>1. /\ Handler(c, "ready", "persist") /\ UNCHANGED <<jobs, wiped>>
        /\ registry' = registry \cup {j} /\ wpc[j] = "unborn"
    BY <1>3 DEF Register, store, past
  <2> QED
    BY <1>0, <1>1, <1>2, <2>1, HandlerMoves
<1>4. CASE Persist(c)
  <2>1. /\ Handler(c, "persist", "start") /\ UNCHANGED <<registry, wiped>>
        /\ jobs' = jobs \cup {target[c]} /\ wpc[target[c]] = "unborn"
    BY <1>4 DEF Persist, past, Handler, JInv, Placed
  <2> QED
    BY <1>0, <1>1, <1>2, <2>1, HandlerMoves
<1>5. CASE Start(c)
  <2>1. Handler(c, "start", "ready") /\ UNCHANGED <<registry, jobs, wiped>>
    BY <1>5 DEF Start, past, store
  <2> QED
    BY <1>0, <1>1, <1>2, <2>1, HandlerMoves
<1>6. ASSUME NEW j \in Jobs, StopJob(c, j) PROVE Emptied'
  <2>1. Handler(c, "ready", "ready") /\ UNCHANGED <<registry, jobs, wiped>>
    BY <1>6 DEF StopJob, past, store
  <2> QED
    BY <1>0, <1>1, <1>2, <2>1, HandlerMoves
<1>7. ASSUME NEW j \in Jobs, Drop(c, j) PROVE Emptied'
  <2>1. /\ Handler(c, "ready", "stop") /\ UNCHANGED <<jobs, wiped>>
        /\ registry' = registry \ {j} /\ target'[c] = j /\ j \in registry
    BY <1>7 DEF Drop, past, store, JInv, TypeOK
  <2> QED
    BY <1>0, <1>1, <1>2, <2>1, HandlerMoves
<1>8. ASSUME NEW j \in Jobs, DropUnknown(c, j) PROVE Emptied'
  <2>1. PICK to \in {"purgeRecord", "ready"} :
            Handler(c, "ready", to) /\ (to = "purgeRecord" => target'[c] = j /\ j \in jobs)
    BY <1>8 DEF DropUnknown, JInv, TypeOK
  <2>2. UNCHANGED <<registry, jobs, wiped>>
    BY <1>8 DEF DropUnknown, past, store
  <2> QED
    BY <1>0, <1>1, <1>2, <2>1, <2>2, HandlerMoves
<1>9. CASE StopDropped(c) \/ JoinDropped(c) \/ ArchiveDeleted(c) \/ PurgeTrie(c)
  <2>1. \E from \in {"stop", "join", "archive", "purgeTrie"},
           to \in {"join", "archive", "purgeRecord", "purgeStore"} : Handler(c, from, to)
    BY <1>9 DEF StopDropped, JoinDropped, ArchiveDeleted, PurgeTrie
  <2>2. UNCHANGED <<registry, jobs, wiped, target>>
    BY <1>9 DEF StopDropped, JoinDropped, ArchiveDeleted, PurgeTrie, past, store
  <2> QED
    BY <1>0, <1>1, <1>2, <2>1, <2>2, HandlerMoves
<1>10. CASE PurgeRecord(c)
  <2>1. /\ Handler(c, "purgeRecord", "purgeTrie") /\ UNCHANGED <<registry, target, wiped>>
        /\ jobs' \subseteq jobs
    BY <1>10 DEF PurgeRecord, past
  <2> QED
    BY <1>0, <1>1, <1>2, <2>1, HandlerMoves
<1>11. CASE PurgeStore(c)
  <2>1. Handler(c, "purgeStore", "ready") /\ UNCHANGED <<registry, jobs, wiped>>
    BY <1>11 DEF PurgeStore
  <2> QED
    BY <1>0, <1>1, <1>2, <2>1, HandlerMoves
<1>12. CASE Abort(c) \/ StopAll(c) \/ ListAll(c) \/ JoinAll(c)
  <2>1. \E from \in {"ready", "stopAll", "listAll", "joinAll"},
           to \in {"stopAll", "listAll", "joinAll", "clearRegistry"} : Handler(c, from, to)
    BY <1>12 DEF Abort, StopAll, ListAll, JoinAll
  <2>2. UNCHANGED <<registry, jobs, wiped>>
    BY <1>12 DEF Abort, StopAll, ListAll, JoinAll, past, store
  <2> QED
    BY <1>0, <1>1, <1>2, <2>1, <2>2, HandlerMoves
<1>13. CASE ClearRegistry(c)
  <2>1. Handler(c, "clearRegistry", "clearTrie") /\ UNCHANGED <<jobs, wiped>>
        /\ registry' = {}
    BY <1>13 DEF ClearRegistry, past, store
  <2> QED
    BY <1>0, <1>1, <1>2, <2>1, HandlerMoves
<1>14. CASE ClearTrie(c)
  <2>1. Handler(c, "clearTrie", "clearStore") /\ UNCHANGED <<registry, jobs, wiped>>
        /\ postings' = NoPostings
    BY <1>14 DEF ClearTrie, past, store
  <2> QED
    BY <1>0, <1>1, <1>2, <2>1, HandlerMoves
<1>15. CASE ClearStore(c)
  <2>1. /\ Handler(c, "clearStore", "purgeShards") /\ UNCHANGED <<registry, postings, wiped>>
        /\ jobs' = {} /\ history' = <<>> /\ metadata' = NoPostings
    BY <1>15 DEF ClearStore, past, trie, files
  <2> QED
    BY <1>0, <1>1, <1>2, <2>1, HandlerMoves
<1>16. CASE PurgeShards(c)
  <2>1. /\ Handler(c, "purgeShards", "allow")
        /\ UNCHANGED <<registry, postings, jobs, history, metadata, wiped>>
    BY <1>16 DEF PurgeShards, past, trie, store
  <2>2. \A u \in Urls : shards'[u] # Nobody => u \in unremoved'
    <3>1. shards \in Index /\ PutShards(NoPostings)
      BY <1>16 DEF PurgeShards, JInv, TypeOK
    <3> QED
      BY <3>1, JobConstants, PutShardsFacts DEF NoPostings
  <2> QED
    BY <1>0, <1>1, <1>2, <2>1, <2>2, HandlerMoves
<1>17. CASE Allow(c)
  <2>1. /\ Handler(c, "allow", "ready") /\ wiped' = {j \in Jobs : wpc[j] # "unborn"}
        /\ UNCHANGED <<registry, postings, jobs, history, metadata, shards, unremoved, walked>>
    BY <1>17 DEF Allow, trie, files, store, Handler
  <2>2. /\ registry = {} /\ postings = NoPostings /\ metadata = NoPostings
        /\ history = <<>> /\ jobs = {}
        /\ \A u \in Urls : shards[u] # Nobody => u \in unremoved
    BY <2>1, HandlerMoves
  <2>3. \A k \in Jobs : walked[k] = NoPostings
    BY <2>1, HandlerMoves DEF Accounted, Live
  <2>4. ASSUME NEW k \in wiped'
        PROVE  /\ Clear(postings, k)' /\ Clear(metadata, k)' /\ Shed(k)'
               /\ \A i \in Jobs : Clear(walked'[i], k)
               /\ Rowed(k, {})' /\ k \notin jobs' /\ k \notin registry'
    BY <1>0, <2>1, <2>2, <2>3, NothingIsClear, JobConstants, NobodyAssumption DEF Rowed, Shed
  <2> QED
    BY <1>0, <1>2, <2>1, <2>4, HandlerMoves
<1> QED
  BY <1>3, <1>4, <1>5, <1>6, <1>7, <1>8, <1>9, <1>10, <1>11, <1>12, <1>13, <1>14, <1>15,
     <1>16, <1>17
  DEF Api, Delete, Reset

\* With one caller and joins that succeed, a reset is complete and final: what the jobs
\* from before it had in memory and in the shard files is gone, but for files that could
\* not be removed, and no walk of the old index is left that could bring it back.
THEOREM ResetIsFinal ==
    ASSUME OneClient, OwnOrigins, JoinTimesOut = FALSE
    PROVE  Spec => []ResetLeavesNothing
<1>1. Init => Emptied
  BY DEF Init, Emptied, Purging, Wiping
<1>2. Emptied => ResetLeavesNothing
  BY DEF Emptied, Rowed, Clear, Shed, ResetLeavesNothing, ShardsStayGone, OfOrigin, RowsOf
<1>3. JInv /\ Accounted /\ [Next]_vars => Accounted'
  BY AccountedSteps
<1>4. JInv /\ Accounted /\ Emptied /\ [Next]_vars => Emptied'
  <2>1. CASE UNCHANGED vars
    BY <2>1 DEF vars, store, trie, files, worker, client, past, Emptied, Rowed, Clear, Shed
  <2> QED
    BY <2>1, EmptiedByWorker, EmptiedByApi DEF Next
<1> QED
  BY <1>1, <1>2, <1>3, <1>4, AccountedStarts, JInvHolds, PTL DEF Spec

-----------------------------------------------------------------------------
(* What is visited can be searched for *)

OwnSites == \A j, k \in Jobs : Site[j] \cap Site[k] # {} => j = k

\* A page's metadata and postings are of the job whose site it is on; its worker writes
\* the one before the other and both before it marks the page, and a purge or a reset
\* takes the postings first and the visited entries with the metadata.
Found ==
    /\ \A u \in Urls : postings[u] # Nobody => metadata[u] = postings[u]
    /\ \A u \in Urls : metadata[u] # Nobody =>
           \E j \in Jobs : u \in Site[j] /\ metadata[u] = Seed[j]
    /\ \A j \in Jobs :
           /\ wpc[j] \in {"fetching", "index", "mark"} => page[j] \in Site[j]
           /\ wpc[j] \in {"index", "mark"} => metadata[page[j]] = Seed[j]
           /\ wpc[j] = "mark" => postings[page[j]] = Seed[j] \/ page[j] \in Textless
    /\ \A c \in Clients :
           /\ cpc[c] = "purgeStore" => Clear(postings, target[c])
           /\ cpc[c] = "clearStore" => postings = NoPostings
    /\ \A u \in visited \ Textless :
           \/ postings[u] # Nobody
           \/ \E c \in Clients :
                  \/ cpc[c] = "clearStore"
                  \/ cpc[c] = "purgeStore" /\ metadata[u] = Seed[target[c]]

AtPage(j) == wpc[j] \in {"fetching", "index", "mark"}

\* What the handlers have waited for before they purge: a delete for the worker of its
\* job, a reset for all of them, with no one else at work.
Waited ==
    \A c \in Clients :
        /\ cpc[c] \in {"purgeTrie", "purgeStore"} => ~AtPage(target[c])
        /\ cpc[c] \in {"clearTrie", "clearStore"} =>
               /\ \A j \in Jobs : ~Live(j)
               /\ \A d \in Clients : d = c

LEMMA FoundByWorker ==
    ASSUME OwnOrigins, OwnSites, JInv, Waited, Found, NEW j \in Jobs, Worker(j)
    PROVE  Found'
<1> USE DEF Found
<1>0. /\ UNCHANGED <<cpc, target>> /\ Live(j)
      /\ \A k \in Jobs : k # j => wpc'[k] = wpc[k]
      /\ \A c \in Clients : cpc[c] # "clearStore"
      /\ \A c \in Clients : cpc[c] = "purgeStore" => target[c] \in Jobs
      /\ \A c \in Clients : cpc[c] = "purgeStore" /\ AtPage(j) => target[c] # j
  BY WorkerMoves DEF Waited, JInv, Placed
<1>1. /\ \A k \in Jobs : Seed[k] \in Origins /\ Seed[k] # Nobody
      /\ \A k \in Jobs : \A u \in Site[k] : u \in Urls
  BY JobConstants, NobodyAssumption
<1>2. visited \subseteq Urls /\ metadata \in Index /\ postings \in Index
      /\ page \in [Jobs -> Urls \cup {Nobody}]
  BY DEF JInv, TypeOK
<1>3. \A k \in Jobs, u \in Urls : u \in Site[j] /\ u \in Site[k] => k = j
  BY DEF OwnSites
<1>4. ASSUME NEW u \in Urls, Fetch(j, u) PROVE Found'
  <2>1. /\ UNCHANGED <<visited, metadata, postings>> /\ u \in Site[j]
        /\ page' = [page EXCEPT ![j] = u] /\ wpc'[j] = "fetching"
    BY <1>4 DEF Fetch, trie, files, At, JInv, TypeOK
  <2>2. page'[j] = u /\ \A k \in Jobs : k # j => page'[k] = page[k]
    BY <1>2, <2>1
  <2> QED
    BY <1>0, <2>1, <2>2 DEF Clear
<1>5. CASE StoreMetadata(j)
  <2>1. /\ UNCHANGED <<visited, postings, page>> /\ wpc[j] = "fetching" /\ wpc'[j] = "index"
        /\ metadata' = [metadata EXCEPT ![page[j]] = Seed[j]]
    BY <1>5 DEF StoreMetadata, trie, files, At, JInv, TypeOK
  <2>2. /\ page[j] \in Site[j] /\ page[j] \in Urls /\ metadata'[page[j]] = Seed[j]
        /\ \A u \in Urls : u # page[j] => metadata'[u] = metadata[u]
    BY <1>1, <1>2, <2>1 DEF Index
  <2>3. metadata[page[j]] # Nobody => metadata[page[j]] = Seed[j]
    BY <1>3, <2>2
  <2>4. postings[page[j]] # Nobody => postings[page[j]] = Seed[j]
    BY <2>2, <2>3
  <2>5. \A k \in Jobs : k # j /\ wpc[k] \in {"index", "mark"} =>
                            page[k] \in Urls /\ page[k] # page[j]
    BY <1>1, <1>3, <2>2
  <2>6. \A c \in Clients : cpc[c] = "purgeStore" => metadata[page[j]] # Seed[target[c]]
    BY <1>0, <1>1, <2>1, <2>3 DEF OwnOrigins, AtPage
  <2> QED
    BY <1>0, <1>2, <2>1, <2>2, <2>3, <2>4, <2>5, <2>6 DEF Clear
<1>6. CASE IndexTokens(j)
  <2>1. /\ UNCHANGED <<visited, metadata, page>> /\ wpc[j] = "index" /\ wpc'[j] = "mark"
        /\ IF page[j] \in Textless
           THEN postings' = postings
           ELSE postings' = [postings EXCEPT ![page[j]] = IF @ = Nobody THEN Seed[j] ELSE @]
    BY <1>6 DEF IndexTokens, trie, At, JInv, TypeOK
  <2>2. page[j] \in Site[j] /\ page[j] \in Urls /\ metadata[page[j]] = Seed[j]
    BY <1>1, <2>1
  <2>0. CASE page[j] \in Textless
    BY <1>0, <1>1, <1>2, <2>0, <2>1, <2>2 DEF Clear
  <2> SUFFICES ASSUME page[j] \notin Textless PROVE Found'
    BY <2>0
  <2>3. postings'[page[j]] = Seed[j] /\ \A u \in Urls : u # page[j] => postings'[u] = postings[u]
    BY <1>2, <2>1, <2>2 DEF Index
  <2>4. \A k \in Jobs : k # j /\ wpc[k] = "mark" => page[k] \in Urls /\ page[k] # page[j]
    BY <1>1, <1>3, <2>2
  <2>5. \A c \in Clients : cpc[c] = "purgeStore" => Seed[target[c]] # Seed[j]
    BY <1>0, <2>1 DEF OwnOrigins, AtPage
  <2> QED
    BY <1>0, <1>1, <1>2, <2>1, <2>2, <2>3, <2>4, <2>5 DEF Clear
<1>7. CASE MarkVisited(j)
  <2>1. /\ UNCHANGED <<metadata, postings, page>> /\ wpc[j] = "mark"
        /\ wpc'[j] \in {"loop", "flush"} /\ visited' = visited \cup {page[j]}
    BY <1>7 DEF MarkVisited, trie, files, At, JInv, TypeOK
  <2>2. postings[page[j]] # Nobody \/ page[j] \in Textless
    BY <1>1, <2>1
  <2> QED
    BY <1>0, <2>1, <2>2 DEF Clear
<1>8. ASSUME UNCHANGED <<visited, metadata, postings, page>>,
             wpc'[j] \notin {"fetching", "index", "mark"}
      PROVE  Found'
  BY <1>0, <1>8 DEF Clear
<1>9. \/ \E u \in Urls : Fetch(j, u)
      \/ StoreMetadata(j) \/ IndexTokens(j) \/ MarkVisited(j)
      \/ /\ UNCHANGED <<visited, metadata, postings, page>>
         /\ wpc'[j] \notin {"fetching", "index", "mark"}
  BY DEF Worker, SkipVisited, FetchFails, FlushGate, Walk, WriteShards, LeaveLoop,
     FinalizeGate, ArchiveFinal, AfterFlush, At, trie, files, JInv, TypeOK
<1> QED
  BY <1>4, <1>5, <1>6, <1>7, <1>8, <1>9

LEMMA FoundByApi ==
    ASSUME OwnOrigins, JInv, Waited, Found, NEW c \in Clients, Api(c)
    PROVE  Found'
<1> USE DEF Found
<1>0. /\ \A k \in Jobs : Seed[k] \in Origins /\ Seed[k] # Nobody
      /\ \A k \in Jobs : \A u \in Site[k] : u \in Urls
      /\ visited \subseteq Urls /\ metadata \in Index /\ postings \in Index
      /\ page' = page
      /\ \A k \in Jobs : wpc[k] \in {"index", "mark"} => page[k] \in Urls
      /\ \A d \in Clients : cpc[d] = "purgeStore" => target[d] \in Jobs
  BY JobConstants, NobodyAssumption
  DEF JInv, TypeOK, Placed, Api, Delete, Reset, Register, Persist, Start,
      StopJob, Drop, DropUnknown, StopDropped, JoinDropped, ArchiveDeleted, PurgeRecord,
      PurgeTrie, PurgeStore, Abort, StopAll, ListAll, JoinAll, ClearRegistry, ClearTrie,
      ClearStore, PurgeShards, Allow, Handler
<1>1. \A d \in Clients : d # c => cpc'[d] = cpc[d] /\ target'[d] = target[d]
  BY DEF JInv, TypeOK, Api, Delete, Reset, Register, Persist, Start,
      StopJob, Drop, DropUnknown, StopDropped, JoinDropped, ArchiveDeleted, PurgeRecord,
      PurgeTrie, PurgeStore, Abort, StopAll, ListAll, JoinAll, ClearRegistry, ClearTrie,
      ClearStore, PurgeShards, Allow, Handler
<1>2. CASE PurgeTrie(c)
  <2>1. /\ Handler(c, "purgeTrie", "purgeStore") /\ UNCHANGED <<wpc, target, visited, metadata>>
        /\ target[c] \in Jobs
        /\ postings' = Without(postings, OfOrigin(postings, Seed[target[c]]))
    BY <1>2 DEF PurgeTrie, Handler, store, JInv, Placed
  <2>2. \A u \in Urls : postings'[u] = IF postings[u] = Seed[target[c]] THEN Nobody
                                                                        ELSE postings[u]
    BY <2>1 DEF Without, OfOrigin
  <2>3. cpc[c] = "purgeTrie" /\ cpc'[c] = "purgeStore"
    BY <2>1, HandlerMoves
  <2>4. \A k \in Jobs : wpc[k] = "mark" => Seed[k] # Seed[target[c]]
    BY <2>1, <2>3 DEF Waited, AtPage, OwnOrigins
  <2>5. \A d \in Clients : cpc'[d] # "clearStore"
    BY <1>1, <2>3 DEF Waited
  <2>6. ASSUME NEW u \in visited \ Textless
        PROVE  \/ postings'[u] # Nobody
               \/ \E d \in Clients : cpc'[d] = "purgeStore" /\ metadata[u] = Seed[target[d]]
    <3>1. CASE postings[u] = Nobody
      <4>1. PICK d \in Clients : cpc[d] = "purgeStore" /\ metadata[u] = Seed[target[d]]
        BY <1>1, <2>3, <2>5, <2>6, <3>1
      <4> QED
        BY <1>1, <2>3, <4>1
    <3>2. CASE postings[u] = Seed[target[c]]
      BY <1>0, <2>1, <2>3, <2>6, <3>2
    <3> QED
      BY <1>0, <2>2, <2>6, <3>1, <3>2
  <2> QED
    BY <1>0, <1>1, <2>1, <2>2, <2>3, <2>4, <2>5, <2>6 DEF Clear
<1>3. CASE PurgeStore(c)
  <2>1. /\ Handler(c, "purgeStore", "ready") /\ UNCHANGED <<wpc, postings>>
        /\ target[c] \in Jobs
        /\ metadata' = Without(metadata, OfOrigin(metadata, Seed[target[c]]))
        /\ visited' = visited \ OfOrigin(metadata, Seed[target[c]])
    BY <1>3 DEF PurgeStore, Handler, PurgedVisited, trie, files, JInv, Placed
  <2>2. \A u \in Urls : metadata'[u] = IF metadata[u] = Seed[target[c]] THEN Nobody
                                                                        ELSE metadata[u]
    BY <2>1 DEF Without, OfOrigin
  <2>3. cpc[c] = "purgeStore" /\ cpc'[c] = "ready" /\ Clear(postings, target[c])
    BY <2>1, HandlerMoves
  <2>4. \A k \in Jobs : wpc[k] \in {"index", "mark"} => Seed[k] # Seed[target[c]]
    BY <2>1, <2>3 DEF Waited, AtPage, OwnOrigins
  <2>5. \A d \in Clients : cpc[d] # "clearStore"
    BY <2>3 DEF Waited
  <2>6. ASSUME NEW u \in visited' \ Textless
        PROVE  \/ postings'[u] # Nobody
               \/ \E d \in Clients : cpc'[d] = "purgeStore" /\ metadata'[u] = Seed[target'[d]]
    <3>1. u \in Urls /\ u \in visited /\ metadata[u] # Seed[target[c]]
      BY <1>0, <2>1, <2>6 DEF OfOrigin
    <3>2. CASE postings[u] # Nobody
      BY <2>1, <3>2
    <3>3. ASSUME NEW d \in Clients, cpc[d] = "purgeStore", metadata[u] = Seed[target[d]]
          PROVE  cpc'[d] = "purgeStore" /\ metadata'[u] = Seed[target'[d]]
      BY <1>1, <2>2, <3>1, <3>3
    <3> QED
      BY <2>5, <3>1, <3>2, <3>3
  <2> QED
    BY <1>0, <1>1, <2>1, <2>2, <2>3, <2>4, <2>5, <2>6 DEF Clear
<1>4. CASE ClearTrie(c)
  <2>1. /\ Handler(c, "clearTrie", "clearStore") /\ UNCHANGED <<wpc, metadata, visited>>
        /\ postings' = NoPostings
    BY <1>4 DEF ClearTrie, store
  <2>2. /\ cpc'[c] = "clearStore" /\ \A k \in Jobs : ~Live(k)
        /\ \A d \in Clients : d = c
    BY <2>1, HandlerMoves DEF Waited
  <2> QED
    BY <1>0, <2>1, <2>2 DEF Live, NoPostings
<1>5. CASE ClearStore(c)
  <2>1. /\ Handler(c, "clearStore", "purgeShards") /\ UNCHANGED <<wpc, postings>>
        /\ metadata' = NoPostings /\ visited' = {}
    BY <1>5 DEF ClearStore, trie, files
  <2>2. /\ cpc'[c] = "purgeShards" /\ postings = NoPostings /\ \A k \in Jobs : ~Live(k)
        /\ \A d \in Clients : d = c
    BY <2>1, HandlerMoves DEF Waited
  <2> QED
    BY <1>0, <2>1, <2>2 DEF Live, NoPostings
<1>6. ASSUME UNCHANGED <<visited, metadata, postings>>,
             cpc[c] \notin {"purgeStore", "clearStore"},
             cpc'[c] \notin {"purgeStore", "clearStore"},
             \A k \in Jobs : wpc'[k] = wpc[k] \/ wpc'[k] = "loop"
      PROVE  Found'
  BY <1>0, <1>1, <1>6 DEF Clear
<1>7. \/ PurgeTrie(c) \/ PurgeStore(c) \/ ClearTrie(c) \/ ClearStore(c)
      \/ /\ UNCHANGED <<visited, metadata, postings>>
         /\ cpc[c] \notin {"purgeStore", "clearStore"}
         /\ cpc'[c] \notin {"purgeStore", "clearStore"}
         /\ \A k \in Jobs : wpc'[k] = wpc[k] \/ wpc'[k] = "loop"
  BY DEF Api, Delete, Reset, Register, Persist, Start, StopJob, Drop, DropUnknown,
     StopDropped, JoinDropped, ArchiveDeleted, PurgeRecord, Abort, StopAll, ListAll, JoinAll,
     ClearRegistry, PurgeShards, Allow, Handler, store, trie, files, JInv, TypeOK
<1> QED
  BY <1>2, <1>3, <1>4, <1>5, <1>6, <1>7

LEMMA FoundSteps ==
    ASSUME OwnOrigins, OwnSites, JInv, Waited, Found, [Next]_vars
    PROVE  Found'
<1>1. CASE UNCHANGED vars
  BY <1>1 DEF vars, store, trie, files, worker, client, Found, Clear
<1> QED
  BY <1>1, FoundByWorker, FoundByApi DEF Next

LEMMA FoundStarts == Init => Found
BY DEF Init, Found, NoPostings

LEMMA FoundMeans == Found => VisitedIsSearchable
BY DEF Found, VisitedIsSearchable, Quiet

\* With one caller, joins that succeed and jobs on sites of their own, a URL that the
\* crawlers skip as visited is one that search can find, if it has any text, whatever was
\* deleted or reset before: no delete leaves a page visited whose postings it took.
THEOREM VisitedStaysSearchable ==
    ASSUME OneClient, OwnOrigins, OwnSites, JoinTimesOut = FALSE
    PROVE  Spec => []VisitedIsSearchable
<1>1. JInv /\ Accounted /\ [Next]_vars => Accounted'
  BY AccountedSteps
<1>2. JInv /\ Accounted => Waited
  BY DEF OneClient, JInv, Placed, Accounted, Waited, AtPage, Live, Purging, Wiping
<1>3. JInv /\ Accounted /\ Found /\ [Next]_vars => Found'
  BY <1>2, FoundSteps
<1> QED
  BY <1>1, <1>3, FoundStarts, FoundMeans, AccountedStarts, JInvHolds, PTL DEF Spec

-----------------------------------------------------------------------------
(* Many callers *)

Deleting == {"stop", "join"} \cup Purging
Resetting == {"stopAll", "listAll", "joinAll"} \cup Wiping

\* No two requests at once delete the same job.
ApartDeletes ==
    \A c, d \in Clients :
        c # d /\ cpc[c] \in Deleting /\ cpc[d] \in Deleting => target[c] # target[d]

Known(j) == j \in jobs \/ wpc[j] # "unborn" \/ \E c \in Clients : Created(j, c)

\* A job that was created is in the registry, about to be joined, or finished, and a
\* delete purges what has finished, found in the registry or not.
Settled ==
    /\ \A j \in Jobs : Known(j) =>
           \/ j \in registry \/ Finished(j)
           \/ \E c \in Clients : cpc[c] \in {"stop", "join"} /\ target[c] = j
    /\ \A c \in Clients :
           /\ cpc[c] = "join" => stopped[target[c]]
           /\ cpc[c] \in Purging => Finished(target[c])
           /\ cpc[c] \notin Resetting

LEMMA SettledSteps ==
    ASSUME MaxResets = 0, JoinTimesOut = FALSE, JInv, Settled, ApartDeletes', [Next]_vars
    PROVE  Settled'
<1> USE DEF Settled, Known, Created, Purging, Resetting, Wiping
<1>0. \A c \in Clients : cpc[c] \in Purging \cup {"persist", "start", "stop", "join"} =>
                             target[c] \in Jobs
  BY DEF JInv, Placed
<1>1. ASSUME NEW j \in Jobs, Worker(j) PROVE Settled'
  <2>1. /\ UNCHANGED <<registry, jobs, cpc, target, stopped>>
        /\ \A k \in Jobs : Finished(k) => Finished(k)'
        /\ \A k \in Jobs : wpc[k] = "unborn" => wpc'[k] = "unborn"
    BY <1>1, WorkerMoves DEF Finished, Live
  <2> QED
    BY <1>0, <2>1
<1>2. ASSUME NEW c \in Clients, Api(c) PROVE Settled'
  <2>1. \A j \in Jobs : /\ Finished(j) => Finished(j)'
                        /\ stopped[j] => stopped'[j]
    BY <1>2, ApiKeepsClear
  <2> USE <1>0, <2>1
  <2>2. ASSUME NEW j \in Jobs, Register(c, j) PROVE Settled'
    <3>1. /\ Handler(c, "ready", "persist") /\ UNCHANGED <<jobs, wpc>>
          /\ registry' = registry \cup {j} /\ target'[c] = j
          /\ \A d \in Clients : d # c => target'[d] = target[d]
      BY <2>2 DEF Register, store, JInv, TypeOK
    <3> QED
      BY <3>1, HandlerMoves
  <2>3. CASE Persist(c)
    <3>1. /\ Handler(c, "persist", "start") /\ jobs' = jobs \cup {target[c]}
          /\ UNCHANGED <<registry, wpc, target>>
      BY <2>3 DEF Persist
    <3> QED
      BY <3>1, HandlerMoves
  <2>4. CASE Start(c)
    <3>1. /\ Handler(c, "start", "ready") /\ UNCHANGED <<registry, jobs>>
          /\ wpc' = [wpc EXCEPT ![target[c]] = "loop"]
          /\ \A d \in Clients : d # c => target'[d] = target[d]
      BY <2>4 DEF Start, store, JInv, TypeOK
    <3>2. \A k \in Jobs : k # target[c] => wpc'[k] = wpc[k]
      BY <3>1 DEF JInv, TypeOK
    <3>3. target[c] \in Jobs /\ Created(target[c], c)
      BY <3>1, HandlerMoves
    <3> QED
      BY <3>1, <3>2, <3>3, HandlerMoves
  <2>5. ASSUME NEW j \in Jobs, StopJob(c, j) PROVE Settled'
    <3>1. Handler(c, "ready", "ready") /\ UNCHANGED <<registry, jobs, wpc, target>>
      BY <2>5 DEF StopJob, store
    <3> QED
      BY <3>1, HandlerMoves
  <2>6. ASSUME NEW j \in Jobs, Drop(c, j) PROVE Settled'
    <3>1. /\ Handler(c, "ready", "stop") /\ UNCHANGED <<jobs, wpc>>
          /\ registry' = registry \ {j} /\ target'[c] = j
          /\ \A d \in Clients : d # c => target'[d] = target[d]
      BY <2>6 DEF Drop, store, JInv, TypeOK
    <3> QED
      BY <3>1, HandlerMoves
  <2>7. ASSUME NEW j \in Jobs, DropUnknown(c, j) PROVE Settled'
    <3>1. PICK to \in {"purgeRecord", "ready"} :
              /\ Handler(c, "ready", to)
              /\ to = "purgeRecord" => j \in jobs /\ target'[c] = j
      BY <2>7 DEF DropUnknown, JInv, TypeOK
    <3>2. /\ UNCHANGED <<registry, jobs, wpc>> /\ j \notin registry
          /\ \A d \in Clients : d # c => target'[d] = target[d]
      BY <2>7 DEF DropUnknown, store, JInv, TypeOK
    <3>3. to = "purgeRecord" => Finished(j)
      <4> SUFFICES ASSUME to = "purgeRecord", ~Finished(j) PROVE FALSE
        OBVIOUS
      <4>1. PICK d \in Clients : cpc[d] \in {"stop", "join"} /\ target[d] = j
        BY <3>1, <3>2
      <4>2. d # c /\ cpc'[d] = cpc[d] /\ target'[d] = j
        BY <3>1, <3>2, <4>1, HandlerMoves
      <4>3. cpc'[c] = "purgeRecord" /\ target'[c] = j
        BY <3>1, HandlerMoves
      <4> QED
        BY <4>1, <4>2, <4>3 DEF ApartDeletes, Deleting
    <3> QED
      BY <3>1, <3>2, <3>3, HandlerMoves
  <2>8. CASE StopDropped(c)
    <3>1. /\ Handler(c, "stop", "join") /\ UNCHANGED <<registry, jobs, wpc, target>>
          /\ stopped' = [stopped EXCEPT ![target[c]] = TRUE]
      BY <2>8 DEF StopDropped, store
    <3>2. stopped'[target[c]]
      BY <3>1, HandlerMoves DEF JInv, TypeOK
    <3> QED
      BY <3>1, <3>2, HandlerMoves
  <2>9. CASE JoinDropped(c)
    <3>1. /\ Handler(c, "join", "archive") /\ wpc[target[c]] \in {"dead", "unborn"}
          /\ UNCHANGED <<registry, jobs, wpc, target>>
      BY <2>9 DEF JoinDropped, Joined, store
    <3>2. Finished(target[c])
      BY <3>1, HandlerMoves DEF Finished
    <3> QED
      BY <3>1, <3>2, HandlerMoves
  <2>10. CASE ArchiveDeleted(c) \/ PurgeRecord(c) \/ PurgeTrie(c)
    <3>1. \E from \in {"archive", "purgeRecord", "purgeTrie"},
             to \in {"purgeRecord", "purgeTrie", "purgeStore"} : Handler(c, from, to)
      BY <2>10 DEF ArchiveDeleted, PurgeRecord, PurgeTrie
    <3>2. UNCHANGED <<registry, wpc, target>> /\ jobs' \subseteq jobs
      BY <2>10 DEF ArchiveDeleted, PurgeRecord, PurgeTrie, store
    <3> QED
      BY <3>1, <3>2, HandlerMoves
  <2>11. CASE PurgeStore(c)
    <3>1. /\ Handler(c, "purgeStore", "ready") /\ UNCHANGED <<registry, jobs, wpc>>
          /\ \A d \in Clients : d # c => target'[d] = target[d]
      BY <2>11 DEF PurgeStore, JInv, TypeOK
    <3> QED
      BY <3>1, HandlerMoves
  <2>12. ~Reset(c)
    <3>1. resets \in Nat
      BY DEF JInv, TypeOK
    <3>2. ~Abort(c)
      BY <3>1 DEF Abort
    <3>3. cpc[c] \notin Resetting
      OBVIOUS
    <3> QED
      BY <3>2, <3>3
      DEF Reset, StopAll, ListAll, JoinAll, ClearRegistry, ClearTrie, ClearStore, PurgeShards,
          Allow, Handler
  <2> QED
    BY <1>2, <2>2, <2>3, <2>4, <2>5, <2>6, <2>7, <2>8, <2>9, <2>10, <2>11, <2>12
    DEF Api, Delete
<1>3. CASE UNCHANGED vars
  BY <1>3 DEF vars, store, worker, client, Finished
<1> QED
  BY <1>1, <1>2, <1>3 DEF Next

\* The same with any number of callers, if nothing is reset: creations, stops and deletes
\* may interleave, and a job may be deleted before it starts and again long after, as long
\* as no two requests delete it at once.
THEOREM VisitedStaysSearchableForMany ==
    ASSUME MaxResets = 0, OwnOrigins, OwnSites, JoinTimesOut = FALSE
    PROVE  Spec /\ []ApartDeletes => []VisitedIsSearchable
<1>1. Init => Settled
  BY DEF Init, Settled, Known, Created, Purging, Resetting, Wiping
<1>2. JInv /\ Settled /\ ApartDeletes' /\ [Next]_vars => Settled'
  BY SettledSteps
<1>3. JInv /\ Settled => Waited
  BY DEF JInv, Placed, Settled, Finished, Waited, AtPage, Purging, Resetting, Wiping
<1>4. JInv /\ Settled /\ Found /\ [Next]_vars => Found'
  BY <1>3, FoundSteps
<1> QED
  BY <1>1, <1>2, <1>4, FoundStarts, FoundMeans, JInvHolds, PTL DEF Spec
=============================================================================
