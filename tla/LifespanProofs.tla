--------------------------- MODULE LifespanProofs ---------------------------
(***************************************************************************)
(* Safety of the exporter, and of the two persistent halves together, for  *)
(* any number of workers, requests, pages and shards and any assignment of *)
(* tokens to pages and shards.                                             *)
(*                                                                         *)
(* First TrieExport alone.  What an export has Passed, it has brought to   *)
(* disk: an export that is not outdated still holds the index, and a shard *)
(* it has passed is on disk, or behind, when an outdated export has put it *)
(* since (Settled, RaceInv).  The export of a shutdown whose joins         *)
(* succeeded is never outdated and disturbed by nobody (Landed,            *)
(* LastExport); neither is any export when one worker is all there is      *)
(* (SoleInv), and then the files refine DurableStore.                      *)
(*                                                                         *)
(* Then the lifespan.  Its index half is EInv again: every step is one of  *)
(* TrieExport's or leaves its variables alone (IndexStep).  The crawl half *)
(* adds what a worker has already done for its page (OnPage), how far in   *)
(* the future a mark may lie (Expiry), that marks and what they promise    *)
(* agree while they count, in memory (Kept) and in the file (KeptFile).    *)
(***************************************************************************)
EXTENDS Lifespan, TLAPS

LOCAL INSTANCE FiniteSetsExt

Working(x) == pc[x] \in {"write", "sweep"}

\* x has written or swept shard sh, or found nothing there to sweep.
Passed(x, sh) ==
    IF HasPostings(snap[x], sh)
    THEN Working(x) /\ sh \notin todo[x]
    ELSE pc[x] = "sweep" /\ sh \notin listed[x]

Settled(x) ==
    \A w \in Words : Passed(x, ShardOf[w]) => OnDisk(w) \/ ShardOf[w] \in behind

Landed(x) == \A w \in Words : Passed(x, ShardOf[w]) => OnDisk(w)

RaceInv ==
    \A x \in Exporters :
        Working(x) /\ x \notin outdated => snap[x] = trie /\ Settled(x)

LastExport ==
    (ShuttingDown /\ ~outlived) =>
        /\ WorkersQuiet /\ Drained
        /\ Working(Main) => snap[Main] = trie
        /\ Landed(Main)
        /\ pc[Main] = "exited" => \A w \in Words : OnDisk(w)

EInv == TypeOK /\ RaceInv /\ CleanMeansOnDisk /\ LastExport

LEMMA ExportTypes ==
    /\ Main \in Exporters /\ Workers \subseteq Exporters /\ Requests \subseteq Exporters
    /\ Empty \in Index
    /\ \A w \in Words : ShardOf[w] \in Shards
BY ShardOfAssumption DEF Exporters, Empty, Index

\* A word with postings gives its shard postings.
LEMMA ShardHasPostings ==
    ASSUME NEW index, NEW w \in Words, index[w] # 0
    PROVE  HasPostings(index, ShardOf[w])
BY DEF HasPostings, WordsOf

\* Replacing a shard changes the words of that shard only.
LEMMA ShardImageFacts ==
    ASSUME TypeOK, NEW x \in Exporters, NEW sh
    PROVE  /\ ShardImage(x, sh) \in Index
           /\ \A w \in Words : ShardImage(x, sh)[w] =
                  IF ShardOf[w] = sh THEN snap[x][w] ELSE disk[w]
BY DEF ShardImage, WordsOf, TypeOK, Index

-----------------------------------------------------------------------------
(* One exporter *)

\* What a step of an export does to the rest: nothing to the index, and the
\* lifespan thread only gets further.
LEMMA ExportFrame ==
    ASSUME TypeOK, NEW x \in Exporters, Export(x)
    PROVE  /\ trie' = trie /\ outlived' = outlived
           /\ clock' = clock /\ purges' = purges
           /\ Running
           /\ outdated' \in {outdated, outdated \ {x}}
           /\ \A y \in Exporters \ {x} :
                  /\ pc'[y] = pc[y] /\ snap'[y] = snap[y]
                  /\ todo'[y] = todo[y] /\ listed'[y] = listed[y]
           /\ pc[x] # "idle" => (x = Main => pc'[x] # "idle")
BY DEF Export, Begin, Walk, ListShards, ExportFails, ExportDone, Return, WriteShard,
       SweepShard, SweepFails, Go, TypeOK, bounds, races

\* What a step leaves alone is as passed as it was.
LEMMA PassedKept ==
    ASSUME NEW x \in Exporters, pc'[x] = pc[x], snap'[x] = snap[x], todo'[x] = todo[x],
           listed'[x] = listed[x], NEW sh
    PROVE  Passed(x, sh)' = Passed(x, sh)
BY DEF Passed, Working, HasPostings

\* A step of an export that holds the index: the shard it passes is on disk, and
\* the others stay as they are.
LEMMA OwnStep ==
    ASSUME TypeOK, NEW x \in Exporters, Working(x) => snap[x] = trie, Export(x),
           NEW w \in Words, Passed(x, ShardOf[w])'
    PROVE  \/ OnDisk(w)'
           \/ /\ Passed(x, ShardOf[w])
              /\ disk'[w] = disk[w]
              /\ ShardOf[w] \in leftover => ShardOf[w] \in leftover'
              /\ ShardOf[w] \in behind => ShardOf[w] \in behind'
<1> USE ExportTypes
<1>0. trie' = trie
  BY ExportFrame
<1>1. Working(x)'
  BY DEF Passed, Working
<1>2. CASE Begin(x) \/ ExportFails(x) \/ ExportDone(x)
  BY <1>1, <1>2 DEF Begin, ExportFails, ExportDone, Return, Go, TypeOK, Working
<1>3. CASE Walk(x)
  <2>1. /\ pc'[x] = "write" /\ snap'[x] = trie
        /\ todo'[x] = {sh \in Shards : HasPostings(trie, sh)}
    BY <1>3 DEF Walk, Go, TypeOK
  <2> QED
    BY <2>1 DEF Passed, HasPostings
<1>4. CASE ListShards(x)
  <2>1. /\ pc[x] = "write" /\ snap'[x] = snap[x] /\ todo'[x] = todo[x] /\ disk' = disk
        /\ listed'[x] = {sh \in Shards : HasPostings(disk, sh)}
        /\ behind' = behind /\ leftover' = leftover
    BY <1>4 DEF ListShards, Go, TypeOK, races
  <2>2. CASE HasPostings(snap[x], ShardOf[w])
    BY <2>1, <2>2 DEF Passed, HasPostings, Working
  <2>3. CASE ~HasPostings(snap[x], ShardOf[w])
    <3>1. ShardOf[w] \notin listed'[x]
      BY <2>1, <2>3 DEF Passed, HasPostings
    <3>2. disk[w] = 0 /\ snap[x][w] = 0
      BY <2>1, <2>3, <3>1, ShardHasPostings
    <3> QED
      BY <1>0, <2>1, <3>2 DEF OnDisk, Working
  <2> QED
    BY <2>2, <2>3
<1>5. ASSUME NEW sh \in Shards, WriteShard(x, sh)
      PROVE  \/ OnDisk(w)'
             \/ /\ Passed(x, ShardOf[w]) /\ disk'[w] = disk[w]
                /\ ShardOf[w] \in leftover => ShardOf[w] \in leftover'
                /\ ShardOf[w] \in behind => ShardOf[w] \in behind'
  <2>1. /\ pc[x] = "write" /\ pc' = pc /\ snap' = snap /\ listed' = listed
        /\ todo'[x] = todo[x] \ {sh} /\ PutShard(x, sh)
    BY <1>5 DEF WriteShard, Go, TypeOK
  <2>2. CASE ShardOf[w] = sh
    BY <1>0, <2>1, <2>2, ShardImageFacts DEF PutShard, OnDisk, Working
  <2>3. CASE ShardOf[w] # sh
    BY <2>1, <2>3, ShardImageFacts DEF PutShard, Passed, HasPostings, Working
  <2> QED
    BY <2>2, <2>3
<1>6. ASSUME NEW sh \in Shards, SweepShard(x, sh)
      PROVE  \/ OnDisk(w)'
             \/ /\ Passed(x, ShardOf[w]) /\ disk'[w] = disk[w]
                /\ ShardOf[w] \in leftover => ShardOf[w] \in leftover'
                /\ ShardOf[w] \in behind => ShardOf[w] \in behind'
  <2>1. /\ pc[x] = "sweep" /\ pc' = pc /\ snap' = snap /\ todo' = todo
        /\ listed'[x] = listed[x] \ {sh}
        /\ IF HasPostings(snap[x], sh)
           THEN UNCHANGED <<disk, behind, leftover>>
           ELSE PutShard(x, sh)
    BY <1>6 DEF SweepShard, Go, TypeOK
  <2>2. CASE ShardOf[w] = sh /\ ~HasPostings(snap[x], sh)
    BY <1>0, <2>1, <2>2, ShardImageFacts DEF PutShard, OnDisk, Working
  <2>3. CASE ~(ShardOf[w] = sh /\ ~HasPostings(snap[x], sh))
    <3>1. Passed(x, ShardOf[w])
      BY <2>1, <2>3 DEF Passed, HasPostings, Working
    <3> QED
      BY <2>1, <2>3, <3>1, ShardImageFacts DEF PutShard
  <2> QED
    BY <2>2, <2>3
<1>7. ASSUME NEW sh \in Shards, SweepFails(x, sh)
      PROVE  \/ OnDisk(w)'
             \/ /\ Passed(x, ShardOf[w]) /\ disk'[w] = disk[w]
                /\ ShardOf[w] \in leftover => ShardOf[w] \in leftover'
                /\ ShardOf[w] \in behind => ShardOf[w] \in behind'
  <2>1. /\ pc[x] = "sweep" /\ pc' = pc /\ snap' = snap /\ todo' = todo /\ disk' = disk
        /\ ~HasPostings(snap[x], sh)
        /\ listed'[x] = listed[x] \ {sh}
        /\ behind' = behind /\ leftover' = leftover \cup {sh}
    BY <1>7 DEF SweepFails, Go, TypeOK
  <2>2. CASE ShardOf[w] = sh
    BY <1>0, <2>1, <2>2, ShardHasPostings DEF OnDisk, Working
  <2>3. CASE ShardOf[w] # sh
    BY <2>1, <2>3 DEF Passed, HasPostings, Working
  <2> QED
    BY <2>2, <2>3
<1> QED
  BY <1>2, <1>3, <1>4, <1>5, <1>6, <1>7 DEF Export

\* At the end of an export everything is passed.
LEMMA AllPassed ==
    ASSUME TypeOK, NEW x \in Exporters, pc[x] = "sweep", listed[x] = {}, NEW sh
    PROVE  Passed(x, sh)
BY DEF TypeOK, Passed, Working

\* What is on disk or behind stays so, whoever exports: an outdated export leaves
\* what it puts behind, another one puts what the index holds.
LEMMA ExportKeepsDisk ==
    ASSUME TypeOK, RaceInv, NEW x \in Exporters, Export(x), NEW w \in Words,
           OnDisk(w) \/ ShardOf[w] \in behind
    PROVE  (OnDisk(w) \/ ShardOf[w] \in behind)'
<1>0. trie' = trie
  BY ExportFrame
<1>1. ASSUME NEW sh \in Shards, Working(x), PutShard(x, sh)
      PROVE  (OnDisk(w) \/ ShardOf[w] \in behind)'
  <2>1. disk'[w] = IF ShardOf[w] = sh THEN snap[x][w] ELSE disk[w]
    BY <1>1, ShardImageFacts DEF PutShard
  <2>2. CASE ShardOf[w] = sh
    BY <1>0, <1>1, <2>1, <2>2 DEF PutShard, OnDisk, RaceInv
  <2>3. CASE ShardOf[w] # sh
    BY <1>0, <1>1, <2>1, <2>3 DEF PutShard, OnDisk
  <2> QED
    BY <2>2, <2>3
<1>2. CASE disk' = disk /\ leftover \subseteq leftover' /\ behind' = behind
  BY <1>0, <1>2 DEF OnDisk
<1>3. ASSUME NEW sh \in Shards, WriteShard(x, sh) \/ SweepShard(x, sh)
      PROVE  (OnDisk(w) \/ ShardOf[w] \in behind)'
  <2>1. Working(x) /\ (PutShard(x, sh) \/ UNCHANGED <<disk, behind, leftover>>)
    BY <1>3 DEF WriteShard, SweepShard, Go, Working
  <2> QED
    BY <1>1, <1>2, <2>1
<1>4. ASSUME NEW sh \in Shards, SweepFails(x, sh)
      PROVE  (OnDisk(w) \/ ShardOf[w] \in behind)'
  BY <1>2, <1>4 DEF SweepFails
<1>5. CASE Begin(x) \/ Walk(x) \/ ListShards(x) \/ ExportFails(x) \/ ExportDone(x)
  BY <1>2, <1>5 DEF Begin, Walk, ListShards, ExportFails, ExportDone, races
<1> QED
  BY <1>3, <1>4, <1>5 DEF Export

-----------------------------------------------------------------------------
(* Types *)

LEMMA EmptyExporters ==
    ASSUME pc' = [x \in Exporters |-> "idle"], snap' = [x \in Exporters |-> Empty],
           todo' = [x \in Exporters |-> {}], listed' = [x \in Exporters |-> {}]
    PROVE  /\ pc' \in [Exporters -> {"idle", "walk", "write", "sweep", "exited", "exitedUnsaved"}]
           /\ snap' \in [Exporters -> Index]
           /\ todo' \in [Exporters -> SUBSET Shards]
           /\ listed' \in [Exporters -> SUBSET Shards]
           /\ \A x \in Exporters : /\ todo'[x] = {} /\ listed'[x] = {}
                                   /\ snap'[x] = Empty /\ pc'[x] = "idle"
BY ExportTypes

LEMMA ChangeTypes ==
    ASSUME TypeOK, failures' \in Nat,
           \/ \E x \in Workers, w \in Words : Insert(x, w)
           \/ \E W \in SUBSET Words : PurgeWords(W)
    PROVE  TypeOK'
<1> USE DEF TypeOK, Index, Changed, work
<1>1. ASSUME NEW x \in Workers, NEW w \in Words, Insert(x, w) PROVE TypeOK'
  BY <1>1 DEF Insert
<1>2. ASSUME NEW W \in SUBSET Words, PurgeWords(W) PROVE TypeOK'
  BY <1>2 DEF PurgeWords
<1> QED
  BY <1>1, <1>2

LEMMA DoneFlags ==
    ASSUME dirty \in BOOLEAN, overtaken \in BOOLEAN, NEW x, ExportDone(x)
    PROVE  dirty' \in BOOLEAN /\ overtaken' \in BOOLEAN
<1>1. CASE x \in Workers
  <2>1. dirty' = FALSE /\ overtaken' = (x \in outdated)
    BY <1>1 DEF ExportDone
  <2>2. (x \in outdated) \in BOOLEAN
    OBVIOUS
  <2> QED
    BY <2>1, <2>2, Zenon
<1>2. CASE x \notin Workers
  BY <1>2 DEF ExportDone
<1> QED
  BY <1>1, <1>2

LEMMA ExportStepTypes == ASSUME TypeOK, NEW x \in Exporters, Export(x) PROVE TypeOK'
<1> USE DEF TypeOK, Go, bounds, races
<1>1. CASE Begin(x)
  BY <1>1 DEF Begin
<1>2. CASE Walk(x)
  BY <1>2 DEF Walk
<1>3. CASE ListShards(x)
  BY <1>3 DEF ListShards
<1>4. CASE ExportFails(x)
  BY <1>4, ExportTypes DEF ExportFails, Return
<1>5. CASE ExportDone(x)
  <2>1. dirty' \in BOOLEAN /\ overtaken' \in BOOLEAN
    BY <1>5, DoneFlags
  <2>2. Return(x, "sweep", "exited") /\ UNCHANGED <<trie, disk, bounds, outlived, behind, leftover>>
    BY <1>5 DEF ExportDone
  <2> QED
    BY <2>1, <2>2, ExportTypes DEF Return
<1>6. ASSUME NEW sh \in Shards, WriteShard(x, sh) PROVE TypeOK'
  BY <1>6, ShardImageFacts DEF WriteShard, PutShard
<1>7. ASSUME NEW sh \in Shards, SweepShard(x, sh) PROVE TypeOK'
  BY <1>7, ShardImageFacts DEF SweepShard, PutShard
<1>8. ASSUME NEW sh \in Shards, SweepFails(x, sh) PROVE TypeOK'
  BY <1>8 DEF SweepFails
<1> QED
  BY <1>1, <1>2, <1>3, <1>4, <1>5, <1>6, <1>7, <1>8 DEF Export

LEMMA LifecycleTypes ==
    ASSUME TypeOK, Restart \/ \E ended \in BOOLEAN : ShutdownAfter(ended)
    PROVE  TypeOK'
<1> USE DEF TypeOK
<1>1. CASE Restart
  <2>1. /\ pc' \in [Exporters -> {"idle", "walk", "write", "sweep", "exited", "exitedUnsaved"}]
        /\ snap' \in [Exporters -> Index]
        /\ todo' \in [Exporters -> SUBSET Shards]
        /\ listed' \in [Exporters -> SUBSET Shards]
        /\ \A x \in Exporters : /\ todo'[x] = {} /\ listed'[x] = {}
                                /\ snap'[x] = Empty /\ pc'[x] = "idle"
    BY <1>1, EmptyExporters DEF Restart
  <2>2. dirty' \in BOOLEAN /\ outlived' \in BOOLEAN /\ overtaken' \in BOOLEAN
    BY <1>1 DEF Restart
  <2>3. /\ trie' \in Index /\ disk' \in Index
        /\ outdated' = {} /\ behind' = {} /\ leftover' = {}
        /\ clock' \in Nat /\ purges' \in Nat /\ failures' \in Nat /\ restarts' \in Nat
    BY <1>1 DEF Restart
  <2> QED
    BY <2>1, <2>2, <2>3
<1>2. ASSUME NEW ended \in BOOLEAN, ShutdownAfter(ended) PROVE TypeOK'
  BY <1>2, ExportTypes DEF ShutdownAfter, Joined, Go, races
<1> QED
  BY <1>1, <1>2

-----------------------------------------------------------------------------
(* A clean trie is on disk *)

LEMMA RaceExport ==
    ASSUME TypeOK, RaceInv, CleanMeansOnDisk, NEW x \in Exporters, Export(x)
    PROVE  RaceInv' /\ CleanMeansOnDisk'
<1>0. trie' = trie /\ outdated' \in {outdated, outdated \ {x}}
  BY ExportFrame
<1>1. RaceInv'
  <2> SUFFICES ASSUME NEW y \in Exporters, Working(y)', y \notin outdated'
               PROVE  snap'[y] = trie' /\ Settled(y)'
    BY DEF RaceInv
  <2>1. CASE y # x
    <3>1. /\ pc'[y] = pc[y] /\ snap'[y] = snap[y]
          /\ todo'[y] = todo[y] /\ listed'[y] = listed[y]
      BY <2>1, ExportFrame
    <3>2. snap[y] = trie /\ Settled(y)
      BY <1>0, <2>1, <3>1 DEF RaceInv, Working
    <3>3. ASSUME NEW w \in Words, Passed(y, ShardOf[w])'
          PROVE  (OnDisk(w) \/ ShardOf[w] \in behind)'
      BY <3>1, <3>2, <3>3, PassedKept, ExportKeepsDisk DEF Settled
    <3> QED
      BY <1>0, <3>1, <3>2, <3>3 DEF Settled
  <2>2. CASE y = x
    <3>1. /\ x \notin outdated /\ snap'[x] = trie
          /\ Working(x) => snap[x] = trie /\ Settled(x)
      BY <2>2
      DEF Export, Begin, Walk, ListShards, ExportFails, ExportDone, Return, WriteShard,
          SweepShard, SweepFails, Go, TypeOK, RaceInv, Working, races
    <3>2. ASSUME NEW w \in Words, Passed(x, ShardOf[w])'
          PROVE  (OnDisk(w) \/ ShardOf[w] \in behind)'
      <4>1. OnDisk(w)' \/ Passed(x, ShardOf[w])
        BY <3>1, <3>2, OwnStep
      <4>2. Passed(x, ShardOf[w]) => OnDisk(w) \/ ShardOf[w] \in behind
        BY <3>1 DEF Settled, Passed, Working
      <4> QED
        BY <4>1, <4>2, ExportKeepsDisk
    <3> QED
      BY <1>0, <2>2, <3>1, <3>2 DEF Settled
  <2> QED
    BY <2>1, <2>2
<1>2. CleanMeansOnDisk'
  <2> SUFFICES ASSUME ~dirty', ~overtaken', NEW w \in Words
               PROVE  (OnDisk(w) \/ ShardOf[w] \in behind)'
    BY DEF CleanMeansOnDisk
  <2>1. CASE x \in Workers /\ ExportDone(x)
    <3>1. /\ pc[x] = "sweep" /\ listed[x] = {} /\ x \notin outdated
      BY <2>1 DEF ExportDone, Return, Go
    <3>2. Passed(x, ShardOf[w])
      BY <3>1, AllPassed
    <3>3. OnDisk(w) \/ ShardOf[w] \in behind
      BY <3>1, <3>2 DEF RaceInv, Settled, Working
    <3> QED
      BY <3>3, ExportKeepsDisk
  <2>2. CASE ~(x \in Workers /\ ExportDone(x))
    <3>1. dirty' = dirty /\ overtaken' = overtaken
      BY <2>2 DEF Export, Begin, Walk, ListShards, ExportFails, ExportDone, WriteShard,
                  SweepShard, SweepFails, races
    <3> QED
      BY <3>1, ExportKeepsDisk DEF CleanMeansOnDisk
  <2> QED
    BY <2>1, <2>2
<1> QED
  BY <1>1, <1>2

\* A change outdates every export there is.
LEMMA RaceChange ==
    ASSUME TypeOK,
           \/ \E x \in Workers, w \in Words : Insert(x, w)
           \/ \E W \in SUBSET Words : PurgeWords(W)
    PROVE  RaceInv' /\ CleanMeansOnDisk'
<1>1. dirty' = TRUE /\ pc' = pc /\ outdated' = {x \in Exporters : Working(x)}
  BY DEF Insert, PurgeWords, Changed, work, Working
<1> QED
  BY <1>1 DEF RaceInv, CleanMeansOnDisk, Working

\* A step that leaves index, disk and their histories alone, and lets no export
\* get into its writes.
LEMMA RaceKept ==
    ASSUME RaceInv, CleanMeansOnDisk, UNCHANGED <<trie, disk, dirty, snap, todo, listed, races>>,
           \A x \in Exporters : Working(x)' => pc'[x] = pc[x]
    PROVE  RaceInv' /\ CleanMeansOnDisk'
<1>1. \A w \in Words : OnDisk(w)' = OnDisk(w)
  BY DEF OnDisk, races
<1>2. CleanMeansOnDisk'
  BY <1>1 DEF CleanMeansOnDisk, races
<1>3. ASSUME NEW x \in Exporters, Working(x)', x \notin outdated'
      PROVE  snap'[x] = trie' /\ Settled(x)'
  <2>1. \A sh : Passed(x, sh)' = Passed(x, sh)
    BY <1>3, PassedKept
  <2>2. Working(x) /\ x \notin outdated
    BY <1>3 DEF Working, races
  <2> QED
    BY <1>1, <2>1, <2>2 DEF RaceInv, Settled, races
<1> QED
  BY <1>2, <1>3 DEF RaceInv

-----------------------------------------------------------------------------
(* The last export *)

\* A step that leaves everything alone but what an export does not look at.
LEMMA LastExportKept ==
    ASSUME TypeOK, LastExport, UNCHANGED <<trie, disk, work, outlived, races>>
    PROVE  LastExport'
<1>1. \A w \in Words : OnDisk(w)' = OnDisk(w)
  BY DEF OnDisk, races
<1>2. \A sh : Passed(Main, sh)' = Passed(Main, sh)
  BY PassedKept, ExportTypes DEF work
<1> QED
  BY <1>1, <1>2 DEF LastExport, Landed, work, ShuttingDown, WorkersQuiet, Drained, Working

\* Nothing changes the index under the last export.
LEMMA LastExportAlone ==
    ASSUME TypeOK, LastExport,
           \/ \E x \in Workers, w \in Words : Insert(x, w)
           \/ \E W \in SUBSET Words : PurgeWords(W)
    PROVE  LastExport'
<1>1. ~(ShuttingDown /\ ~outlived) /\ UNCHANGED <<pc, outlived>>
  BY DEF Insert, PurgeWords, WorkersAlive, Changed, work
<1> QED
  BY <1>1 DEF LastExport, ShuttingDown

\* Until the shutdown, or after one that left workers behind, there is none.
LEMMA NotLastExport ==
    ASSUME ~(ShuttingDown' /\ ~outlived')
    PROVE  LastExport'
BY DEF LastExport

\* A step of somebody else's export: there is no last export.
LEMMA OthersExport ==
    ASSUME TypeOK, LastExport, NEW x \in Exporters, x # Main, Export(x)
    PROVE  LastExport'
<1>1. ~(ShuttingDown /\ ~outlived)
  <2> SUFFICES ASSUME ShuttingDown, ~outlived PROVE FALSE
    OBVIOUS
  <2>1. pc[x] = "idle" /\ x \in Workers \cup Requests
    BY DEF LastExport, WorkersQuiet, Drained, Exporters
  <2>2. Begin(x) \/ (x \in Requests /\ Walk(x))
    BY <2>1 DEF Export, Walk, ListShards, ExportFails, ExportDone, Return, WriteShard,
                SweepShard, SweepFails, Go
  <2> QED
    BY <2>1, <2>2 DEF Begin, Walk, WorkersAlive
<1>2. outlived' = outlived /\ pc'[Main] = pc[Main]
  BY ExportTypes, ExportFrame
<1> QED
  BY <1>1, <1>2, NotLastExport DEF ShuttingDown

\* A step of the last export itself.
LEMMA OwnExport ==
    ASSUME TypeOK, LastExport, Export(Main)
    PROVE  LastExport'
<1> SUFFICES ASSUME ShuttingDown', ~outlived'
             PROVE  /\ WorkersQuiet' /\ Drained'
                    /\ Working(Main)' => snap'[Main] = trie'
                    /\ Landed(Main)'
                    /\ pc'[Main] = "exited" => \A w \in Words : OnDisk(w)'
  BY DEF LastExport
<1>1. /\ trie' = trie /\ outlived' = outlived
      /\ pc[Main] \in {"walk", "write", "sweep"}
      /\ \A x \in Exporters \ {Main} : pc'[x] = pc[x]
  <2>1. pc[Main] \in {"walk", "write", "sweep"}
    BY ExportersAssumption
    DEF Export, Begin, Walk, ListShards, ExportFails, ExportDone, Return, WriteShard,
        SweepShard, SweepFails, Go
  <2> QED
    BY <2>1, ExportTypes, ExportFrame
<1>2. /\ WorkersQuiet /\ Drained /\ Landed(Main)
      /\ Working(Main) => snap[Main] = trie
  BY <1>1 DEF LastExport, ShuttingDown
<1>3. WorkersQuiet' /\ Drained'
  BY <1>1, <1>2, ExportTypes, ExportersAssumption DEF WorkersQuiet, Drained
<1>4. Landed(Main)'
  <2>1. ASSUME NEW w \in Words, Passed(Main, ShardOf[w])' PROVE OnDisk(w)'
    <3>1. CASE OnDisk(w)'
      BY <3>1
    <3>2. CASE /\ Passed(Main, ShardOf[w])
               /\ disk'[w] = disk[w]
               /\ ShardOf[w] \in leftover => ShardOf[w] \in leftover'
      BY <1>1, <1>2, <3>2 DEF Landed, OnDisk
    <3> QED
      BY <1>2, <2>1, <3>1, <3>2, OwnStep, ExportTypes
  <2> QED
    BY <2>1 DEF Landed
<1>5. Working(Main)' => snap'[Main] = trie
  BY <1>2, ExportTypes DEF Export, Begin, Walk, ListShards, ExportFails, ExportDone,
                           Return, WriteShard, SweepShard, SweepFails, Go, TypeOK, Working
<1>6. ASSUME pc'[Main] = "exited", NEW w \in Words PROVE OnDisk(w)'
  <2>1. ExportDone(Main)
    BY <1>1, <1>6, ExportTypes
    DEF Export, Begin, Walk, ListShards, ExportFails, ExportDone, Return, WriteShard,
        SweepShard, SweepFails, Go, TypeOK
  <2>2. pc[Main] = "sweep" /\ listed[Main] = {} /\ disk' = disk /\ leftover' = leftover
    BY <2>1 DEF ExportDone, Return, Go
  <2>3. OnDisk(w)
    BY <1>2, <2>2, AllPassed, ExportTypes DEF Landed
  <2> QED
    BY <1>1, <2>2, <2>3 DEF OnDisk
<1> QED
  BY <1>1, <1>3, <1>4, <1>5, <1>6

\* The shutdown of quiet workers starts the last export.
LEMMA LastExportBegins ==
    ASSUME TypeOK, NEW ended \in BOOLEAN, ended => WorkersQuiet, ShutdownAfter(ended)
    PROVE  LastExport'
<1> SUFFICES ASSUME ~outlived'
             PROVE  WorkersQuiet' /\ Drained' /\ pc'[Main] = "walk"
  BY DEF LastExport, Landed, Passed, Working
<1>1. /\ ended /\ Drained
      /\ pc'[Main] = "walk" /\ \A x \in Exporters \ {Main} : pc'[x] = pc[x]
  BY ExportTypes DEF ShutdownAfter, Go, TypeOK
<1> QED
  BY <1>1, ExportTypes, ExportersAssumption DEF WorkersQuiet, Drained

-----------------------------------------------------------------------------
(* The inductive invariant *)

\* What an actor other than an exporter does: the steps of Next, of modules that
\* add guards to them or count a failure, and of those that leave the index alone.
LEMMA EInvOther ==
    ASSUME EInv,
           \/ \E x \in Workers, w \in Words : Insert(x, w)
           \/ (\E W \in SUBSET Words : PurgeWords(W)) /\ failures' \in Nat
           \/ \E ended \in BOOLEAN : (ended => WorkersQuiet) /\ ShutdownAfter(ended)
           \/ Restart
           \/ UNCHANGED rest /\ failures' \in Nat
    PROVE  EInv'
<1> USE DEF EInv
<1>1. CASE \/ \E x \in Workers, w \in Words : Insert(x, w)
           \/ (\E W \in SUBSET Words : PurgeWords(W)) /\ failures' \in Nat
  <2>1. failures' \in Nat
    BY <1>1 DEF Insert, TypeOK
  <2> QED
    BY <1>1, <2>1, ChangeTypes, RaceChange, LastExportAlone
<1>2. ASSUME NEW ended \in BOOLEAN, ended => WorkersQuiet, ShutdownAfter(ended)
      PROVE  EInv'
  <2>1. /\ UNCHANGED <<trie, disk, dirty, snap, todo, listed, races>>
        /\ pc'[Main] = "walk" /\ \A x \in Exporters \ {Main} : pc'[x] = pc[x]
    BY <1>2, ExportTypes DEF ShutdownAfter, Go, TypeOK
  <2>2. RaceInv' /\ CleanMeansOnDisk'
    BY <2>1, RaceKept DEF Working
  <2> QED
    BY <1>2, <2>2, LifecycleTypes, LastExportBegins
<1>3. CASE Restart
  <2>1. /\ trie' = disk /\ disk' = disk /\ \A x \in Exporters : pc'[x] = "idle"
    BY <1>3 DEF Restart
  <2>2. RaceInv' /\ CleanMeansOnDisk' /\ LastExport'
    BY <2>1, NotLastExport, ExportTypes
    DEF RaceInv, CleanMeansOnDisk, OnDisk, Working, ShuttingDown
  <2> QED
    BY <1>3, <2>2, LifecycleTypes
<1>4. CASE UNCHANGED rest /\ failures' \in Nat
  <2>1. TypeOK'
    BY <1>4 DEF TypeOK, rest, work, races
  <2>2. RaceInv' /\ CleanMeansOnDisk'
    BY <1>4, RaceKept DEF rest, work
  <2>3. LastExport'
    BY <1>4, LastExportKept DEF rest
  <2> QED
    BY <2>1, <2>2, <2>3
<1> QED
  BY <1>1, <1>2, <1>3, <1>4

LEMMA EInvExport == ASSUME EInv, NEW x \in Exporters, Export(x) PROVE EInv'
BY ExportStepTypes, RaceExport, OthersExport, OwnExport DEF EInv

LEMMA EInvInit == Init => EInv
<1> SUFFICES ASSUME Init PROVE EInv
  OBVIOUS
<1>1. TypeOK
  BY ExportTypes DEF Init, TypeOK, Index, Empty
<1>2. RaceInv /\ CleanMeansOnDisk
  BY DEF Init, RaceInv, CleanMeansOnDisk, OnDisk, Working
<1>3. LastExport
  BY ExportTypes DEF Init, LastExport, ShuttingDown
<1> QED
  BY <1>1, <1>2, <1>3 DEF EInv

\* Types, the races of the exports and the last export make an inductive
\* invariant.
THEOREM EInvHolds == Spec => []EInv
<1>1. EInv /\ [Next]_vars => EInv'
  <2> SUFFICES ASSUME EInv, [Next]_vars PROVE EInv'
    OBVIOUS
  <2>1. CASE Shutdown
    BY <2>1, EInvOther DEF Shutdown, WorkersQuiet
  <2>2. CASE \E x \in Exporters : Export(x)
    BY <2>2, EInvExport
  <2>3. CASE \E W \in SUBSET Words : Purge(W)
    BY <2>3, EInvOther DEF Purge, EInv, TypeOK
  <2>4. CASE UNCHANGED vars
    BY <2>4, EInvOther DEF vars, EInv, TypeOK
  <2> QED
    BY <2>1, <2>2, <2>3, <2>4, EInvOther DEF Next, Indexing
<1> QED
  BY <1>1, EInvInit, PTL DEF Spec

\* Index and exporters keep their types.
THEOREM ExportTypeCorrect == Spec => []TypeOK
BY EInvHolds, PTL DEF EInv

\* trie.py:309, as far as it holds: however many workers, requests and shutdowns
\* export at once, and wherever they fail, a clean trie that no overtaken worker
\* marked is on disk, but for the shards an overtaken export put last.
THEOREM ExportCleanOnDisk == Spec => []CleanMeansOnDisk
BY EInvHolds, PTL DEF EInv

\* main.py:66-82: a shutdown whose joins succeeded and whose export did not fail
\* leaves the whole index on disk, and more only in files it could not remove.
THEOREM ShutdownKeepsIndex == Spec => []ShutdownPersistsIndex
<1>1. EInv => ShutdownPersistsIndex
  BY DEF EInv, LastExport, ShutdownPersistsIndex, ShuttingDown
<1> QED
  BY <1>1, EInvHolds, PTL

-----------------------------------------------------------------------------
(* One worker, no request, no purge: exports do not overlap *)

SoleExporter ==
    /\ \E x : Workers = {x}
    /\ Requests = {} /\ ~JoinTimesOut /\ MaxPurges = 0

Exporting(x) == pc[x] \in {"walk", "write", "sweep"}

\* The index stands still while it is exported, and the disk is behind it, so
\* that no file is left over.
SoleInv ==
    /\ purges = 0 /\ ~outlived
    /\ \A x, y \in Exporters : Exporting(x) /\ Exporting(y) => x = y
    /\ \A x \in Exporters : (Working(x) => snap[x] = trie) /\ Landed(x)
    /\ \A w \in Words : disk[w] <= trie[w] /\ trie[w] <= clock
    /\ CleanMeansExported

\* Who exports is alone, or else is the lifespan after the worker has ended.
LEMMA SoleExporters ==
    ASSUME SoleExporter
    PROVE  \E x : Workers = {x} /\ Exporters = {x, Main} /\ x # Main
BY ExportersAssumption DEF SoleExporter, Exporters

\* What a step does to memory and disk, seen by DurableStore.
LEMMA SoleInsert ==
    ASSUME SoleExporter, EInv, SoleInv, NEW x \in Workers, NEW w \in Words, Insert(x, w)
    PROVE  SoleInv' /\ Durable!DWrite
<1>1. /\ trie' = [trie EXCEPT ![w] = clock + 1] /\ clock' = clock + 1 /\ dirty' /\ disk' = disk
      /\ pc' = pc /\ snap' = snap /\ todo' = todo /\ listed' = listed
      /\ purges' = purges /\ outlived' = outlived
  BY DEF Insert, Changed, work
<1>2. trie \in [Words -> Nat] /\ disk \in [Words -> Nat] /\ clock \in Nat
  BY DEF EInv, TypeOK, Index
<1>3. \A y \in Exporters : ~Exporting(y)
  BY SoleExporters DEF Insert, WorkersAlive, SoleInv, ShuttingDown, Exporting
<1>4. \A y \in Exporters : ~Working(y)' /\ Landed(y)'
  BY <1>1, <1>3 DEF Exporting, Landed, Passed, Working
<1>5. ASSUME NEW v \in Words
      PROVE  disk[v] <= trie'[v] /\ trie[v] <= trie'[v] /\ trie'[v] <= clock + 1
  BY <1>1, <1>2 DEF SoleInv
<1>6. SoleInv'
  BY <1>1, <1>3, <1>4, <1>5 DEF SoleInv, Exporting, CleanMeansExported
<1>7. Durable!DWrite
  BY <1>1, <1>2, <1>5 DEF Durable!DWrite, Durable!AtMost
<1> QED
  BY <1>6, <1>7

\* A shard that is replaced moves to what memory holds.
LEMMA SoleReplace ==
    ASSUME SoleExporter, EInv, SoleInv, NEW x \in Exporters, NEW sh \in Shards,
           Working(x)
    PROVE  /\ ShardImage(x, sh) \in [Words -> Nat]
           /\ \A w \in Words : /\ disk[w] <= ShardImage(x, sh)[w]
                              /\ ShardImage(x, sh)[w] <= trie[w]
           /\ disk = trie => ShardImage(x, sh) = disk
<1>1. /\ trie \in [Words -> Nat] /\ disk \in [Words -> Nat]
      /\ snap[x] = trie
      /\ \A w \in Words : disk[w] <= trie[w]
  BY DEF EInv, TypeOK, Index, SoleInv
<1>2. /\ ShardImage(x, sh) \in [Words -> Nat]
      /\ \A w \in Words : ShardImage(x, sh)[w] = IF ShardOf[w] = sh THEN trie[w] ELSE disk[w]
  BY <1>1, ShardImageFacts DEF EInv, Index
<1> QED
  BY <1>1, <1>2

\* What is on disk, up to files left over, is on disk: a file of words that have no
\* postings is never there.
LEMMA SoleLanded ==
    ASSUME EInv, SoleInv, \A w \in Words : OnDisk(w)
    PROVE  disk = trie
<1>1. disk \in [Words -> Nat] /\ trie \in [Words -> Nat]
  BY DEF EInv, TypeOK, Index
<1>2. ASSUME NEW w \in Words PROVE disk[w] = trie[w]
  <2>1. disk[w] <= trie[w] /\ disk[w] \in Nat
    BY <1>1 DEF SoleInv
  <2> QED
    BY <2>1 DEF OnDisk
<1> QED
  BY <1>1, <1>2

LEMMA SoleExport ==
    ASSUME SoleExporter, EInv, SoleInv, NEW x \in Exporters, Export(x)
    PROVE  SoleInv' /\ (Durable!DFlush \/ UNCHANGED <<trie, disk>>)
<1>1. /\ trie' = trie /\ clock' = clock /\ purges' = purges /\ outlived' = outlived
      /\ \A y \in Exporters \ {x} : /\ pc'[y] = pc[y] /\ snap'[y] = snap[y]
                                   /\ todo'[y] = todo[y] /\ listed'[y] = listed[y]
  BY ExportFrame DEF EInv
<1>2. \A y \in Exporters : Exporting(y) => y = x
  <2>1. CASE Begin(x)
    BY <2>1, SoleExporters DEF Begin, WorkersAlive, ShuttingDown, SoleInv, SoleExporter,
                               Exporting, Exporters
  <2>2. CASE ~Begin(x)
    <3>1. Exporting(x)
      BY <2>2 DEF SoleExporter, Export, Walk, ListShards, ExportFails, ExportDone, Return,
                  WriteShard, SweepShard, SweepFails, Go, Exporting
    <3> QED
      BY <3>1 DEF SoleInv
  <2> QED
    BY <2>1, <2>2
<1>3. \A y, z \in Exporters : Exporting(y)' /\ Exporting(z)' => y = z
  BY <1>1, <1>2 DEF Exporting
<1>4. \A y \in Exporters : Working(y)' => snap'[y] = trie
  <2>1. Working(x)' => snap'[x] = trie
    BY DEF Export, Begin, Walk, ListShards, ExportFails, ExportDone, Return, WriteShard,
           SweepShard, SweepFails, Go, EInv, TypeOK, SoleInv, Working
  <2> QED
    BY <1>1, <2>1 DEF SoleInv, Working
<1>5. ASSUME NEW y \in Exporters PROVE Landed(y)'
  <2>1. ASSUME NEW w \in Words, Passed(x, ShardOf[w])' PROVE OnDisk(w)'
    <3>1. Working(x) => snap[x] = trie
      BY DEF SoleInv
    <3>2. \/ OnDisk(w)'
          \/ /\ Passed(x, ShardOf[w]) /\ disk'[w] = disk[w]
             /\ ShardOf[w] \in leftover => ShardOf[w] \in leftover'
      BY <2>1, <3>1, OwnStep DEF EInv
    <3>3. Passed(x, ShardOf[w]) => OnDisk(w)
      BY DEF SoleInv, Landed
    <3> QED
      BY <1>1, <3>2, <3>3 DEF OnDisk
  <2>2. CASE y = x
    BY <2>1, <2>2 DEF Landed
  <2>3. CASE y # x
    BY <1>1, <1>2, <2>3 DEF Exporting, Landed, Passed, Working
  <2> QED
    BY <2>2, <2>3
<1>6. /\ disk' \in [Words -> Nat]
      /\ \A w \in Words : disk[w] <= disk'[w] /\ disk'[w] <= trie[w]
      /\ disk = trie => disk' = disk
  <2>1. CASE disk' = disk
    BY <2>1 DEF EInv, TypeOK, Index, SoleInv
  <2>2. CASE disk' # disk
    <3>1. PICK sh \in Shards : WriteShard(x, sh) \/ SweepShard(x, sh)
      BY <2>2 DEF Export, Begin, Walk, ListShards, ExportFails, ExportDone, SweepFails
    <3>2. disk' = ShardImage(x, sh) /\ Working(x)
      BY <2>2, <3>1 DEF WriteShard, SweepShard, PutShard, Go, Working
    <3> QED
      BY <3>2, SoleReplace
  <2> QED
    BY <2>1, <2>2
<1>7. CleanMeansExported'
  <2>1. CASE ExportDone(x)
    <3>1. pc[x] = "sweep" /\ listed[x] = {} /\ disk' = disk
      BY <2>1 DEF ExportDone, Return, Go
    <3>2. disk = trie
      BY <3>1, AllPassed, SoleLanded DEF EInv, SoleInv, Landed
    <3> QED
      BY <1>1, <3>1, <3>2 DEF CleanMeansExported
  <2>2. CASE ~ExportDone(x)
    <3>1. dirty' = dirty
      BY <2>2 DEF Export, Begin, Walk, ListShards, ExportFails, WriteShard, SweepShard,
                  SweepFails
    <3> QED
      BY <1>1, <1>6, <3>1 DEF CleanMeansExported, SoleInv
  <2> QED
    BY <2>1, <2>2
<1>8. SoleInv'
  BY <1>1, <1>3, <1>4, <1>5, <1>6, <1>7 DEF SoleInv
<1>9. Durable!DFlush
  BY <1>1, <1>6 DEF Durable!DFlush, Durable!AtMost
<1> QED
  BY <1>8, <1>9

LEMMA SoleLifecycle ==
    ASSUME SoleExporter, EInv, SoleInv, Shutdown \/ Restart
    PROVE  SoleInv' /\ (Durable!DCrash \/ UNCHANGED <<trie, disk>>)
<1>1. CASE Shutdown
  <2>1. /\ UNCHANGED <<trie, disk, dirty, snap, todo, listed, clock, purges>>
        /\ ~outlived'
        /\ pc'[Main] = "walk" /\ \A x \in Exporters \ {Main} : pc'[x] = "idle"
    BY <1>1, ExportTypes DEF Shutdown, ShutdownAfter, Joined, WorkersQuiet, Go, EInv, TypeOK,
                             SoleExporter, Exporters
  <2>2. \A x \in Exporters : ~Working(x)'
    BY <2>1 DEF Working
  <2> QED
    BY <2>1, <2>2 DEF SoleInv, Exporting, Landed, Passed, Working, CleanMeansExported
<1>2. CASE Restart
  <2>1. /\ trie' = disk /\ disk' = disk /\ clock' = clock /\ purges' = purges /\ ~outlived'
        /\ \A x \in Exporters : pc'[x] = "idle"
    BY <1>2 DEF Restart
  <2>2. \A w \in Words : disk[w] \in Nat /\ trie[w] \in Nat /\ clock \in Nat
    BY DEF EInv, TypeOK, Index
  <2>3. \A w \in Words : disk'[w] <= trie'[w] /\ trie'[w] <= clock'
    BY <2>1, <2>2 DEF SoleInv
  <2>4. SoleInv'
    BY <2>1, <2>3 DEF SoleInv, Exporting, Landed, Passed, Working, CleanMeansExported
  <2> QED
    BY <2>1, <2>4 DEF Durable!DCrash
<1> QED
  BY <1>1, <1>2

LEMMA SoleSteps ==
    ASSUME SoleExporter, EInv, SoleInv, [Next]_vars
    PROVE  SoleInv' /\ [Durable!DNext]_<<trie, disk>>
<1>1. CASE Indexing
  BY <1>1, SoleInsert DEF Indexing, Durable!DNext
<1>2. ASSUME NEW W \in SUBSET Words, Purge(W) PROVE FALSE
  BY <1>2 DEF Purge, PurgeWords, SoleInv, SoleExporter
<1>3. CASE \E x \in Exporters : Export(x)
  BY <1>3, SoleExport DEF Durable!DNext
<1>4. CASE Shutdown \/ Restart
  BY <1>4, SoleLifecycle DEF Durable!DNext
<1>5. CASE UNCHANGED vars
  <2>1. SoleInv'
    BY <1>5 DEF SoleInv, Exporting, Landed, Passed, HasPostings, OnDisk, Working,
                CleanMeansExported, vars, rest, work, races
  <2> QED
    BY <1>5, <2>1 DEF vars, rest
<1> QED
  BY <1>1, <1>2, <1>3, <1>4, <1>5 DEF Next

LEMMA SoleStarts == SoleExporter /\ Init => SoleInv /\ Durable!DInit
BY DEF Init, SoleInv, Exporting, Landed, Passed, Working, CleanMeansExported, Empty,
       Durable!DInit

\* trie.py:309: with one crawl at a time, and neither purges nor export requests, a trie
\* that is not dirty is on disk.  With a second worker it may not be.
THEOREM SoleCleanIsExported == SoleExporter /\ Spec => []CleanMeansExported
<1>1. SoleExporter /\ Init => SoleInv
  BY SoleStarts
<1>2. SoleExporter /\ EInv /\ SoleInv /\ [Next]_vars => SoleInv'
  BY SoleSteps
<1>3. SoleInv => CleanMeansExported
  BY DEF SoleInv
<1>4. SUFFICES ASSUME SoleExporter PROVE Spec => []CleanMeansExported
  OBVIOUS
<1> QED
  BY <1>1, <1>2, <1>3, <1>4, EInvHolds, PTL DEF Spec

\* Nor do the files ever go back, or a crash lose more than what came after them.
THEOREM SoleImplementsDurableStore == SoleExporter /\ Spec => ImplementsDurableStore
<1>1. SoleExporter /\ Init => SoleInv /\ Durable!DInit
  BY SoleStarts
<1>2. SoleExporter /\ EInv /\ SoleInv /\ [Next]_vars
      => SoleInv' /\ [Durable!DNext]_<<trie, disk>>
  BY SoleSteps
<1>3. SUFFICES ASSUME SoleExporter PROVE Spec => ImplementsDurableStore
  OBVIOUS
<1> QED
  BY <1>1, <1>2, <1>3, EInvHolds, PTL DEF Spec, ImplementsDurableStore, Durable!DSpec

-----------------------------------------------------------------------------
(* The lifespan: index and store together *)

\* The store after its shutdown, and the deletes before it.
Quiet ==
    /\ closed => visitedFile = visited /\ unsaved = {}
    /\ ShuttingDown => deleting = NoPage

\* The tokens of its page a worker has passed have postings, and no delete has
\* touched the page since, unless it gave up waiting for the worker.
OnPage ==
    \A x \in Workers, p \in Pages : page[x] = p =>
        /\ p \notin forgotten
        /\ x \notin outrun => \A w \in Tokens(p) \ left[x] : trie[w] # 0

\* No mark outlasts a TTL from now.
Expiry ==
    /\ lastCrash <= now
    /\ \A p \in Pages : visited[p] <= now + Ttl /\ visitedFile[p] <= now + Ttl

\* Two expiries that are the same, unless both are over.
Agrees(expiry, other) == expiry = other \/ (expiry <= now /\ other <= now)

\* A mark is what was promised, or lost in a crash.
Kept ==
    \A p \in Pages :
        Agrees(visited[p], promised[p]) \/ (p \in lost /\ visited[p] <= lastCrash + Ttl)

\* So is one in the file, or not saved yet.
KeptFile ==
    \A p \in Pages :
        \/ p \in unsaved
        \/ Agrees(visitedFile[p], promised[p])
        \/ p \in lost /\ visitedFile[p] <= lastCrash + Ttl

Marks == Expiry /\ Kept /\ KeptFile /\ VisitedIsFindable
CrawlInv == Quiet /\ OnPage /\ DeletedStaysGone /\ Marks
LInv == EInv /\ LTypeOK /\ CrawlInv

-----------------------------------------------------------------------------
(* Facts about the steps *)

LEMMA TimeTypes ==
    /\ Ttl \in Nat /\ Ttl # 0 /\ MaxTime \in Nat
    /\ NoPage \notin Pages /\ Flushing \notin Pages /\ NoPage # Flushing
    /\ \A p \in Pages : \A w : w \in Tokens(p) <=> w \in Words /\ PageOf[w] = p
BY TimesAssumption, NoPageAssumption, PageOfAssumption DEF Tokens

\* The sweep takes expired marks only.
LEMMA SweptIsExpired ==
    ASSUME NEW P \in Swept
    PROVE  P \subseteq Pages /\ \A p \in P : visited[p] <= now
BY DEF Swept, kSubset, Expired

LEMMA WithoutFacts ==
    ASSUME visited \in [Pages -> Nat], NEW P
    PROVE  /\ Without(P) \in [Pages -> Nat]
           /\ \A p \in Pages : Without(P)[p] = IF p \in P THEN 0 ELSE visited[p]
BY DEF Without

\* Every step is one of TrieExport's, under the code's further guards, or leaves
\* the index and its exporters alone.
LEMMA IndexStep ==
    ASSUME EInv, LTypeOK, [LNext]_lvars
    PROVE  \/ UNCHANGED rest /\ failures' \in Nat
           \/ \E x \in Workers, w \in Words : Insert(x, w)
           \/ (\E W \in SUBSET Words : PurgeWords(W)) /\ failures' \in Nat
           \/ \E x \in Exporters : Export(x)
           \/ \E ended \in BOOLEAN : (ended => WorkersQuiet) /\ ShutdownAfter(ended)
           \/ Restart
<1>0. UNCHANGED vars => UNCHANGED rest /\ failures' \in Nat
  BY DEF vars, EInv, TypeOK
<1>1. ASSUME NEW x \in Workers, NEW p \in Pages, Visit(x, p) PROVE UNCHANGED vars
  BY <1>1 DEF Visit
<1>2. ASSUME NEW x \in Workers, FetchFails(x) \/ MarkVisited(x) \/ FlushStore(x)
      PROVE  UNCHANGED vars
  BY <1>2 DEF FetchFails, MarkVisited, FlushStore
<1>3. ASSUME NEW x \in Workers, FlushShards(x) PROVE UNCHANGED vars \/ Export(x)
  BY <1>3 DEF FlushShards, Export
<1>4. ASSUME NEW x \in Workers, NEW w \in Words, IndexToken(x, w) PROVE Insert(x, w)
  BY <1>4 DEF IndexToken
<1>5. ASSUME NEW p \in Pages, DeletePostings(p)
      PROVE  /\ UNCHANGED rest \/ \E W \in SUBSET Words : PurgeWords(W)
             /\ failures' \in Nat
  <2> DEFINE W == {w \in Tokens(p) : trie[w] # 0}
  <2>1. W \in SUBSET Words
    BY DEF Tokens
  <2>2. UNCHANGED rest \/ PurgeWords(W)
    BY <1>5 DEF DeletePostings
  <2>3. failures' \in Nat
    BY <1>5 DEF DeletePostings, Joined, EInv, TypeOK
  <2> QED
    BY <2>1, <2>2, <2>3
<1>6. ASSUME BeginShutdown
      PROVE  \E ended \in BOOLEAN : (ended => WorkersQuiet) /\ ShutdownAfter(ended)
  BY <1>6 DEF BeginShutdown
<1>7. CASE DaemonSaves \/ DeleteRows \/ CloseStore \/ Tick \/ UNCHANGED lvars
  BY <1>0, <1>7 DEF DaemonSaves, DeleteRows, CloseStore, Tick, lvars
<1>8. ASSUME Exports PROVE \E x \in Exporters : Export(x)
  BY <1>8 DEF Exports
<1>9. ASSUME Reload PROVE Restart
  BY <1>9 DEF Reload
<1> QED
  BY <1>0, <1>1, <1>2, <1>3, <1>4, <1>5, <1>6, <1>7, <1>8, <1>9, ExportTypes DEF LNext

LEMMA LifespanIndex == ASSUME EInv, LTypeOK, [LNext]_lvars PROVE EInv'
BY IndexStep, EInvOther, EInvExport

-----------------------------------------------------------------------------
(* Types *)

LEMMA LifespanTypes == ASSUME EInv, LTypeOK, [LNext]_lvars PROVE LTypeOK'
<1> USE TimeTypes
<1>1. ASSUME NEW x \in Workers, NEW p \in Pages, Visit(x, p) PROVE LTypeOK'
  <2>1. PICK P \in Swept :
            /\ visited' = Without(P)
            /\ IF Without(P)[p] > now
               THEN UNCHANGED <<crawl, forgotten>>
               ELSE /\ page' = [page EXCEPT ![x] = p]
                    /\ left' = [left EXCEPT ![x] = Tokens(p)]
                    /\ forgotten' = forgotten \ {p}
    BY <1>1 DEF Visit
  <2>2. UNCHANGED <<vars, now, visitedFile, closed, deleting, marks, outrun, lastCrash>>
    BY <1>1 DEF Visit
  <2>3. visited' \in [Pages -> Nat]
    BY <2>1, WithoutFacts DEF LTypeOK
  <2>4. closed' => ~Running'
    BY <2>2 DEF LTypeOK, Running, vars, rest, work
  <2>5. /\ page' \in [Workers -> Pages \cup {NoPage, Flushing}]
        /\ left' \in [Workers -> SUBSET Words]
        /\ forgotten' \subseteq Pages
        /\ \A y \in Workers :
               left'[y] \subseteq (IF page'[y] \in Pages THEN Tokens(page'[y]) ELSE {})
        /\ \A y \in Workers : page[y] \in Pages => page'[y] \in Pages
    BY <2>1 DEF LTypeOK, crawl, Tokens
  <2> QED
    BY <2>2, <2>3, <2>4, <2>5 DEF LTypeOK, marks
<1>2. ASSUME NEW x \in Workers, FetchFails(x) PROVE LTypeOK'
  BY <1>2 DEF FetchFails, LTypeOK, store, marks, vars, rest, work, Running
<1>3. ASSUME NEW x \in Workers, NEW w \in Words, IndexToken(x, w) PROVE LTypeOK'
  BY <1>3 DEF IndexToken, Insert, Changed, work, LTypeOK, store, told, marks, deletes, Running
<1>4. ASSUME NEW x \in Workers, MarkVisited(x) PROVE LTypeOK'
  BY <1>4 DEF MarkVisited, Told, LTypeOK, vars, rest, work, Running
<1>5. ASSUME NEW x \in Workers, FlushStore(x) PROVE LTypeOK'
  BY <1>5 DEF FlushStore, SaveStore, LTypeOK, deletes, vars, rest, work, Running
<1>6. ASSUME NEW x \in Workers, FlushShards(x) PROVE LTypeOK'
  <2>1. /\ page' \in [Workers -> Pages \cup {NoPage, Flushing}]
        /\ \A y \in Workers :
               left'[y] \subseteq (IF page'[y] \in Pages THEN Tokens(page'[y]) ELSE {})
        /\ \A y \in Workers : page[y] \in Pages => page'[y] \in Pages
    BY <1>6 DEF FlushShards, LTypeOK
  <2>2. UNCHANGED <<now, store, left, deleting, told>>
    BY <1>6 DEF FlushShards
  <2>3. closed' => ~Running'
    BY <1>6, <2>2 DEF FlushShards, Crawls, LTypeOK, store
  <2> QED
    BY <2>1, <2>2, <2>3 DEF LTypeOK, store, told, marks, deletes
<1>7. CASE Tick \/ UNCHANGED lvars
  BY <1>7 DEF Tick, LTypeOK, store, crawl, told, marks, deletes, vars, rest, work, Running, lvars
<1>8. ASSUME DaemonSaves PROVE LTypeOK'
  BY <1>8 DEF DaemonSaves, SaveStore, LTypeOK, crawl, deletes, vars, rest, work, Running
<1>9. ASSUME Exports PROVE LTypeOK'
  <2>1. Running
    BY <1>9, ExportFrame DEF Exports, EInv
  <2> QED
    BY <1>9, <2>1 DEF Exports, LTypeOK, store, crawl, told, marks, deletes
<1>10. ASSUME NEW p \in Pages, DeletePostings(p) PROVE LTypeOK'
  <2>1. Running' /\ deleting' = p /\ forgotten' \subseteq Pages
    BY <1>10 DEF DeletePostings, PurgeWords, Changed, Running, rest, work, LTypeOK
  <2>2. outrun' \subseteq {x \in Workers : page[x] \in Pages}
    BY <1>10 DEF DeletePostings, CrawledBy, LTypeOK
  <2> QED
    BY <1>10, <2>1, <2>2 DEF DeletePostings, LTypeOK, store, crawl, marks
<1>11. ASSUME DeleteRows PROVE LTypeOK'
  <2>1. visited' \in [Pages -> Nat]
    BY <1>11, WithoutFacts DEF DeleteRows, LTypeOK
  <2> QED
    BY <1>11, <2>1 DEF DeleteRows, Told, LTypeOK, crawl, deletes, vars, rest, work, Running
<1>12. ASSUME BeginShutdown PROVE LTypeOK'
  <2>1. ~closed
    BY <1>12 DEF BeginShutdown, ShutdownAfter, Go, LTypeOK
  <2> QED
    BY <1>12, <2>1 DEF BeginShutdown, LTypeOK, store, crawl, told, marks, deletes
<1>13. ASSUME CloseStore PROVE LTypeOK'
  BY <1>13 DEF CloseStore, SaveStore, LTypeOK, crawl, deletes, vars, rest, work, Running
<1>14. ASSUME Reload PROVE LTypeOK'
  <2>1. /\ forgotten' \subseteq Pages /\ lost' \subseteq Pages
        /\ lastCrash' \in -Ttl..MaxTime
    BY <1>14 DEF Reload, LTypeOK
  <2>2. UNCHANGED <<now, visitedFile, promised, unbacked>>
    BY <1>14 DEF Reload
  <2> QED
    BY <1>14, <2>1, <2>2 DEF Reload, LTypeOK
<1> QED
  BY <1>1, <1>2, <1>3, <1>4, <1>5, <1>6, <1>7, <1>8, <1>9, <1>10, <1>11, <1>12, <1>13, <1>14
  DEF LNext

-----------------------------------------------------------------------------
(* Who is idle, and the last save *)

LEMMA QuietStep == ASSUME EInv, LTypeOK, Quiet, [LNext]_lvars PROVE Quiet'
<1>1. CASE /\ UNCHANGED <<vars, visited, visitedFile, closed, unsaved>>
           /\ deleting' = deleting \/ deleting' = NoPage \/ ~ShuttingDown
  BY <1>1 DEF Quiet, ShuttingDown, vars, rest, work
<1>2. ASSUME NEW x \in Workers,
             \/ MarkVisited(x) \/ FlushStore(x)
             \/ \E p \in Pages : Visit(x, p)
      PROVE  Quiet'
  <2>1. ~closed /\ UNCHANGED <<vars, closed, deleting>>
    BY <1>2 DEF Visit, MarkVisited, FlushStore, Crawls, LTypeOK
  <2> QED
    BY <2>1 DEF Quiet, ShuttingDown, vars, rest, work
<1>3. ASSUME NEW x \in Workers, FetchFails(x) PROVE Quiet'
  BY <1>1, <1>3 DEF FetchFails, store, marks
<1>4. ASSUME NEW x \in Workers, NEW w \in Words, IndexToken(x, w) PROVE Quiet'
  BY <1>4 DEF IndexToken, Insert, Changed, work, store, told, marks, Quiet, ShuttingDown
<1>5. ASSUME NEW x \in Workers, FlushShards(x) PROVE Quiet'
  <2>1. UNCHANGED vars \/ Export(x)
    BY <1>5 DEF FlushShards, Export
  <2>2. \A y \in Exporters \ {x} : pc'[y] = pc[y]
    BY <2>1, ExportFrame, ExportTypes DEF EInv, vars, rest, work
  <2> QED
    BY <1>5, <2>2, ExportTypes, ExportersAssumption
    DEF FlushShards, Quiet, ShuttingDown, store, told, marks
<1>6. CASE DaemonSaves \/ CloseStore
  BY <1>6 DEF DaemonSaves, CloseStore, SaveStore, Quiet, ShuttingDown, vars, rest, work
<1>7. ASSUME Exports PROVE Quiet'
  <2>1. PICK x \in Exporters : (x \in Workers => pc[x] # "idle") /\ Export(x)
    BY <1>7 DEF Exports
  <2>2. /\ \A y \in Exporters \ {x} : pc'[y] = pc[y]
        /\ x = Main => ShuttingDown
    BY <2>1, ExportFrame, ExportersAssumption
    DEF EInv, ShuttingDown, Export, Begin, Walk, ListShards, ExportFails, ExportDone, Return,
        WriteShard, SweepShard, SweepFails, Go
  <2> QED
    BY <1>7, <2>2, ExportTypes DEF Exports, Quiet, ShuttingDown, store, told, marks
<1>8. ASSUME NEW p \in Pages, DeletePostings(p) PROVE Quiet'
  BY <1>8 DEF DeletePostings, PurgeWords, Changed, Quiet, ShuttingDown, store, marks, rest, work
<1>9. ASSUME DeleteRows PROVE Quiet'
  <2>1. ~closed /\ UNCHANGED <<vars, closed>> /\ deleting' = NoPage
    BY <1>9 DEF DeleteRows, LTypeOK
  <2> QED
    BY <2>1 DEF Quiet
<1>10. ASSUME BeginShutdown PROVE Quiet'
  BY <1>10 DEF BeginShutdown, Quiet, store, told, marks
<1>11. ASSUME Reload PROVE Quiet'
  BY <1>11 DEF Reload, Quiet
<1>12. CASE Tick \/ UNCHANGED lvars
  BY <1>1, <1>12 DEF Tick, lvars, store, told, marks
<1> QED
  BY <1>2, <1>3, <1>4, <1>5, <1>6, <1>7, <1>8, <1>9, <1>10, <1>11, <1>12 DEF LNext

-----------------------------------------------------------------------------
(* Pages that are being crawled, and pages that were deleted *)

\* A step that keeps the index, the workers' pages and the deleted ones.
LEMMA PagesKept ==
    ASSUME OnPage, DeletedStaysGone, UNCHANGED <<trie, crawl, deletes>>
    PROVE  OnPage' /\ DeletedStaysGone'
BY DEF OnPage, DeletedStaysGone, crawl, deletes, Tokens

LEMMA PagesStep ==
    ASSUME EInv, LTypeOK, Quiet, OnPage, DeletedStaysGone, [LNext]_lvars
    PROVE  OnPage' /\ DeletedStaysGone'
<1> USE TimeTypes
<1>1. ASSUME NEW x \in Workers, NEW p \in Pages, Visit(x, p)
      PROVE  OnPage' /\ DeletedStaysGone'
  <2>1. trie' = trie /\ outrun' = outrun
    BY <1>1 DEF Visit, vars, rest
  <2>2. CASE UNCHANGED <<crawl, forgotten>>
    BY <2>1, <2>2, PagesKept DEF deletes
  <2>3. CASE /\ page' = [page EXCEPT ![x] = p]
             /\ left' = [left EXCEPT ![x] = Tokens(p)]
             /\ forgotten' = forgotten \ {p}
    <3>1. \A y \in Workers : page'[y] = (IF y = x THEN p ELSE page[y])
                             /\ left'[y] = (IF y = x THEN Tokens(p) ELSE left[y])
      BY <2>3 DEF LTypeOK
    <3> QED
      BY <2>1, <2>3, <3>1 DEF OnPage, DeletedStaysGone
  <2> QED
    BY <1>1, <2>2, <2>3 DEF Visit
<1>2. ASSUME NEW x \in Workers, FetchFails(x) \/ MarkVisited(x) \/ FlushStore(x)
      PROVE  OnPage' /\ DeletedStaysGone'
  <2>1. /\ trie' = trie /\ forgotten' = forgotten
        /\ page'[x] \notin Pages
        /\ outrun' \in {outrun, outrun \ {x}}
        /\ \A y \in Workers \ {x} : page'[y] = page[y] /\ left'[y] = left[y]
    BY <1>2 DEF FetchFails, MarkVisited, FlushStore, LTypeOK, vars, rest, deletes
  <2> QED
    BY <2>1 DEF OnPage, DeletedStaysGone
<1>3. ASSUME NEW x \in Workers, NEW w \in Words, IndexToken(x, w)
      PROVE  OnPage' /\ DeletedStaysGone'
  <2>1. /\ w \in left[x] /\ page' = page /\ forgotten' = forgotten /\ outrun' = outrun
        /\ \A y \in Workers : left'[y] = IF y = x THEN left[x] \ {w} ELSE left[y]
    BY <1>3 DEF IndexToken, told, deletes, LTypeOK
  <2>2. \A v \in Words : trie'[v] = IF v = w THEN clock + 1 ELSE trie[v]
    BY <1>3 DEF IndexToken, Insert, EInv, TypeOK, Index
  <2>3. clock + 1 # 0
    BY DEF EInv, TypeOK
  <2>4. page[x] \in Pages /\ PageOf[w] = page[x]
    BY <2>1 DEF LTypeOK
  <2>5. OnPage'
    BY <2>1, <2>2, <2>3 DEF OnPage
  <2>6. DeletedStaysGone'
    BY <2>1, <2>2, <2>4 DEF OnPage, DeletedStaysGone, LTypeOK
  <2> QED
    BY <2>5, <2>6
<1>4. ASSUME NEW x \in Workers, FlushShards(x) PROVE OnPage' /\ DeletedStaysGone'
  <2>1. /\ trie' = trie /\ UNCHANGED deletes
        /\ page'[x] = NoPage /\ left' = left
        /\ \A y \in Workers \ {x} : page'[y] = page[y]
    BY <1>4 DEF FlushShards, Begin, LTypeOK, vars, rest, told
  <2> QED
    BY <2>1 DEF OnPage, DeletedStaysGone, deletes
<1>5. ASSUME Exports PROVE OnPage' /\ DeletedStaysGone'
  BY <1>5, PagesKept, ExportFrame DEF Exports, EInv, told
<1>6. ASSUME NEW p \in Pages, DeletePostings(p) PROVE OnPage' /\ DeletedStaysGone'
  <2>1. UNCHANGED crawl /\ outrun' = outrun \cup CrawledBy(p)
    BY <1>6 DEF DeletePostings
  <2>2. /\ forgotten \subseteq forgotten' /\ forgotten' \subseteq forgotten \cup {p}
        /\ p \in forgotten' \ forgotten => CrawledBy(p) = {}
    BY <1>6 DEF DeletePostings
  <2>3. \A w \in Words : trie'[w] = IF PageOf[w] = p THEN 0 ELSE trie[w]
    <3> DEFINE W == {w \in Tokens(p) : trie[w] # 0}
    <3>1. CASE W = {} /\ trie' = trie
      BY <3>1
    <3>2. CASE PurgeWords(W)
      BY <3>2 DEF PurgeWords
    <3> QED
      BY <1>6, <3>1, <3>2 DEF DeletePostings, rest
  <2>4. OnPage'
    <3> SUFFICES ASSUME NEW x \in Workers, NEW q \in Pages, page[x] = q
                 PROVE  /\ q \notin forgotten'
                        /\ x \notin outrun' => \A w \in Tokens(q) \ left[x] : trie'[w] # 0
      BY <2>1 DEF OnPage, crawl
    <3>1. q = p => x \in CrawledBy(p)
      BY DEF CrawledBy
    <3> QED
      BY <2>1, <2>2, <2>3, <3>1 DEF OnPage
  <2>5. DeletedStaysGone'
    BY <2>2, <2>3 DEF DeletedStaysGone, Tokens
  <2> QED
    BY <2>4, <2>5
<1>7. ASSUME Reload PROVE OnPage' /\ DeletedStaysGone'
  <2>1. OnPage'
    BY <1>7 DEF Reload, OnPage
  <2>2. CASE Orderly
    <3>1. trie' = disk /\ \A w \in Words : OnDisk(w)
      BY <1>7, <2>2 DEF Reload, Restart, Orderly, EInv, LastExport, ShuttingDown
    <3>2. forgotten' = {p \in forgotten : \A w \in Tokens(p) : ShardOf[w] \notin leftover}
      BY <1>7, <2>2 DEF Reload
    <3>3. ASSUME NEW p \in forgotten', NEW w \in Tokens(p) PROVE trie'[w] = 0
      <4>1. w \in Words /\ trie[w] = 0 /\ ShardOf[w] \notin leftover
        BY <3>2, <3>3 DEF DeletedStaysGone, LTypeOK
      <4> QED
        BY <3>1, <4>1 DEF OnDisk
    <3> QED
      BY <2>1, <3>3 DEF DeletedStaysGone, Tokens
  <2>3. CASE ~Orderly
    BY <1>7, <2>1, <2>3 DEF Reload, DeletedStaysGone
  <2> QED
    BY <2>2, <2>3
<1>8. CASE DaemonSaves \/ DeleteRows \/ BeginShutdown \/ CloseStore \/ Tick \/ UNCHANGED lvars
  BY <1>8, PagesKept
  DEF DaemonSaves, DeleteRows, BeginShutdown, ShutdownAfter, CloseStore, Tick, lvars, vars,
      rest, told
<1> QED
  BY <1>1, <1>2, <1>3, <1>4, <1>5, <1>6, <1>7, <1>8 DEF LNext

-----------------------------------------------------------------------------
(* Marks: how long they last, what they promise, what they stand for *)

\* A step that takes no postings away, sets no mark, and moves the clock forward
\* at most; it may save.
LEMMA MarksKept ==
    ASSUME LTypeOK, Marks, now' \in Nat, now <= now',
           UNCHANGED <<visited, promised, deleting, lost, unbacked, lastCrash>>,
           SaveStore \/ UNCHANGED <<visitedFile, unsaved>>,
           \A w \in Words : trie[w] # 0 => trie'[w] # 0
    PROVE  Marks'
<1> USE TimeTypes DEF LTypeOK
<1>1. Expiry'
  BY DEF Marks, Expiry, SaveStore
<1>2. Kept'
  BY DEF Marks, Kept, Agrees
<1>3. KeptFile'
  <2>1. CASE SaveStore
    BY <1>2, <2>1 DEF KeptFile, Kept, SaveStore, Agrees
  <2>2. CASE UNCHANGED <<visitedFile, unsaved>>
    BY <2>2 DEF Marks, KeptFile, Agrees
  <2> QED
    BY <2>1, <2>2
<1>4. VisitedIsFindable'
  BY DEF Marks, VisitedIsFindable, Indexed
<1> QED
  BY <1>1, <1>2, <1>3, <1>4 DEF Marks

\* A sweep takes expired marks.
LEMMA MarksSwept ==
    ASSUME LTypeOK, Marks, NEW P \in Swept, visited' = Without(P),
           UNCHANGED <<now, trie, visitedFile, deleting, marks, lastCrash>>
    PROVE  Marks'
<1> USE TimeTypes DEF LTypeOK, marks
<1>1. \A p \in Pages : \/ visited'[p] = visited[p]
                       \/ visited[p] <= now /\ visited'[p] = 0
  BY WithoutFacts, SweptIsExpired
<1>2. Expiry'
  BY <1>1 DEF Marks, Expiry
<1>3. Kept'
  BY <1>1 DEF Marks, Kept, Agrees
<1>4. KeptFile'
  BY DEF Marks, KeptFile, Agrees
<1>5. VisitedIsFindable'
  BY <1>1 DEF Marks, VisitedIsFindable, Indexed
<1> QED
  BY <1>2, <1>3, <1>4, <1>5 DEF Marks

\* A page is marked or its mark taken back; all that is said of it is new.
LEMMA MarksTold ==
    ASSUME LTypeOK, Marks, NEW p \in Pages, NEW expiry \in 0..(now + Ttl),
           visited' = [visited EXCEPT ![p] = expiry], Told(p, expiry),
           UNCHANGED <<now, trie, visitedFile, lastCrash>>,
           \A q \in Pages \ {p} : (deleting' = q <=> deleting = q)
                                  /\ (q \in unbacked <=> q \in unbacked'),
           expiry = 0 \/ Indexed(p) \/ p \in unbacked'
    PROVE  Marks'
<1> USE TimeTypes DEF LTypeOK, Told
<1>0. now \in Nat /\ expiry \in Nat /\ expiry <= now + Ttl
  OBVIOUS
<1>1. \A q \in Pages : /\ visited'[q] = IF q = p THEN expiry ELSE visited[q]
                       /\ promised'[q] = IF q = p THEN expiry ELSE promised[q]
  OBVIOUS
<1>2. Expiry'
  BY <1>0, <1>1 DEF Marks, Expiry
<1>3. Kept'
  BY <1>0, <1>1 DEF Marks, Kept, Agrees
<1>4. KeptFile'
  BY <1>0, <1>1 DEF Marks, KeptFile, Agrees
<1>5. VisitedIsFindable'
  <2> SUFFICES ASSUME NEW q \in Pages, visited'[q] > now, deleting' # q
               PROVE  Indexed(q) \/ visited'[q] <= lastCrash + Ttl \/ q \in unbacked'
    BY DEF VisitedIsFindable, Indexed
  <2>1. CASE q = p
    BY <1>0, <1>1, <2>1
  <2>2. CASE q # p
    BY <1>1, <2>2 DEF Marks, VisitedIsFindable
  <2> QED
    BY <2>1, <2>2
<1> QED
  BY <1>2, <1>3, <1>4, <1>5 DEF Marks

\* A crash: what the file says is kept, or lost and over within a TTL.
LEMMA MarksLost ==
    ASSUME LTypeOK, Marks, visited' = visitedFile, lastCrash' = now, lost' = lost \cup unsaved,
           unsaved' = {}, UNCHANGED <<now, visitedFile, promised>>
    PROVE  Marks'
<1> USE TimeTypes DEF LTypeOK
<1>1. \A p \in Pages : visitedFile[p] <= now + Ttl
  BY DEF Marks, Expiry
<1>2. Expiry'
  BY <1>1 DEF Expiry
<1>3. \A p \in Pages : Agrees(visitedFile[p], promised[p]) \/ p \in lost'
  BY DEF Marks, KeptFile
<1>4. Kept' /\ KeptFile'
  BY <1>1, <1>3 DEF Kept, KeptFile, Agrees
<1>5. VisitedIsFindable'
  BY <1>1 DEF VisitedIsFindable
<1> QED
  BY <1>2, <1>4, <1>5 DEF Marks

LEMMA MarksStep ==
    ASSUME EInv, LTypeOK, Quiet, OnPage, Marks, [LNext]_lvars
    PROVE  Marks'
<1> USE TimeTypes
<1>0. now \in Nat /\ now <= now
  BY DEF LTypeOK
<1>1. ASSUME NEW x \in Workers, NEW p \in Pages, Visit(x, p) PROVE Marks'
  <2>1. PICK P \in Swept : visited' = Without(P)
    BY <1>1 DEF Visit
  <2>2. UNCHANGED <<now, trie, visitedFile, deleting, marks, lastCrash>>
    BY <1>1 DEF Visit, vars, rest
  <2> QED
    BY <2>1, <2>2, MarksSwept
<1>2. ASSUME NEW x \in Workers, FetchFails(x) PROVE Marks'
  BY <1>0, <1>2, MarksKept DEF FetchFails, vars, rest, store, marks
<1>3. ASSUME NEW x \in Workers, NEW w \in Words, IndexToken(x, w) PROVE Marks'
  <2>1. \A v \in Words : trie'[v] = IF v = w THEN clock + 1 ELSE trie[v]
    BY <1>3 DEF IndexToken, Insert, EInv, TypeOK, Index
  <2>2. clock + 1 # 0
    BY DEF EInv, TypeOK
  <2> QED
    BY <1>0, <1>3, <2>1, <2>2, MarksKept DEF IndexToken, store, told, marks
<1>4. ASSUME NEW x \in Workers, MarkVisited(x) PROVE Marks'
  <2>1. PICK p \in Pages : page[x] = p /\ left[x] = {}
    BY <1>4 DEF MarkVisited
  <2>2. /\ visited' = [visited EXCEPT ![p] = now + Ttl]
        /\ Told(p, now + Ttl)
        /\ unbacked' = IF x \in outrun THEN unbacked \cup {p} ELSE unbacked \ {p}
        /\ UNCHANGED <<now, trie, visitedFile, lastCrash, deleting>>
    BY <1>4, <2>1 DEF MarkVisited, vars, rest
  <2>3. Indexed(p) \/ p \in unbacked'
    BY <2>1, <2>2 DEF OnPage, Indexed
  <2>4. now + Ttl \in 0..(now + Ttl)
    BY <1>0
  <2>5. \A q \in Pages \ {p} : q \in unbacked <=> q \in unbacked'
    BY <2>2
  <2> QED
    BY <2>2, <2>3, <2>4, <2>5, MarksTold
<1>5. ASSUME NEW x \in Workers, FlushStore(x) PROVE Marks'
  BY <1>0, <1>5, MarksKept DEF FlushStore, vars, rest
<1>6. ASSUME NEW x \in Workers, FlushShards(x) PROVE Marks'
  BY <1>0, <1>6, MarksKept DEF FlushShards, Begin, vars, rest, store, told, marks
<1>7. CASE DaemonSaves \/ CloseStore
  BY <1>0, <1>7, MarksKept DEF DaemonSaves, CloseStore, vars, rest
<1>8. ASSUME Exports PROVE Marks'
  <2>1. trie' = trie
    BY <1>8, ExportFrame DEF Exports, EInv
  <2> QED
    BY <1>0, <1>8, <2>1, MarksKept DEF Exports, store, told, marks
<1>9. ASSUME NEW p \in Pages, DeletePostings(p) PROVE Marks'
  <2>1. \A w \in Words : PageOf[w] # p => trie'[w] = trie[w]
    BY <1>9 DEF DeletePostings, PurgeWords, rest
  <2>2. deleting' = p /\ UNCHANGED <<now, visited, visitedFile, marks, lastCrash>>
    BY <1>9 DEF DeletePostings, store
  <2>3. Expiry' /\ Kept' /\ KeptFile'
    BY <2>2 DEF Marks, Expiry, Kept, KeptFile, Agrees, marks
  <2>4. VisitedIsFindable'
    <3> SUFFICES ASSUME NEW q \in Pages, visited[q] > now, q # p
                 PROVE  Indexed(q)' \/ visited[q] <= lastCrash + Ttl \/ q \in unbacked
      BY <2>2 DEF VisitedIsFindable, marks
    <3>1. deleting = NoPage
      BY <1>9 DEF DeletePostings
    <3>2. Indexed(q) => Indexed(q)'
      BY <2>1 DEF Indexed
    <3> QED
      BY <3>1, <3>2 DEF Marks, VisitedIsFindable
  <2> QED
    BY <2>3, <2>4 DEF Marks
<1>10. ASSUME DeleteRows PROVE Marks'
  <2>1. PICK p \in Pages : deleting = p
    BY <1>10 DEF DeleteRows, LTypeOK
  <2>2. visited' = [visited EXCEPT ![p] = 0]
    BY <1>10, <2>1 DEF DeleteRows, Without, LTypeOK
  <2>3. /\ Told(p, 0) /\ deleting' = NoPage
        /\ UNCHANGED <<now, trie, visitedFile, unbacked, lastCrash>>
    BY <1>10, <2>1 DEF DeleteRows, vars, rest
  <2>4. 0 \in 0..(now + Ttl)
    BY <1>0
  <2> QED
    BY <2>1, <2>2, <2>3, <2>4, MarksTold
<1>11. ASSUME BeginShutdown PROVE Marks'
  BY <1>0, <1>11, MarksKept DEF BeginShutdown, ShutdownAfter, store, told, marks
<1>12. ASSUME Reload PROVE Marks'
  <2>1. /\ visited' = visitedFile /\ lost' = lost \cup unsaved /\ unsaved' = {}
        /\ UNCHANGED <<now, visitedFile, promised, unbacked>>
    BY <1>12 DEF Reload
  <2>2. CASE Orderly
    <3>1. trie' = disk /\ \A w \in Words : OnDisk(w)
      BY <1>12, <2>2 DEF Reload, Restart, Orderly, EInv, LastExport, ShuttingDown
    <3>2. /\ visitedFile = visited /\ unsaved = {} /\ deleting = NoPage
          /\ lastCrash' = lastCrash /\ deleting' = NoPage
      BY <1>12, <2>2 DEF Reload, Orderly, Quiet, ShuttingDown
    <3>3. \A w \in Words : trie[w] # 0 => trie'[w] # 0
      BY <3>1 DEF OnDisk
    <3>4. lost' = lost
      BY <2>1, <3>2
    <3> QED
      BY <1>0, <2>1, <3>2, <3>3, <3>4, MarksKept
  <2>3. CASE ~Orderly
    BY <1>12, <2>1, <2>3, MarksLost DEF Reload
  <2> QED
    BY <2>2, <2>3
<1>13. ASSUME Tick PROVE Marks'
  <2>1. now' \in Nat /\ now <= now'
    BY <1>0, <1>13 DEF Tick
  <2> QED
    BY <1>13, <2>1, MarksKept DEF Tick, vars, rest, store, told, marks
<1>14. CASE UNCHANGED lvars
  BY <1>0, <1>14, MarksKept DEF lvars, vars, rest, store, told, marks
<1> QED
  BY <1>1, <1>2, <1>3, <1>4, <1>5, <1>6, <1>7, <1>8, <1>9, <1>10, <1>11, <1>12, <1>13,
     <1>14 DEF LNext

-----------------------------------------------------------------------------
(* The theorems *)

LEMMA LInvInit == LInit => LInv
<1> SUFFICES ASSUME LInit PROVE LInv
  OBVIOUS
<1> USE TimeTypes
<1>1. EInv
  BY EInvInit DEF LInit
<1>2. pc = [x \in Exporters |-> "idle"] /\ trie = [w \in Words |-> 0]
  BY DEF LInit, Init, Empty
<1>3. LTypeOK
  <2>1. closed = FALSE /\ (closed => ~Running)
    BY DEF LInit
  <2>2. now \in 0..MaxTime /\ lastCrash \in -Ttl..MaxTime
    BY DEF LInit
  <2>3. /\ visited \in [Pages -> Nat] /\ visitedFile \in [Pages -> Nat]
        /\ promised \in [Pages -> Nat]
        /\ page \in [Workers -> Pages \cup {NoPage, Flushing}]
        /\ left \in [Workers -> SUBSET Words]
        /\ deleting \in Pages \cup {NoPage}
        /\ \A x \in Workers : left[x] = {}
    BY DEF LInit
  <2>4. forgotten = {} /\ outrun = {} /\ unsaved = {} /\ lost = {} /\ unbacked = {}
    BY DEF LInit
  <2> QED
    BY <2>1, <2>2, <2>3, <2>4 DEF LTypeOK
<1>4. Quiet /\ OnPage /\ DeletedStaysGone
  BY <1>2, ExportTypes DEF LInit, Quiet, OnPage, DeletedStaysGone, ShuttingDown
<1>5. Marks
  BY <1>3 DEF LInit, Marks, Expiry, Kept, KeptFile, Agrees, VisitedIsFindable, LTypeOK
<1> QED
  BY <1>1, <1>3, <1>4, <1>5 DEF LInv, CrawlInv

\* The invariant of the index and those of the crawls, marks and files above it hold.
THEOREM LInvHolds == LSpec => []LInv
<1>1. LInv /\ [LNext]_lvars => LInv'
  BY LifespanIndex, LifespanTypes, QuietStep, PagesStep, MarksStep DEF LInv, CrawlInv
<1> QED
  BY <1>1, LInvInit, PTL DEF LSpec

\* The composition keeps its types.
THEOREM LifespanTypeCorrect == LSpec => []LTypeOK
BY LInvHolds, PTL DEF LInv

\* worker.py:284: a page that crawls skip can be found, whatever failed, was
\* deleted or was restarted, up to a TTL after a crash, and unless the delete of
\* the page gave up waiting for the worker that marked it.
THEOREM LifespanFindable == LSpec => []VisitedIsFindable
BY LInvHolds, PTL DEF LInv, CrawlInv, Marks

\* routes.py:310-328: what was deleted after its worker had ended stays out of the
\* index, up to a crash or a shard file that could not be removed.
THEOREM LifespanDeletes == LSpec => []DeletedStaysGone
BY LInvHolds, PTL DEF LInv, CrawlInv

\* trie.py:309, as far as it holds: with every guard of the crawl, and exports that
\* requests begin at any time, a clean trie that no overtaken worker marked is on
\* disk, but for the shards an overtaken export put last.
THEOREM LifespanCleanOnDisk == LSpec => []CleanMeansOnDisk
BY LInvHolds, PTL DEF LInv, EInv

\* main.py:66-82: an orderly shutdown leaves both halves on disk.
THEOREM LifespanPersists == LSpec => []ShutdownPersistsAll
<1>1. LInv => ShutdownPersistsAll
  BY DEF LInv, CrawlInv, Quiet, EInv, LastExport, ShuttingDown, Orderly, ShutdownPersistsAll
<1> QED
  BY <1>1, LInvHolds, PTL

\* worker.py:420-432: the bounded sweep and restarts are invisible to the check, and
\* a crash is visible for a TTL, on pages marked or deleted since the last save.
THEOREM LifespanChecks == LSpec => CheckedAgainstPromise
<1>1. ASSUME LInv, [LNext]_lvars, NEW x \in Workers, NEW p \in Pages,
             page[x] = NoPage, page'[x] = p
      PROVE  promised[p] <= now \/ p \in lost
  <2>1. Visit(x, p)
    <3> USE <1>1, TimeTypes DEF LInv, LTypeOK
    <3>1. ASSUME NEW y \in Workers, NEW q \in Pages, Visit(y, q) PROVE Visit(x, p)
      BY <3>1 DEF Visit, crawl
    <3>2. ASSUME NEW y \in Workers,
                 \/ FetchFails(y) \/ MarkVisited(y) \/ FlushStore(y) \/ FlushShards(y)
                 \/ \E w \in Words : IndexToken(y, w)
          PROVE  FALSE
      BY <3>2 DEF FetchFails, MarkVisited, FlushStore, FlushShards, IndexToken
    <3>3. ASSUME \/ DaemonSaves \/ Exports \/ DeleteRows \/ BeginShutdown \/ CloseStore
                 \/ Tick \/ UNCHANGED lvars
                 \/ \E q \in Pages : DeletePostings(q)
          PROVE  FALSE
      <4>1. page' = page
        BY <3>3 DEF DaemonSaves, Exports, DeleteRows, BeginShutdown, CloseStore, Tick,
                    lvars, DeletePostings, crawl
      <4> QED
        BY <4>1
    <3>4. ASSUME Reload PROVE FALSE
      BY <3>4 DEF Reload
    <3> QED
      BY <3>1, <3>2, <3>3, <3>4 DEF LNext
  <2>2. PICK P \in Swept : visited' = Without(P) /\ Without(P)[p] <= now
    <3>1. PICK P \in Swept :
              /\ visited' = Without(P)
              /\ Without(P)[p] > now => UNCHANGED <<crawl, forgotten>>
      BY <2>1 DEF Visit
    <3>2. page' # page
      BY <1>1, TimeTypes
    <3>3. Without(P)[p] \in Nat /\ now \in Nat
      BY <1>1, WithoutFacts DEF LInv, LTypeOK
    <3> QED
      BY <3>1, <3>2, <3>3 DEF crawl
  <2>3. visited[p] <= now
    BY <1>1, <2>2, SweptIsExpired, WithoutFacts DEF LInv, LTypeOK
  <2> QED
    BY <1>1, <2>3 DEF LInv, LTypeOK, CrawlInv, Marks, Kept, Agrees
<1>2. ASSUME LInv', NEW p \in Pages, visited'[p] > now'
      PROVE  \/ visited'[p] = promised'[p]
             \/ p \in lost' /\ visited'[p] <= lastCrash' + Ttl
  <2>1. now' \in Nat /\ visited'[p] \in Nat /\ promised'[p] \in Nat
    BY <1>2 DEF LInv, LTypeOK
  <2> QED
    BY <1>2, <2>1 DEF LInv, CrawlInv, Marks, Kept, Agrees
<1>3. LInv /\ LInv' /\ [LNext]_lvars
      => [/\ \A x \in Workers, p \in Pages :
                 (page[x] = NoPage /\ page'[x] = p) => promised[p] <= now \/ p \in lost
          /\ \A p \in Pages : visited'[p] > now' =>
                 \/ visited'[p] = promised'[p]
                 \/ p \in lost' /\ visited'[p] <= lastCrash' + Ttl]_lvars
  BY <1>1, <1>2
<1> QED
  BY <1>3, LInvHolds, PTL DEF LSpec, CheckedAgainstPromise
=============================================================================
