----------------------------- MODULE NoSQLStore -----------------------------
(***************************************************************************)
(* The JSON key-value store: storage/nosql.py, class NoSQLStore.           *)
(*                                                                         *)
(* Threads mutate `data` under one lock and mark it dirty; savers (the     *)
(* sync daemon, workers that flush, the thread that shuts the process      *)
(* down) run save(): a snapshot under the lock, a slow write of            *)
(* atlas_store.json.tmp and an os.replace outside it, an acknowledgement   *)
(* under it again.  clear_all() holds the lock over the two removals.      *)
(*                                                                         *)
(* A top-level key's value is the stamp of the last mutation of that key   *)
(* (0: never written).  The snapshot is shallow, so a key that still has   *)
(* the snapshot's object is read live, when it is serialised.  A file is   *)
(* one block per key, each tagged with the saver that wrote it; it parses  *)
(* only when a single saver wrote every block.  Savers write through file  *)
(* handles, which follow the file when another saver renames or removes    *)
(* it.  A crash is the death of the process, not of the disk.              *)
(***************************************************************************)
EXTENDS Integers, FiniteSets

CONSTANTS
    NumKeys,       \* the top-level keys, numbered in serialisation order
    CopiedKeys,    \* those _prepare_snapshot() copies (job_logs)
    Workers,       \* crawler threads that flush
    Daemon,        \* the sync daemon
    Main,          \* the thread that runs shutdown()
    Nobody,        \* tag of a block nobody wrote
    NoFile,        \* content of a path that does not exist
    SlowDisk,      \* whether a save may outlive the join in shutdown()
    MaxWrites,     \* bound on mutations
    MaxClears,     \* bound on clear_all() calls
    MaxFailures,   \* bound on exceptions inside _atomic_write()
    MaxJams,       \* bound on removals of a file that fail
    MaxRestarts    \* bound on process restarts

Keys == 1 .. NumKeys
Savers == Workers \cup {Daemon, Main}

ASSUME NumKeysAssumption == NumKeys \in Nat \ {0}
ASSUME CopiedKeysAssumption == CopiedKeys \subseteq Keys
ASSUME SaversAssumption ==
    /\ Daemon \notin Workers /\ Main \notin Workers /\ Daemon # Main
    /\ Nobody \notin Savers
ASSUME SlowDiskAssumption == SlowDisk \in BOOLEAN
ASSUME BoundsAssumption ==
    /\ MaxWrites \in Nat /\ MaxClears \in Nat /\ MaxFailures \in Nat
    /\ MaxJams \in Nat /\ MaxRestarts \in Nat

Values == [Keys -> Nat]
Block == [by : Savers \cup {Nobody}, val : Nat]
Content == [Keys -> Block]
Hole == [by |-> Nobody, val |-> 0]
Truncated == [k \in Keys |-> Hole]
Default == [k \in Keys |-> 0]        \* _default_schema()

ASSUME NoFileAssumption == NoFile \notin Content

VARIABLES
    data,         \* self.data
    dirty,        \* _dirty
    write_seq,    \* _write_seq
    stop_flag,    \* _stop_flag
    pc,           \* where each saver is
    snapSeq,      \* snapshot_seq of each saver's save()
    live,         \* keys whose object the saver's snapshot still shares with data
    view,         \* what the snapshot holds for the other keys
    pos,          \* keys each saver has serialised so far
    handle,       \* the path under which each saver's open file is now
    tmp,          \* content of atlas_store.json.tmp
    store,        \* content of atlas_store.json
    clearing,     \* where clear_all() is; it holds the lock unless "idle"
    clock,        \* stamps given out so far
    clears, failures, jams, restarts,
    covered       \* history: the highest write_seq that a completed replace
                  \* captured, or that clear_all() wiped

memory == <<data, dirty, write_seq, clock, covered>>
snaps == <<snapSeq, live, view>>
files == <<handle, tmp, store>>
bounds == <<clears, failures, jams, restarts>>
vars == <<memory, stop_flag, pc, snaps, pos, files, clearing, bounds>>

Init ==
    /\ data = Default
    /\ dirty = FALSE
    /\ write_seq = 0
    /\ stop_flag = FALSE
    /\ pc = [s \in Savers |-> "idle"]
    /\ snapSeq = [s \in Savers |-> 0]
    /\ live = [s \in Savers |-> {}]
    /\ view = [s \in Savers |-> Default]
    /\ pos = [s \in Savers |-> 0]
    /\ handle = [s \in Savers |-> "closed"]
    /\ tmp = NoFile
    /\ store = NoFile
    /\ clearing = "idle"
    /\ clock = 0
    /\ clears = 0
    /\ failures = 0
    /\ jams = 0
    /\ restarts = 0
    /\ covered = 0

\* The removal of `file` fails: every caller swallows the OSError.
Jammed(file) ==
    /\ file # NoFile
    /\ jams < MaxJams
    /\ jams' = jams + 1
    /\ UNCHANGED <<memory, stop_flag, files, clears, failures, restarts>>

LockFree == clearing = "idle"
Running == pc[Main] # "exited"

-----------------------------------------------------------------------------
(* Mutations, each one critical section *)

\* The objects of keys K are replaced in data: snapshots keep the old ones.
Sever(K) ==
    /\ view' = [s \in Savers |->
                  [k \in Keys |-> IF k \in live[s] \cap K THEN data[k] ELSE view[s][k]]]
    /\ live' = [s \in Savers |-> live[s] \ K]

Stamp(K) ==
    /\ Running
    /\ LockFree
    /\ clock < MaxWrites
    /\ clock' = clock + 1
    /\ data' = [k \in Keys |-> IF k \in K THEN clock + 1 ELSE data[k]]
    /\ dirty' = TRUE
    /\ write_seq' = write_seq + 1
    /\ UNCHANGED <<stop_flag, pc, snapSeq, pos, files, clearing, bounds, covered>>

\* In-place compound mutations by workers and routes (mark_dirty() under the
\* lock); purge_origin() touches two keys in one section.
Mutate(K) == Stamp(K) /\ UNCHANGED <<live, view>>

\* put() and update() rebind one key; reset() rebinds them all.
Rebind(K) == Stamp(K) /\ Sever(K)

\* clear_all(): fresh data, clean, seq bumped; then, lock still held, remove
\* the file and sweep the temporary one.
ClearMemory ==
    /\ Running
    /\ LockFree
    /\ clears < MaxClears
    /\ clears' = clears + 1
    /\ Sever(Keys)
    /\ data' = Default
    /\ dirty' = FALSE
    /\ write_seq' = write_seq + 1
    /\ covered' = write_seq + 1
    /\ clearing' = "removeStore"
    /\ UNCHANGED <<stop_flag, pc, snapSeq, pos, files, clock, failures, jams, restarts>>

ClearRemoveStore ==
    /\ Running
    /\ clearing = "removeStore"
    /\ clearing' = "removeTmp"
    /\ store' = NoFile
    /\ handle' = [s \in Savers |-> IF handle[s] = "store" THEN "orphan" ELSE handle[s]]
    /\ UNCHANGED <<memory, stop_flag, pc, snaps, pos, tmp, bounds>>

ClearKeepsStore ==
    /\ Running
    /\ clearing = "removeStore"
    /\ clearing' = "removeTmp"
    /\ Jammed(store)
    /\ UNCHANGED <<pc, snaps, pos>>

RemoveTmp ==
    /\ tmp' = NoFile
    /\ handle' = [s \in Savers |-> IF handle[s] = "tmp" THEN "orphan" ELSE handle[s]]
    /\ UNCHANGED store

ClearRemoveTmp ==
    /\ Running
    /\ clearing = "removeTmp"
    /\ clearing' = "idle"
    /\ RemoveTmp
    /\ UNCHANGED <<memory, stop_flag, pc, snaps, pos, bounds>>

ClearKeepsTmp ==
    /\ Running
    /\ clearing = "removeTmp"
    /\ clearing' = "idle"
    /\ Jammed(tmp)
    /\ UNCHANGED <<pc, snaps, pos>>

-----------------------------------------------------------------------------
(* save(), one saver *)

Go(s, from, to) ==
    /\ Running
    /\ pc[s] = from
    /\ pc' = [pc EXCEPT ![s] = to]

\* The daemon's tick, or a worker reaching _flush_to_disk(): both look at the
\* dirty flag without the lock, and save only when it is set.
Tick(s) ==
    /\ s # Main
    /\ s = Daemon => ~stop_flag
    /\ Go(s, "idle", "check")
    /\ UNCHANGED <<memory, stop_flag, snaps, pos, files, clearing, bounds>>

CheckDirty(s) ==
    /\ Go(s, "check", IF dirty THEN "snapshot" ELSE "idle")
    /\ UNCHANGED <<memory, stop_flag, snaps, pos, files, clearing, bounds>>

\* Mutant of Snapshot: the sequence number of the write before the last one.
SnapshotStaleSeq(s) ==
    /\ Go(s, "snapshot", "open")
    /\ LockFree
    /\ snapSeq' = [snapSeq EXCEPT ![s] = write_seq - 1]
    /\ live' = [live EXCEPT ![s] = Keys \ CopiedKeys]
    /\ view' = [view EXCEPT ![s] = [k \in Keys |-> IF k \in CopiedKeys THEN data[k] ELSE 0]]
    /\ UNCHANGED <<memory, stop_flag, pos, files, clearing, bounds>>

\* Under the lock: the shallow snapshot and the sequence number it stands for.
Snapshot(s) ==
    /\ Go(s, "snapshot", "open")
    /\ LockFree
    /\ snapSeq' = [snapSeq EXCEPT ![s] = write_seq]
    /\ live' = [live EXCEPT ![s] = Keys \ CopiedKeys]
    /\ view' = [view EXCEPT ![s] = [k \in Keys |-> IF k \in CopiedKeys THEN data[k] ELSE 0]]
    /\ UNCHANGED <<memory, stop_flag, pos, files, clearing, bounds>>

\* open(tmp_path, "w"): truncates the file, whoever else has it open.
Open(s) ==
    /\ Go(s, "open", "dump")
    /\ tmp' = Truncated
    /\ handle' = [handle EXCEPT ![s] = "tmp"]
    /\ pos' = [pos EXCEPT ![s] = 0]
    /\ UNCHANGED <<memory, stop_flag, snaps, store, clearing, bounds>>

\* json.dump() serialises the next key into wherever the open file is now.
Dump(s) ==
    LET k == pos[s] + 1
        block == [by |-> s, val |-> IF k \in live[s] THEN data[k] ELSE view[s][k]]
    IN  /\ Go(s, "dump", "dump")
        /\ pos[s] < NumKeys
        /\ pos' = [pos EXCEPT ![s] = k]
        /\ tmp' = IF handle[s] = "tmp" THEN [tmp EXCEPT ![k] = block] ELSE tmp
        /\ store' = IF handle[s] = "store" THEN [store EXCEPT ![k] = block] ELSE store
        /\ UNCHANGED <<memory, stop_flag, snaps, handle, clearing, bounds>>

\* fsync and close.
Close(s) ==
    /\ Go(s, "dump", "replace")
    /\ pos[s] = NumKeys
    /\ handle' = [handle EXCEPT ![s] = "closed"]
    /\ UNCHANGED <<memory, stop_flag, snaps, pos, tmp, store, clearing, bounds>>

\* os.replace(tmp_path, path): whatever is at tmp_path now becomes the store.
Replace(s) ==
    /\ Go(s, "replace", "acknowledge")
    /\ tmp # NoFile
    /\ store' = tmp
    /\ tmp' = NoFile
    /\ handle' = [t \in Savers |-> CASE handle[t] = "tmp" -> "store"
                                     [] handle[t] = "store" -> "orphan"
                                     [] OTHER -> handle[t]]
    /\ covered' = IF snapSeq[s] > covered THEN snapSeq[s] ELSE covered
    /\ UNCHANGED <<data, dirty, write_seq, clock, stop_flag, snaps, pos, clearing, bounds>>

\* save() returns: its locals are gone, and after shutdown() the process exits.
Return(s, from) ==
    /\ Go(s, from, IF s = Main THEN "exited" ELSE "idle")
    /\ snapSeq' = [snapSeq EXCEPT ![s] = 0]
    /\ live' = [live EXCEPT ![s] = {}]
    /\ view' = [view EXCEPT ![s] = Default]
    /\ pos' = [pos EXCEPT ![s] = 0]

\* Mutant of Acknowledge: clean whatever was written meanwhile.
AcknowledgeAlways(s) ==
    /\ Return(s, "acknowledge")
    /\ LockFree
    /\ dirty' = FALSE
    /\ UNCHANGED <<data, write_seq, clock, covered, stop_flag, files, clearing, bounds>>

\* Under the lock: clean only if nothing was written since the snapshot.
Acknowledge(s) ==
    /\ Return(s, "acknowledge")
    /\ LockFree
    /\ dirty' = IF write_seq = snapSeq[s] THEN FALSE ELSE dirty
    /\ UNCHANGED <<data, write_seq, clock, covered, stop_flag, files, clearing, bounds>>

\* os.replace() finds no temporary file: another saver or clear_all() took it.
ReplaceMissing(s) ==
    /\ Go(s, "replace", "cleanup")
    /\ tmp = NoFile
    /\ UNCHANGED <<memory, stop_flag, snaps, pos, files, clearing, bounds>>

\* Any other exception: no space, or a dict that grew while it was iterated.
WriteFails(s) ==
    /\ \E from \in {"open", "dump", "replace"} : Go(s, from, "cleanup")
    /\ failures < MaxFailures
    /\ failures' = failures + 1
    /\ handle' = [handle EXCEPT ![s] = "closed"]
    /\ UNCHANGED <<memory, stop_flag, snaps, pos, tmp, store, clearing,
                   clears, jams, restarts>>

\* Mutant of Cleanup: leaves the temporary file.
CleanupKeepsTmp(s) ==
    /\ Return(s, "cleanup")
    /\ UNCHANGED <<memory, stop_flag, files, clearing, bounds>>

\* The except branch removes tmp_path, whoever wrote it; save() returns False.
Cleanup(s) ==
    /\ Return(s, "cleanup")
    /\ RemoveTmp
    /\ UNCHANGED <<memory, stop_flag, clearing, bounds>>

CleanupFails(s) ==
    /\ Return(s, "cleanup")
    /\ Jammed(tmp)
    /\ UNCHANGED clearing

-----------------------------------------------------------------------------
(* shutdown() and restart *)

ShutdownBegins ==
    /\ Go(Main, "idle", "join")
    /\ stop_flag' = TRUE
    /\ UNCHANGED <<memory, snaps, pos, files, clearing, bounds>>

\* Mutant of JoinDaemon: shutdown() does not join.
JoinDaemonSkipped ==
    /\ Go(Main, "join", "snapshot")
    /\ UNCHANGED <<memory, stop_flag, snaps, pos, files, clearing, bounds>>

\* thread.join(timeout): the daemon has ended, or the disk is slower than that.
JoinDaemon ==
    /\ Go(Main, "join", "snapshot")
    /\ pc[Daemon] = "idle" \/ SlowDisk
    /\ UNCHANGED <<memory, stop_flag, snaps, pos, files, clearing, bounds>>

Whole(file) == \E s \in Savers : \A k \in Keys : file[k].by = s

\* What _load_from_disk() makes of the store file: a missing or corrupt one
\* is the default schema.
DiskValue ==
    IF store = NoFile THEN Default
    ELSE IF Whole(store) THEN [k \in Keys |-> store[k].val]
    ELSE Default

\* The process exits or is killed at any point, and comes back: the files are
\* as they were, the memory is loaded.
Restart ==
    /\ restarts < MaxRestarts
    /\ restarts' = restarts + 1
    /\ data' = DiskValue
    /\ dirty' = FALSE
    /\ write_seq' = 0
    /\ covered' = 0
    /\ stop_flag' = FALSE
    /\ pc' = [s \in Savers |-> "idle"]
    /\ snapSeq' = [s \in Savers |-> 0]
    /\ live' = [s \in Savers |-> {}]
    /\ view' = [s \in Savers |-> Default]
    /\ pos' = [s \in Savers |-> 0]
    /\ handle' = [s \in Savers |-> "closed"]
    /\ clearing' = "idle"
    /\ UNCHANGED <<clock, tmp, store, clears, failures, jams>>

Write ==
    \/ \E k \in Keys : Mutate({k}) \/ Rebind({k})
    \/ \E j, k \in Keys : j # k /\ Mutate({j, k})
    \/ Rebind(Keys)

ClearGoesOn ==
    ClearRemoveStore \/ ClearKeepsStore \/ ClearRemoveTmp \/ ClearKeepsTmp

ClearAll == ClearMemory \/ ClearGoesOn

Save(s) ==
    \/ Tick(s) \/ CheckDirty(s) \/ Snapshot(s) \/ Open(s) \/ Dump(s) \/ Close(s)
    \/ Replace(s) \/ Acknowledge(s) \/ ReplaceMissing(s) \/ WriteFails(s) \/ Cleanup(s)
    \/ CleanupFails(s)

Next ==
    \/ Write \/ ClearAll
    \/ \E s \in Savers : Save(s)
    \/ ShutdownBegins \/ JoinDaemon \/ Restart

Spec == Init /\ [][Next]_vars

\* The daemon wakes every SYNC_INTERVAL and its calls return, a shutdown() that
\* began goes on, and a clear_all() that holds the lock goes on to release it.
\* Nothing is assumed of the workers: when they flush depends on the crawl.
FairSpec ==
    /\ Spec
    /\ WF_vars(Save(Daemon))
    /\ WF_vars(JoinDaemon \/ Save(Main))
    /\ WF_vars(ClearGoesOn)

-----------------------------------------------------------------------------
PC == {"idle", "check", "snapshot", "open", "dump", "replace", "acknowledge",
       "cleanup", "join", "exited"}

\* Type invariant of the store.
TypeOK ==
    /\ data \in Values
    /\ dirty \in BOOLEAN
    /\ write_seq \in Nat
    /\ stop_flag \in BOOLEAN
    /\ pc \in [Savers -> PC]
    /\ snapSeq \in [Savers -> Nat]
    /\ live \in [Savers -> SUBSET Keys]
    /\ view \in [Savers -> Values]
    /\ pos \in [Savers -> 0 .. NumKeys]
    /\ handle \in [Savers -> {"closed", "tmp", "store", "orphan"}]
    /\ tmp \in Content \cup {NoFile}
    /\ store \in Content \cup {NoFile}
    /\ clearing \in {"idle", "removeStore", "removeTmp"}
    /\ clock \in Nat
    /\ clears \in Nat /\ failures \in Nat /\ jams \in Nat /\ restarts \in Nat
    /\ covered \in Nat

\* nosql.py:139-142: the dirty flag is never clear while a write is outstanding
\* that no completed save captured, however many savers run at once.
CleanMeansCovered == ~dirty => covered = write_seq

\* nosql.py:201: when the store is clean, its file holds exactly what memory
\* holds, so skipping the save loses nothing.
CleanMeansDurable == (~dirty /\ clearing = "idle") => DiskValue = data

\* nosql.py:17: the store file is always one saver's complete document, at
\* every instant, so neither a reader nor a restart finds a partial one.
StoreFileIsWhole == store # NoFile => Whole(store)

\* The store file is never ahead of memory and never goes back to an older
\* document: a crash at any point loses only what was written since a save.
Durable == INSTANCE DurableStore WITH mem <- data, disk <- DiskValue
ImplementsDurableStore == Durable!DSpec

\* What clear_all() purged does not come back to disk: while nothing has been
\* written since, a restart would find the default schema.
PurgedDataStaysGone ==
    (clears > 0 /\ data = Default /\ ~dirty /\ clearing = "idle")
    => DiskValue = Default

\* Savers may steal or delete each other's temporary file, but between them they
\* never leave one behind: only a crash does (clear_all() sweeps that one), or a
\* removal that fails (nosql.py:282-283).
NoStrayTmp ==
    (restarts = 0 /\ jams = 0 /\ tmp # NoFile)
    => \E s \in Savers : pc[s] \in {"dump", "replace", "cleanup"}

\* Once the crawls have stopped flushing, every write is saved eventually, or
\* the process has exited: the daemon retries what failed.
DirtyIsFlushed ==
    <>[](\A w \in Workers : pc[w] = "idle")
    => (dirty ~> (~dirty \/ pc[Main] = "exited"))
=============================================================================
