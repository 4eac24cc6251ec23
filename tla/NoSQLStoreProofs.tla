--------------------------- MODULE NoSQLStoreProofs ---------------------------
(***************************************************************************)
(* Safety of the store for any number of keys, workers, writes, clears,    *)
(* failures and restarts.                                                  *)
(*                                                                         *)
(* CleanMeansCovered is not inductive: acknowledging a save must know that *)
(* the save's replace raised `covered` at least to its own sequence number *)
(* (AckCovered), and that neither ever exceeds write_seq (SeqBounds).      *)
(* TypeOK is not inductive either: a saver that dumps a key writes into    *)
(* the file its handle names, which must exist (HandlesExist).             *)
(*                                                                         *)
(* That a clean store is on disk and its file whole holds for saves that   *)
(* do not overlap (SerialSaves), a behaviour that the daemon and an        *)
(* orderly shutdown always have and flushing workers may lack.  It rests   *)
(* on what the file being written holds so far (Written) and on whether    *)
(* memory has moved on since the snapshot (Fresh).  That the file refines  *)
(* DurableStore needs each key of the snapshot, the temporary file and the *)
(* store to lie between the disk and memory (DiskFollows).                 *)
(***************************************************************************)
EXTENDS NoSQLStore, TLAPS

SeqBounds ==
    /\ covered <= write_seq
    /\ \A s \in Savers : snapSeq[s] <= write_seq

AckCovered == \A s \in Savers : pc[s] = "acknowledge" => snapSeq[s] <= covered

\* A saver's open file exists under the path its handle names.
HandlesExist ==
    \A s \in Savers : /\ handle[s] = "tmp" => tmp \in Content
                      /\ handle[s] = "store" => store \in Content

SInv == TypeOK /\ SeqBounds /\ AckCovered /\ CleanMeansCovered /\ HandlesExist

\* The functions the actions build are of the declared types.
LEMMA ConstantTypes ==
    /\ Default \in Values
    /\ Hole \in Block
    /\ Truncated \in Content
    /\ Daemon \in Savers /\ Main \in Savers
BY DEF Default, Values, Hole, Block, Truncated, Content, Savers

\* Sever() keeps the snapshots' types.
LEMMA SeverType ==
    ASSUME TypeOK, NEW K \in SUBSET Keys, Sever(K)
    PROVE  /\ live' \in [Savers -> SUBSET Keys]
           /\ view' \in [Savers -> Values]
<1>1. ASSUME NEW s \in Savers
      PROVE [k \in Keys |-> IF k \in live[s] \cap K THEN data[k] ELSE view[s][k]] \in Values
  BY DEF TypeOK, Values
<1> QED
  BY <1>1 DEF Sever, TypeOK

\* Every mutation of the data keeps the invariant.
LEMMA StampInv ==
    ASSUME SInv, NEW K \in SUBSET Keys, Stamp(K),
           live' \in [Savers -> SUBSET Keys], view' \in [Savers -> Values]
    PROVE  SInv'
<1>1. data' \in Values
  BY DEF SInv, TypeOK, Stamp, Values
<1>2. TypeOK'
  BY <1>1 DEF SInv, TypeOK, Stamp, files, bounds
<1>3. SeqBounds' /\ AckCovered' /\ CleanMeansCovered' /\ HandlesExist'
  BY DEF SInv, TypeOK, SeqBounds, AckCovered, CleanMeansCovered, HandlesExist, Stamp, files
<1> QED
  BY <1>2, <1>3 DEF SInv

LEMMA WriteInv == ASSUME SInv, Write PROVE SInv'
<1>1. ASSUME NEW K \in SUBSET Keys, Mutate(K) PROVE SInv'
  BY <1>1, StampInv DEF Mutate, SInv, TypeOK
<1>2. ASSUME NEW K \in SUBSET Keys, Rebind(K) PROVE SInv'
  BY <1>2, StampInv, SeverType DEF Rebind, SInv
<1> QED
  BY <1>1, <1>2 DEF Write

\* The three steps of clear_all() keep the invariant.
LEMMA ClearInv == ASSUME SInv, ClearAll PROVE SInv'
<1>1. CASE ClearMemory
  <2>1. live' \in [Savers -> SUBSET Keys] /\ view' \in [Savers -> Values]
    BY <1>1, SeverType DEF ClearMemory, SInv
  <2>2. TypeOK'
    <3>0. /\ data' = Default /\ dirty' = FALSE /\ clearing' = "removeStore"
          /\ write_seq' = write_seq + 1 /\ covered' = write_seq + 1
          /\ clears' = clears + 1
      BY <1>1 DEF ClearMemory
    <3>1. /\ data' \in Values /\ dirty' \in BOOLEAN /\ write_seq' \in Nat
          /\ covered' \in Nat /\ clears' \in Nat
          /\ clearing' \in {"idle", "removeStore", "removeTmp"}
      <4>1. write_seq \in Nat /\ clears \in Nat
        BY DEF SInv, TypeOK
      <4>2. data' \in Values
        BY <3>0, ConstantTypes
      <4>3. dirty' \in BOOLEAN
        BY <3>0
      <4>4. write_seq' \in Nat /\ covered' \in Nat /\ clears' \in Nat
        BY <3>0, <4>1
      <4>5. clearing' \in {"idle", "removeStore", "removeTmp"}
        BY <3>0
      <4> QED
        BY <4>2, <4>3, <4>4, <4>5
    <3>2. UNCHANGED <<stop_flag, pc, snapSeq, pos, files, clock, failures, jams, restarts>>
      BY <1>1 DEF ClearMemory
    <3> QED
      BY <2>1, <3>1, <3>2 DEF SInv, TypeOK, files
  <2>3. SeqBounds' /\ AckCovered' /\ CleanMeansCovered' /\ HandlesExist'
    BY <1>1 DEF ClearMemory, SInv, TypeOK, SeqBounds, AckCovered, CleanMeansCovered,
                HandlesExist, files
  <2> QED
    BY <2>2, <2>3 DEF SInv
<1>2. CASE ClearRemoveStore
  <2>1. TypeOK'
    BY <1>2 DEF ClearRemoveStore, SInv, TypeOK, memory, snaps, bounds
  <2>2. SeqBounds' /\ AckCovered' /\ CleanMeansCovered' /\ HandlesExist'
    BY <1>2 DEF ClearRemoveStore, SInv, SeqBounds, AckCovered, CleanMeansCovered,
                HandlesExist, TypeOK, memory, snaps
  <2> QED
    BY <2>1, <2>2 DEF SInv
<1>3. CASE ClearRemoveTmp
  <2>1. TypeOK'
    BY <1>3 DEF ClearRemoveTmp, RemoveTmp, SInv, TypeOK, memory, snaps, bounds
  <2>2. SeqBounds' /\ AckCovered' /\ CleanMeansCovered' /\ HandlesExist'
    BY <1>3 DEF ClearRemoveTmp, RemoveTmp, SInv, SeqBounds, AckCovered,
                CleanMeansCovered, HandlesExist, TypeOK, memory, snaps
  <2> QED
    BY <2>1, <2>2 DEF SInv
<1>4. CASE ClearKeepsStore \/ ClearKeepsTmp
  <2>1. TypeOK'
    BY <1>4 DEF ClearKeepsStore, ClearKeepsTmp, Jammed, SInv, TypeOK, memory, snaps, files
  <2>2. SeqBounds' /\ AckCovered' /\ CleanMeansCovered' /\ HandlesExist'
    BY <1>4 DEF ClearKeepsStore, ClearKeepsTmp, Jammed, SInv, SeqBounds, AckCovered,
                CleanMeansCovered, HandlesExist, TypeOK, memory, snaps, files
  <2> QED
    BY <2>1, <2>2 DEF SInv
<1> QED
  BY <1>1, <1>2, <1>3, <1>4 DEF ClearAll, ClearGoesOn

\* Moving a saver's program counter is well typed.
LEMMA GoType ==
    ASSUME TypeOK, NEW s \in Savers, NEW from, NEW to \in PC, Go(s, from, to)
    PROVE  /\ pc' \in [Savers -> PC]
           /\ pc[s] = from /\ pc'[s] = to
           /\ \A t \in Savers : t # s => pc'[t] = pc[t]
BY DEF TypeOK, Go

\* The steps of save() that leave memory, sequence numbers and `covered` alone.
LEMMA QuietSaveInv ==
    ASSUME SInv, NEW s \in Savers,
           \/ Tick(s) \/ CheckDirty(s) \/ Open(s) \/ Dump(s) \/ Close(s)
           \/ ReplaceMissing(s) \/ WriteFails(s)
    PROVE  SInv'
<1>1. ASSUME NEW from, NEW to \in PC, to # "acknowledge", Go(s, from, to),
             TypeOK', HandlesExist', UNCHANGED <<memory, snaps>>
      PROVE  SInv'
  <2>1. \A t \in Savers : pc'[t] = "acknowledge" => pc[t] = "acknowledge"
    BY <1>1, GoType DEF SInv
  <2> QED
    BY <1>1, <2>1 DEF SInv, SeqBounds, AckCovered, CleanMeansCovered, memory, snaps
<1>2. CASE Tick(s)
  <2>1. TypeOK'
    BY <1>2, GoType DEF Tick, SInv, TypeOK, memory, snaps, files, bounds, PC
  <2>2. HandlesExist'
    BY <1>2 DEF Tick, SInv, HandlesExist, files
  <2> QED
    BY <1>1, <1>2, <2>1, <2>2 DEF Tick, PC
<1>3. CASE CheckDirty(s)
  <2>1. (IF dirty THEN "snapshot" ELSE "idle") \in PC \ {"acknowledge"}
    BY DEF PC
  <2>2. TypeOK'
    BY <1>3, <2>1, GoType DEF CheckDirty, SInv, TypeOK, memory, snaps, files, bounds
  <2>3. HandlesExist'
    BY <1>3 DEF CheckDirty, SInv, HandlesExist, files
  <2> QED
    BY <1>1, <1>3, <2>1, <2>2, <2>3 DEF CheckDirty
<1>4. CASE Open(s)
  <2>1. TypeOK'
    BY <1>4, GoType, ConstantTypes, NumKeysAssumption
       DEF Open, SInv, TypeOK, memory, snaps, bounds, PC
  <2>2. HandlesExist'
    BY <1>4, ConstantTypes DEF Open, SInv, TypeOK, HandlesExist
  <2> QED
    BY <1>1, <1>4, <2>1, <2>2 DEF Open, PC
<1>5. CASE Dump(s)
  <2> DEFINE k == pos[s] + 1
             block == [by |-> s, val |-> IF k \in live[s] THEN data[k] ELSE view[s][k]]
  <2>1. k \in Keys
    BY <1>5, NumKeysAssumption DEF Dump, SInv, TypeOK, Keys
  <2>2. block \in Block
    BY <2>1 DEF Block, SInv, TypeOK, Values
  <2>3. pos' \in [Savers -> 0 .. NumKeys]
    BY <1>5, <2>1, NumKeysAssumption DEF Dump, SInv, TypeOK, Keys
  <2>4. ASSUME NEW file \in Content PROVE [file EXCEPT ![k] = block] \in Content
    BY <2>1, <2>2 DEF Content
  <2>5. tmp' \in Content \cup {NoFile} /\ (tmp \in Content => tmp' \in Content)
    <3>1. CASE handle[s] = "tmp"
      BY <3>1, <1>5, <2>4 DEF Dump, SInv, HandlesExist
    <3>2. CASE handle[s] # "tmp"
      BY <3>2, <1>5 DEF Dump, SInv, TypeOK
    <3> QED
      BY <3>1, <3>2
  <2>6. store' \in Content \cup {NoFile} /\ (store \in Content => store' \in Content)
    <3>1. CASE handle[s] = "store"
      BY <3>1, <1>5, <2>4 DEF Dump, SInv, HandlesExist
    <3>2. CASE handle[s] # "store"
      BY <3>2, <1>5 DEF Dump, SInv, TypeOK
    <3> QED
      BY <3>1, <3>2
  <2>7. TypeOK'
    BY <1>5, <2>3, <2>5, <2>6, GoType
       DEF Dump, SInv, TypeOK, memory, snaps, bounds, PC
  <2>8. HandlesExist'
    BY <1>5, <2>5, <2>6 DEF Dump, SInv, HandlesExist
  <2> QED
    BY <1>1, <1>5, <2>7, <2>8 DEF Dump, PC
<1>6. CASE Close(s)
  <2>1. TypeOK'
    BY <1>6, GoType DEF Close, SInv, TypeOK, memory, snaps, bounds, PC
  <2>2. HandlesExist'
    BY <1>6 DEF Close, SInv, TypeOK, HandlesExist
  <2> QED
    BY <1>1, <1>6, <2>1, <2>2 DEF Close, PC
<1>7. CASE ReplaceMissing(s)
  <2>1. TypeOK'
    BY <1>7, GoType DEF ReplaceMissing, SInv, TypeOK, memory, snaps, files, bounds, PC
  <2>2. HandlesExist'
    BY <1>7 DEF ReplaceMissing, SInv, HandlesExist, files
  <2> QED
    BY <1>1, <1>7, <2>1, <2>2 DEF ReplaceMissing, PC
<1>8. CASE WriteFails(s)
  <2>1. PICK from \in {"open", "dump", "replace"} : Go(s, from, "cleanup")
    BY <1>8 DEF WriteFails
  <2>2. TypeOK'
    BY <1>8, <2>1, GoType DEF WriteFails, SInv, TypeOK, memory, snaps, PC
  <2>3. HandlesExist'
    BY <1>8 DEF WriteFails, SInv, TypeOK, HandlesExist
  <2> QED
    BY <1>1, <1>8, <2>1, <2>2, <2>3 DEF WriteFails, PC
<1> QED
  BY <1>2, <1>3, <1>4, <1>5, <1>6, <1>7, <1>8

\* The snapshot and the three ways a save ends.
LEMMA LoudSaveInv ==
    ASSUME SInv, NEW s \in Savers,
           Snapshot(s) \/ Replace(s) \/ Acknowledge(s) \/ Cleanup(s)
           \/ CleanupFails(s)
    PROVE  SInv'
<1>1. ASSUME NEW from, Return(s, from)
      PROVE  /\ pc' \in [Savers -> PC]
             /\ pc'[s] # "acknowledge"
             /\ \A t \in Savers : t # s => pc'[t] = pc[t]
             /\ snapSeq' \in [Savers -> Nat]
             /\ \A t \in Savers : snapSeq'[t] <= snapSeq[t]
             /\ \A t \in Savers : t # s => snapSeq'[t] = snapSeq[t]
             /\ live' \in [Savers -> SUBSET Keys]
             /\ view' \in [Savers -> Values]
             /\ pos' \in [Savers -> 0 .. NumKeys]
  <2>1. (IF s = Main THEN "exited" ELSE "idle") \in PC \ {"acknowledge"}
    BY DEF PC
  <2>2. Go(s, from, IF s = Main THEN "exited" ELSE "idle")
    BY <1>1 DEF Return
  <2>3. /\ pc' \in [Savers -> PC]
        /\ pc'[s] # "acknowledge"
        /\ \A t \in Savers : t # s => pc'[t] = pc[t]
    BY <2>1, <2>2, GoType DEF SInv
  <2>4. /\ snapSeq' \in [Savers -> Nat]
        /\ \A t \in Savers : snapSeq'[t] <= snapSeq[t]
        /\ \A t \in Savers : t # s => snapSeq'[t] = snapSeq[t]
    BY <1>1 DEF Return, SInv, TypeOK
  <2>5. live' \in [Savers -> SUBSET Keys] /\ view' \in [Savers -> Values]
    BY <1>1, ConstantTypes DEF Return, SInv, TypeOK
  <2>6. pos' \in [Savers -> 0 .. NumKeys]
    BY <1>1, NumKeysAssumption DEF Return, SInv, TypeOK
  <2> QED
    BY <2>3, <2>4, <2>5, <2>6
<1>2. CASE Snapshot(s)
  <2>1. [k \in Keys |-> IF k \in CopiedKeys THEN data[k] ELSE 0] \in Values
    BY DEF SInv, TypeOK, Values
  <2>2. /\ snapSeq' \in [Savers -> Nat]
        /\ live' \in [Savers -> SUBSET Keys]
        /\ view' \in [Savers -> Values]
        /\ pc' \in [Savers -> PC]
    BY <1>2, <2>1, GoType DEF Snapshot, SInv, TypeOK, PC
  <2>3. TypeOK'
    BY <1>2, <2>2 DEF Snapshot, SInv, TypeOK, memory, files, bounds
  <2>4. SeqBounds'
    BY <1>2 DEF Snapshot, SInv, TypeOK, SeqBounds, memory
  <2>5. AckCovered'
    <3>1. \A t \in Savers : pc'[t] = "acknowledge" => t # s /\ pc[t] = "acknowledge"
      BY <1>2, GoType DEF Snapshot, SInv, PC
    <3> QED
      BY <1>2, <3>1 DEF Snapshot, SInv, TypeOK, AckCovered, memory
  <2>6. CleanMeansCovered' /\ HandlesExist'
    BY <1>2 DEF Snapshot, SInv, CleanMeansCovered, HandlesExist, memory, files
  <2> QED
    BY <2>3, <2>4, <2>5, <2>6 DEF SInv
<1>3. CASE Replace(s)
  <2>1. /\ handle' \in [Savers -> {"closed", "tmp", "store", "orphan"}]
        /\ \A t \in Savers : handle'[t] # "tmp"
    BY <1>3 DEF Replace, SInv, TypeOK
  <2>2. tmp \in Content /\ store' = tmp /\ tmp' = NoFile
    BY <1>3 DEF Replace, SInv, TypeOK
  <2>3. /\ covered' \in Nat
        /\ covered' >= covered /\ covered' >= snapSeq[s]
        /\ covered' <= write_seq
    BY <1>3 DEF Replace, SInv, TypeOK, SeqBounds
  <2>4. pc' \in [Savers -> PC]
    BY <1>3, GoType DEF Replace, SInv, PC
  <2>5. TypeOK'
    BY <1>3, <2>1, <2>2, <2>3, <2>4 DEF Replace, SInv, TypeOK, snaps, bounds
  <2>6. SeqBounds'
    BY <1>3, <2>3 DEF Replace, SInv, TypeOK, SeqBounds, snaps
  <2>7. AckCovered'
    <3>1. \A t \in Savers : pc'[t] = "acknowledge" => t = s \/ pc[t] = "acknowledge"
      BY <1>3, GoType DEF Replace, SInv, PC
    <3> QED
      BY <1>3, <2>3, <3>1 DEF Replace, SInv, TypeOK, AckCovered, snaps
  <2>8. CleanMeansCovered'
    BY <1>3, <2>3 DEF Replace, SInv, TypeOK, CleanMeansCovered, SeqBounds
  <2>9. HandlesExist'
    BY <2>1, <2>2 DEF HandlesExist
  <2> QED
    BY <2>5, <2>6, <2>7, <2>8, <2>9 DEF SInv
<1>4. CASE Acknowledge(s)
  <2>0. Return(s, "acknowledge")
    BY <1>4 DEF Acknowledge
  <2>1. TypeOK'
    BY <1>1, <1>4, <2>0 DEF Acknowledge, SInv, TypeOK, files, bounds
  <2>2. SeqBounds'
    BY <1>1, <1>4, <2>0 DEF Acknowledge, SInv, TypeOK, SeqBounds
  <2>3. AckCovered'
    BY <1>1, <1>4, <2>0 DEF Acknowledge, SInv, AckCovered
  <2>4. CleanMeansCovered'
    <3>1. pc[s] = "acknowledge"
      BY <2>0 DEF Return, Go
    <3>2. snapSeq[s] <= covered /\ covered <= write_seq
      BY <3>1 DEF SInv, AckCovered, SeqBounds
    <3> QED
      BY <1>4, <3>2 DEF Acknowledge, SInv, TypeOK, CleanMeansCovered
  <2>5. HandlesExist'
    BY <1>4 DEF Acknowledge, SInv, HandlesExist, files
  <2> QED
    BY <2>1, <2>2, <2>3, <2>4, <2>5 DEF SInv
<1>5. CASE Cleanup(s)
  <2>0. Return(s, "cleanup")
    BY <1>5 DEF Cleanup
  <2>1. TypeOK'
    BY <1>1, <1>5, <2>0 DEF Cleanup, RemoveTmp, SInv, TypeOK, memory, bounds
  <2>2. SeqBounds'
    BY <1>1, <1>5, <2>0 DEF Cleanup, SInv, TypeOK, SeqBounds, memory
  <2>3. AckCovered'
    BY <1>1, <1>5, <2>0 DEF Cleanup, SInv, AckCovered, memory
  <2>4. CleanMeansCovered' /\ HandlesExist'
    BY <1>5 DEF Cleanup, RemoveTmp, SInv, TypeOK, CleanMeansCovered, HandlesExist, memory
  <2> QED
    BY <2>1, <2>2, <2>3, <2>4 DEF SInv
<1>6. CASE CleanupFails(s)
  <2>0. Return(s, "cleanup")
    BY <1>6 DEF CleanupFails
  <2>1. TypeOK'
    BY <1>1, <1>6, <2>0 DEF CleanupFails, Jammed, SInv, TypeOK, memory, files
  <2>2. SeqBounds'
    BY <1>1, <1>6, <2>0 DEF CleanupFails, Jammed, SInv, TypeOK, SeqBounds, memory
  <2>3. AckCovered'
    BY <1>1, <1>6, <2>0 DEF CleanupFails, Jammed, SInv, AckCovered, memory
  <2>4. CleanMeansCovered' /\ HandlesExist'
    BY <1>6 DEF CleanupFails, Jammed, SInv, CleanMeansCovered, HandlesExist, memory, files
  <2> QED
    BY <2>1, <2>2, <2>3, <2>4 DEF SInv
<1> QED
  BY <1>2, <1>3, <1>4, <1>5, <1>6

\* What _load_from_disk() reads is a value of the declared type.
LEMMA DiskValueType == ASSUME TypeOK PROVE DiskValue \in Values
<1>1. CASE store = NoFile \/ ~Whole(store)
  BY <1>1, ConstantTypes DEF DiskValue
<1>2. CASE store # NoFile /\ Whole(store)
  <2>1. store \in Content
    BY <1>2 DEF TypeOK
  <2>2. [k \in Keys |-> store[k].val] \in Values
    BY <2>1 DEF Content, Block, Values
  <2> QED
    BY <1>2, <2>2 DEF DiskValue
<1> QED
  BY <1>1, <1>2

\* shutdown() and restart.
LEMMA LifecycleInv ==
    ASSUME SInv, ShutdownBegins \/ JoinDaemon \/ Restart
    PROVE  SInv'
<1>1. CASE ShutdownBegins
  <2>1. /\ pc' \in [Savers -> PC]
        /\ \A t \in Savers : pc'[t] = "acknowledge" => pc[t] = "acknowledge"
    BY <1>1, ConstantTypes, GoType DEF ShutdownBegins, SInv, PC
  <2>2. TypeOK'
    BY <1>1, <2>1 DEF ShutdownBegins, SInv, TypeOK, memory, snaps, files, bounds
  <2> QED
    BY <1>1, <2>1, <2>2 DEF ShutdownBegins, SInv, SeqBounds, AckCovered,
       CleanMeansCovered, HandlesExist, memory, snaps, files
<1>2. CASE JoinDaemon
  <2>1. /\ pc' \in [Savers -> PC]
        /\ \A t \in Savers : pc'[t] = "acknowledge" => pc[t] = "acknowledge"
    BY <1>2, ConstantTypes, GoType DEF JoinDaemon, SInv, PC
  <2>2. TypeOK'
    BY <1>2, <2>1 DEF JoinDaemon, SInv, TypeOK, memory, snaps, files, bounds
  <2> QED
    BY <1>2, <2>1, <2>2 DEF JoinDaemon, SInv, SeqBounds, AckCovered,
       CleanMeansCovered, HandlesExist, memory, snaps, files
<1>3. CASE Restart
  <2>1. /\ pc' = [s \in Savers |-> "idle"]
        /\ snapSeq' = [s \in Savers |-> 0]
        /\ live' = [s \in Savers |-> {}]
        /\ view' = [s \in Savers |-> Default]
        /\ pos' = [s \in Savers |-> 0]
        /\ handle' = [s \in Savers |-> "closed"]
    BY <1>3 DEF Restart
  <2>2. /\ data' \in Values
        /\ dirty' = FALSE /\ write_seq' = 0 /\ covered' = 0
        /\ stop_flag' = FALSE /\ clearing' = "idle" /\ restarts' = restarts + 1
    BY <1>3, DiskValueType DEF Restart, SInv
  <2>3. /\ pc' \in [Savers -> PC]
        /\ snapSeq' \in [Savers -> Nat]
        /\ live' \in [Savers -> SUBSET Keys]
        /\ view' \in [Savers -> Values]
        /\ pos' \in [Savers -> 0 .. NumKeys]
        /\ handle' \in [Savers -> {"closed", "tmp", "store", "orphan"}]
    BY <2>1, ConstantTypes, NumKeysAssumption DEF PC
  <2>4. TypeOK'
    <3>1. UNCHANGED <<clock, tmp, store, clears, failures, jams>>
      BY <1>3 DEF Restart
    <3>2. restarts' \in Nat
      BY <2>2 DEF SInv, TypeOK
    <3> QED
      BY <2>2, <2>3, <3>1, <3>2 DEF SInv, TypeOK
  <2>5. SeqBounds' /\ AckCovered' /\ CleanMeansCovered' /\ HandlesExist'
    BY <2>1, <2>2 DEF SeqBounds, AckCovered, CleanMeansCovered, HandlesExist
  <2> QED
    BY <2>4, <2>5 DEF SInv
<1> QED
  BY <1>1, <1>2, <1>3

LEMMA SInvInit == Init => SInv
<1> SUFFICES ASSUME Init PROVE SInv
  OBVIOUS
<1>1. TypeOK
  <2>1. /\ data \in Values
        /\ pc \in [Savers -> PC]
        /\ snapSeq \in [Savers -> Nat]
        /\ live \in [Savers -> SUBSET Keys]
        /\ view \in [Savers -> Values]
        /\ pos \in [Savers -> 0 .. NumKeys]
        /\ handle \in [Savers -> {"closed", "tmp", "store", "orphan"}]
    BY ConstantTypes, NumKeysAssumption DEF Init, PC
  <2>2. /\ dirty = FALSE /\ write_seq = 0 /\ stop_flag = FALSE
        /\ tmp = NoFile /\ store = NoFile /\ clearing = "idle" /\ clock = 0
        /\ clears = 0 /\ failures = 0 /\ jams = 0 /\ restarts = 0
        /\ covered = 0
    BY DEF Init
  <2> QED
    BY <2>1, <2>2 DEF TypeOK
<1>2. SeqBounds /\ AckCovered /\ CleanMeansCovered /\ HandlesExist
  BY DEF Init, SeqBounds, AckCovered, CleanMeansCovered, HandlesExist
<1> QED
  BY <1>1, <1>2 DEF SInv

\* SInv is inductive.
LEMMA SInvNext == SInv /\ [Next]_vars => SInv'
<1> SUFFICES ASSUME SInv, [Next]_vars PROVE SInv'
  OBVIOUS
<1>1. CASE Write
  BY <1>1, WriteInv
<1>2. CASE ClearAll
  BY <1>2, ClearInv
<1>3. ASSUME NEW s \in Savers, Save(s) PROVE SInv'
  BY <1>3, QuietSaveInv, LoudSaveInv DEF Save
<1>4. CASE ShutdownBegins \/ JoinDaemon \/ Restart
  BY <1>4, LifecycleInv
<1>5. CASE UNCHANGED vars
  <2>1. TypeOK'
    BY <1>5 DEF vars, memory, snaps, files, bounds, SInv, TypeOK
  <2>2. SeqBounds' /\ AckCovered' /\ CleanMeansCovered' /\ HandlesExist'
    BY <1>5 DEF vars, memory, snaps, files, SInv, SeqBounds, AckCovered,
                CleanMeansCovered, HandlesExist
  <2> QED
    BY <2>1, <2>2 DEF SInv
<1> QED
  BY <1>1, <1>2, <1>3, <1>4, <1>5 DEF Next

\* Each conjunct of the invariant is kept by every step.
THEOREM SInvHolds == Spec => []SInv
BY SInvInit, SInvNext, PTL DEF Spec

-----------------------------------------------------------------------------
\* Type correctness of the store.
THEOREM StoreTypeCorrect == Spec => []TypeOK
BY SInvHolds, PTL DEF SInv

\* nosql.py:139-142, for any number of concurrent savers: the dirty flag is
\* never cleared while a write that no completed save captured is outstanding.
THEOREM NoClearDirtyRace == Spec => []CleanMeansCovered
BY SInvHolds, PTL DEF SInv

-----------------------------------------------------------------------------
(* The temporary file *)

\* nosql.py:277-284: savers may steal or delete each other's temporary file, but
\* without a crash, and without a removal that fails, none is left behind.
THEOREM NoTmpLeft == Spec => []NoStrayTmp
<1>1. Init => NoStrayTmp
  BY DEF Init, NoStrayTmp
<1>2. ASSUME SInv, NoStrayTmp, [Next]_vars PROVE NoStrayTmp'
  <2>1. ASSUME NEW s \in Savers, Save(s) PROVE NoStrayTmp'
    <3> USE <1>2 DEF NoStrayTmp, SInv, TypeOK, Go
    <3>1. CASE Tick(s) \/ CheckDirty(s) \/ Snapshot(s)
      BY <3>1 DEF Tick, CheckDirty, Snapshot, files, bounds
    <3>2. CASE Open(s) \/ Dump(s) \/ Close(s)
      BY <3>2 DEF Open, Dump, Close, bounds
    <3>3. CASE WriteFails(s)
      BY <3>3 DEF WriteFails
    <3>4. CASE Replace(s) \/ ReplaceMissing(s) \/ Cleanup(s)
      BY <3>4 DEF Replace, ReplaceMissing, Cleanup, RemoveTmp, files
    <3>5. CASE Acknowledge(s)
      BY <3>5 DEF Acknowledge, Return, files, bounds
    <3>6. CASE CleanupFails(s)
      BY <3>6 DEF CleanupFails, Jammed
    <3> QED
      BY <2>1, <3>1, <3>2, <3>3, <3>4, <3>5, <3>6 DEF Save
  <2>2. CASE Write \/ ClearMemory \/ ClearRemoveStore \/ ClearRemoveTmp \/ UNCHANGED vars
    BY <1>2, <2>2
    DEF NoStrayTmp, Write, Mutate, Rebind, Stamp, ClearMemory,
        ClearRemoveStore, ClearRemoveTmp, RemoveTmp, vars, files, bounds
  <2>5. CASE ClearKeepsStore \/ ClearKeepsTmp
    <3>1. jams' = jams + 1 /\ jams \in Nat
      BY <1>2, <2>5 DEF ClearKeepsStore, ClearKeepsTmp, Jammed, SInv, TypeOK
    <3> QED
      BY <3>1 DEF NoStrayTmp
  <2>3. CASE ShutdownBegins \/ JoinDaemon
    BY <1>2, <2>3 DEF NoStrayTmp, ShutdownBegins, JoinDaemon, Go, SInv, TypeOK, files, bounds
  <2>4. CASE Restart
    BY <1>2, <2>4 DEF NoStrayTmp, Restart, SInv, TypeOK
  <2> QED
    BY <1>2, <2>1, <2>2, <2>3, <2>4, <2>5 DEF Next, ClearAll, ClearGoesOn
<1> QED
  BY <1>1, <1>2, SInvHolds, PTL DEF Spec

-----------------------------------------------------------------------------
(* Saves that do not overlap *)

Saving(s) == pc[s] \in {"open", "dump", "replace", "acknowledge", "cleanup"}

\* From its snapshot on, a save is alone: no other save runs, and no clear_all().
SerialSaves ==
    /\ \A s, t \in Savers : Saving(s) /\ Saving(t) => s = t
    /\ clearing # "idle" => \A s \in Savers : ~Saving(s)

\* Nothing was written since the snapshot of s.
Current(s) == snapSeq[s] = write_seq

\* What the file being written, or just replaced, holds so far.
Written(s) ==
    /\ handle[s] # "closed" => pc[s] = "dump"
    /\ pc[s] = "dump" => handle[s] = "tmp"
    /\ pc[s] \in {"dump", "replace"} =>
           /\ tmp \in Content
           /\ \A k \in Keys : k <= pos[s] => tmp[k].by = s
    /\ pc[s] = "replace" => pos[s] = NumKeys
    /\ pc[s] = "acknowledge" =>
           store \in Content /\ \A k \in Keys : store[k].by = s

\* The same against memory, as long as nothing is written; and while a save runs
\* only a write can make it outdated, which makes the store dirty.
Fresh(s) ==
    /\ (~dirty /\ pc[s] \in {"open", "dump", "replace", "acknowledge"}) => Current(s)
    /\ Current(s) =>
        /\ pc[s] \in {"open", "dump", "replace"} =>
               \A k \in Keys \ live[s] : view[s][k] = data[k]
        /\ pc[s] \in {"dump", "replace"} =>
               \A k \in Keys : k <= pos[s] => tmp[k].val = data[k]
        /\ pc[s] = "acknowledge" => \A k \in Keys : store[k].val = data[k]

Clearing ==
    /\ clearing # "idle" => data = Default
    /\ clearing = "removeTmp" => store = NoFile

SerialInv ==
    /\ \A s \in Savers : Written(s) /\ Fresh(s)
    /\ Clearing /\ StoreFileIsWhole /\ CleanMeansDurable

\* A write makes every running save outdated, and the store dirty.
LEMMA SerialWrite == ASSUME SInv, SerialInv, Write PROVE SerialInv'
<1>1. PICK K \in SUBSET Keys : Stamp(K)
  BY DEF Write, Mutate, Rebind
<1>2. /\ UNCHANGED <<pc, snapSeq, pos, handle, tmp, store, clearing>>
      /\ dirty' = TRUE /\ write_seq' = write_seq + 1 /\ clearing = "idle"
  BY <1>1 DEF Stamp, LockFree, files
<1>3. \A s \in Savers : ~Current(s)'
  BY <1>2 DEF SInv, SeqBounds, TypeOK, Current
<1>4. (\A s \in Savers : Written(s)') /\ Clearing' /\ StoreFileIsWhole'
  BY <1>2 DEF SerialInv, Written, Clearing, StoreFileIsWhole, Whole
<1>5. (\A s \in Savers : Fresh(s)') /\ CleanMeansDurable'
  BY <1>2, <1>3 DEF Fresh, CleanMeansDurable
<1> QED
  BY <1>4, <1>5 DEF SerialInv

\* clear_all() leaves nothing in memory nor, unless the removal of the store file
\* fails, on disk.
LEMMA SerialClear ==
    ASSUME SInv, SerialInv, SerialSaves, SerialSaves', ClearAll, ~ClearKeepsStore
    PROVE  SerialInv'
<1>1. CASE ClearMemory
  <2>1. /\ UNCHANGED <<pc, snapSeq, pos, handle, tmp, store>>
        /\ clearing' = "removeStore" /\ data' = Default
    BY <1>1 DEF ClearMemory, files
  <2>2. \A s \in Savers : ~Saving(s)'
    BY <2>1 DEF SerialSaves
  <2> QED
    BY <2>1, <2>2
    DEF SerialInv, Written, Fresh, Clearing, StoreFileIsWhole, CleanMeansDurable, Whole, Saving
<1>2. CASE ClearRemoveStore
  <2>1. /\ UNCHANGED <<data, pc, snapSeq, pos, tmp>>
        /\ clearing = "removeStore" /\ clearing' = "removeTmp" /\ store' = NoFile
        /\ handle' = [s \in Savers |-> IF handle[s] = "store" THEN "orphan" ELSE handle[s]]
    BY <1>2 DEF ClearRemoveStore, memory, snaps
  <2>2. \A s \in Savers : ~Saving(s)'
    BY <2>1 DEF SerialSaves
  <2>3. \A s \in Savers : handle[s] = "closed"
    BY <2>1, <2>2 DEF SerialInv, Written, Saving
  <2> QED
    BY <2>1, <2>2, <2>3
    DEF SerialInv, Written, Fresh, Clearing, StoreFileIsWhole, CleanMeansDurable, Saving
<1>3. CASE ClearRemoveTmp
  <2>1. /\ UNCHANGED <<data, pc, snapSeq, pos, store>>
        /\ clearing = "removeTmp" /\ clearing' = "idle"
        /\ handle' = [s \in Savers |-> IF handle[s] = "tmp" THEN "orphan" ELSE handle[s]]
    BY <1>3 DEF ClearRemoveTmp, RemoveTmp, memory, snaps
  <2>2. data = Default /\ store = NoFile
    BY <2>1 DEF SerialInv, Clearing
  <2>3. \A s \in Savers : pc'[s] \notin {"open", "dump", "replace", "acknowledge"}
    BY <2>1 DEF SerialSaves, Saving
  <2> QED
    BY <2>1, <2>2, <2>3
    DEF SerialInv, Written, Fresh, Clearing, StoreFileIsWhole, CleanMeansDurable, DiskValue
<1>4. CASE ClearKeepsTmp
  <2>1. /\ UNCHANGED <<data, pc, snapSeq, pos, store, handle>>
        /\ clearing = "removeTmp" /\ clearing' = "idle"
    BY <1>4 DEF ClearKeepsTmp, Jammed, memory, snaps, files
  <2>2. data = Default /\ store = NoFile
    BY <2>1 DEF SerialInv, Clearing
  <2>3. \A s \in Savers : pc'[s] \notin {"open", "dump", "replace", "acknowledge"}
    BY <2>1 DEF SerialSaves, Saving
  <2> QED
    BY <2>1, <2>2, <2>3
    DEF SerialInv, Written, Fresh, Clearing, StoreFileIsWhole, CleanMeansDurable, DiskValue
<1> QED
  BY <1>1, <1>2, <1>3, <1>4 DEF ClearAll, ClearGoesOn

\* The steps of a save that leave the files alone.
LEMMA SerialQuiet ==
    ASSUME SInv, SerialInv, NEW s \in Savers,
           Tick(s) \/ CheckDirty(s) \/ Snapshot(s) \/ Close(s) \/ ReplaceMissing(s)
    PROVE  SerialInv'
<1>1. UNCHANGED <<data, dirty, write_seq, tmp, store, clearing, pos>>
  BY DEF Tick, CheckDirty, Snapshot, Close, ReplaceMissing, memory, files
<1>2. Clearing' /\ StoreFileIsWhole' /\ CleanMeansDurable'
  BY <1>1 DEF SerialInv, Clearing, StoreFileIsWhole, CleanMeansDurable, DiskValue, Whole
<1>3. ASSUME NEW t \in Savers, t # s PROVE Written(t)' /\ Fresh(t)'
  <2>1. /\ pc'[t] = pc[t] /\ handle'[t] = handle[t]
        /\ snapSeq'[t] = snapSeq[t] /\ live'[t] = live[t] /\ view'[t] = view[t]
    BY <1>3 DEF Tick, CheckDirty, Snapshot, Close, ReplaceMissing, Go, SInv, TypeOK, snaps, files
  <2> QED
    BY <1>1, <2>1 DEF SerialInv, Written, Fresh, Current
<1>4. CASE Tick(s) \/ CheckDirty(s) \/ ReplaceMissing(s)
  <2>1. /\ pc'[s] \notin {"open", "dump", "replace", "acknowledge"}
        /\ pc[s] # "dump" /\ handle' = handle
    BY <1>4 DEF Tick, CheckDirty, ReplaceMissing, Go, SInv, TypeOK, files
  <2> QED
    BY <1>2, <1>3, <2>1 DEF SerialInv, Written, Fresh
<1>5. CASE Snapshot(s)
  <2>1. /\ pc[s] = "snapshot" /\ pc'[s] = "open" /\ handle' = handle
        /\ snapSeq'[s] = write_seq /\ live'[s] = Keys \ CopiedKeys
        /\ view'[s] = [k \in Keys |-> IF k \in CopiedKeys THEN data[k] ELSE 0]
    BY <1>5 DEF Snapshot, Go, SInv, TypeOK, files
  <2>2. Written(s)' /\ Fresh(s)'
    BY <1>1, <2>1 DEF SerialInv, Written, Fresh, Current
  <2> QED
    BY <1>2, <1>3, <2>2 DEF SerialInv
<1>6. CASE Close(s)
  <2>1. /\ pc[s] = "dump" /\ pc'[s] = "replace" /\ pos[s] = NumKeys
        /\ handle'[s] = "closed" /\ UNCHANGED <<snapSeq, live, view>>
    BY <1>6 DEF Close, Go, SInv, TypeOK, snaps
  <2>2. Written(s)' /\ Fresh(s)'
    BY <1>1, <2>1 DEF SerialInv, Written, Fresh, Current
  <2> QED
    BY <1>2, <1>3, <2>2 DEF SerialInv
<1> QED
  BY <1>4, <1>5, <1>6

\* Whoever is not saving is not concerned.
LEMMA SerialOthers ==
    ASSUME SInv, SerialInv, SerialSaves, NEW s \in Savers, Saving(s),
           NEW t \in Savers, t # s, Save(s)
    PROVE  Written(t)' /\ Fresh(t)'
<1>1. ~Saving(t) /\ handle[t] = "closed"
  BY DEF SerialSaves, Saving, SerialInv, Written
<1>2. pc'[t] = pc[t] /\ handle'[t] = "closed"
  BY <1>1 DEF Save, Tick, CheckDirty, Snapshot, Open, Dump, Close, Replace, Acknowledge,
              ReplaceMissing, WriteFails, Cleanup, CleanupFails, Jammed, Return, RemoveTmp, Go,
              SInv, TypeOK, files
<1> QED
  BY <1>1, <1>2 DEF Written, Fresh, Saving

\* Writing the temporary file, or failing to: the store file stays as it is.
LEMMA SerialDump ==
    ASSUME SInv, SerialInv, SerialSaves, NEW s \in Savers,
           Open(s) \/ Dump(s) \/ WriteFails(s) \/ Cleanup(s) \/ CleanupFails(s)
    PROVE  SerialInv'
<1>1. /\ UNCHANGED <<data, dirty, write_seq, clearing>> /\ Saving(s)
  BY DEF Open, Dump, WriteFails, Cleanup, CleanupFails, Jammed, Return, Go, memory, Saving
<1>2. \A t \in Savers : t # s => Written(t)' /\ Fresh(t)'
  BY <1>1, SerialOthers DEF Save
<1>3. store' = store => Clearing' /\ StoreFileIsWhole' /\ CleanMeansDurable'
  BY <1>1 DEF SerialInv, Clearing, StoreFileIsWhole, CleanMeansDurable, DiskValue, Whole
<1>4. CASE Open(s)
  <2>1. /\ pc[s] = "open" /\ pc'[s] = "dump" /\ handle'[s] = "tmp" /\ pos'[s] = 0
        /\ tmp' = Truncated /\ store' = store /\ UNCHANGED <<snapSeq, live, view>>
    BY <1>4 DEF Open, Go, SInv, TypeOK, snaps
  <2>2. \A k \in Keys : ~(k <= 0)
    BY NumKeysAssumption DEF Keys
  <2>3. Written(s)' /\ Fresh(s)'
    BY <1>1, <2>1, <2>2, ConstantTypes DEF SerialInv, Written, Fresh, Current
  <2> QED
    BY <1>2, <1>3, <2>1, <2>3 DEF SerialInv
<1>5. CASE Dump(s)
  <2> DEFINE k == pos[s] + 1
             block == [by |-> s, val |-> IF k \in live[s] THEN data[k] ELSE view[s][k]]
  <2>1. /\ pc[s] = "dump" /\ pc'[s] = "dump" /\ handle' = handle /\ pos'[s] = k
        /\ k \in Keys /\ UNCHANGED <<snapSeq, live, view>>
    BY <1>5, NumKeysAssumption DEF Dump, Go, SInv, TypeOK, snaps, Keys
  <2>2. handle[s] = "tmp" /\ tmp \in Content
    BY <2>1 DEF SerialInv, Written
  <2>3. tmp' = [tmp EXCEPT ![k] = block] /\ store' = store
    BY <1>5, <2>2 DEF Dump
  <2>4. /\ tmp' \in Content /\ tmp'[k] = block
        /\ \A j \in Keys : j # k => tmp'[j] = tmp[j]
    <3>1. block \in Block
      BY <2>1 DEF Block, SInv, TypeOK, Values
    <3> HIDE DEF k, block
    <3> QED
      BY <2>1, <2>2, <2>3, <3>1 DEF Content
  <2>5. \A j \in Keys : j <= k /\ j # k => j <= pos[s]
    BY NumKeysAssumption DEF SInv, TypeOK, Keys
  <2>6. Written(s)'
    BY <1>1, <2>1, <2>2, <2>4, <2>5 DEF SerialInv, Written
  <2>7. Fresh(s)'
    BY <1>1, <2>1, <2>2, <2>4, <2>5 DEF SerialInv, Fresh, Current
  <2> QED
    BY <1>2, <1>3, <2>3, <2>6, <2>7 DEF SerialInv
<1>6. CASE WriteFails(s) \/ Cleanup(s) \/ CleanupFails(s)
  <2>1. /\ pc'[s] \notin {"open", "dump", "replace", "acknowledge"} /\ store' = store
        /\ handle'[s] = "closed"
    BY <1>6 DEF WriteFails, Cleanup, CleanupFails, Jammed, Return, RemoveTmp, Go, SInv, TypeOK,
                SerialInv, Written, files
  <2>2. Written(s)' /\ Fresh(s)'
    BY <2>1 DEF Written, Fresh
  <2> QED
    BY <1>2, <1>3, <2>1, <2>2 DEF SerialInv
<1> QED
  BY <1>4, <1>5, <1>6

\* What is read back from a file that one saver wrote.
LEMMA ReadBack ==
    ASSUME store \in Content, NEW s \in Savers, \A k \in Keys : store[k].by = s
    PROVE  Whole(store) /\ DiskValue = [k \in Keys |-> store[k].val]
BY NoFileAssumption DEF DiskValue, Whole

\* The replace publishes a whole file, the snapshot if nothing was written since.
LEMMA SerialReplace ==
    ASSUME SInv, SerialInv, SerialSaves, NEW s \in Savers, Replace(s)
    PROVE  SerialInv'
<1>1. /\ UNCHANGED <<data, dirty, write_seq, clearing, snapSeq, live, view>>
      /\ pc[s] = "replace" /\ pc'[s] = "acknowledge" /\ store' = tmp
      /\ handle' = [t \in Savers |-> CASE handle[t] = "tmp" -> "store"
                                       [] handle[t] = "store" -> "orphan"
                                       [] OTHER -> handle[t]]
  BY DEF Replace, Go, SInv, TypeOK, snaps
<1>2. \A t \in Savers : t # s => Written(t)' /\ Fresh(t)'
  BY <1>1, SerialOthers DEF Save, Saving
<1>3. handle[s] = "closed" /\ tmp \in Content /\ \A k \in Keys : tmp[k].by = s
  BY <1>1 DEF SerialInv, Written, Keys
<1>4. Written(s)' /\ Fresh(s)'
  <2>1. \A k \in Keys : k <= NumKeys
    BY DEF Keys
  <2>2. handle'[s] = "closed"
    BY <1>1, <1>3
  <2> QED
    BY <1>1, <1>3, <2>1, <2>2 DEF SerialInv, Written, Fresh, Current
<1>5. Clearing'
  <2>1. clearing = "idle"
    BY <1>1 DEF SerialSaves, Saving, SInv, TypeOK
  <2> QED
    BY <1>1, <2>1 DEF Clearing
<1>6. Whole(store)' /\ DiskValue' = [k \in Keys |-> tmp[k].val]
  BY <1>1, <1>3, NoFileAssumption DEF DiskValue, Whole
<1>7. CleanMeansDurable'
  <2>1. ASSUME ~dirty PROVE \A k \in Keys : tmp[k].val = data[k]
    BY <1>1, <2>1 DEF SerialInv, Written, Fresh, Keys
  <2>2. data = [k \in Keys |-> data[k]]
    BY DEF SInv, TypeOK, Values
  <2> QED
    BY <1>1, <1>6, <2>1, <2>2 DEF CleanMeansDurable
<1> QED
  BY <1>2, <1>4, <1>5, <1>6, <1>7 DEF SerialInv, StoreFileIsWhole

\* The acknowledgement may clear the flag: then the file holds the memory.
LEMMA SerialAcknowledge ==
    ASSUME SInv, SerialInv, SerialSaves, NEW s \in Savers, Acknowledge(s)
    PROVE  SerialInv'
<1>1. /\ UNCHANGED <<data, write_seq, clearing, handle, tmp, store>>
      /\ pc[s] = "acknowledge" /\ pc'[s] \in {"idle", "exited"}
      /\ dirty' = IF Current(s) THEN FALSE ELSE dirty
  BY DEF Acknowledge, Return, Go, SInv, TypeOK, files, Current
<1>2. \A t \in Savers : t # s => Written(t)' /\ Fresh(t)'
  BY <1>1, SerialOthers DEF Save, Saving
<1>3. Written(s)' /\ Fresh(s)'
  BY <1>1 DEF SerialInv, Written, Fresh
<1>4. Clearing' /\ StoreFileIsWhole'
  BY <1>1 DEF SerialInv, Clearing, StoreFileIsWhole, Whole
<1>5. CleanMeansDurable'
  <2>1. DiskValue' = DiskValue
    BY <1>1 DEF DiskValue, Whole
  <2>2. ASSUME Current(s) PROVE DiskValue = data
    <3>1. store \in Content /\ \A k \in Keys : store[k].by = s /\ store[k].val = data[k]
      BY <1>1, <2>2 DEF SerialInv, Written, Fresh
    <3>2. data = [k \in Keys |-> data[k]]
      BY DEF SInv, TypeOK, Values
    <3> QED
      BY <3>1, <3>2, ReadBack
  <2> QED
    BY <1>1, <2>1, <2>2 DEF SerialInv, CleanMeansDurable
<1> QED
  BY <1>2, <1>3, <1>4, <1>5 DEF SerialInv

LEMMA SerialLifecycle ==
    ASSUME SInv, SerialInv, ShutdownBegins \/ JoinDaemon \/ Restart \/ UNCHANGED vars
    PROVE  SerialInv'
<1>1. CASE ShutdownBegins \/ JoinDaemon
  <2>1. /\ UNCHANGED <<memory, snaps, pos, files, clearing>>
        /\ pc[Main] \in {"idle", "join"} /\ pc'[Main] \in {"join", "snapshot"}
        /\ \A s \in Savers : s # Main => pc'[s] = pc[s]
    BY <1>1, ConstantTypes DEF ShutdownBegins, JoinDaemon, Go, SInv, TypeOK
  <2>2. \A s \in Savers : Written(s)' /\ Fresh(s)'
    BY <2>1 DEF SerialInv, Written, Fresh, Current, memory, snaps, files
  <2>3. Clearing' /\ StoreFileIsWhole' /\ CleanMeansDurable'
    BY <2>1 DEF SerialInv, Clearing, StoreFileIsWhole, CleanMeansDurable, DiskValue, Whole,
                memory, files
  <2> QED
    BY <2>2, <2>3 DEF SerialInv
<1>2. CASE Restart
  <2>1. /\ \A s \in Savers : pc'[s] = "idle" /\ handle'[s] = "closed"
        /\ clearing' = "idle" /\ data' = DiskValue /\ store' = store
    BY <1>2 DEF Restart
  <2>2. DiskValue' = DiskValue
    BY <2>1 DEF DiskValue, Whole
  <2> QED
    BY <2>1, <2>2
    DEF SerialInv, Written, Fresh, Clearing, StoreFileIsWhole, CleanMeansDurable, Whole
<1>3. CASE UNCHANGED vars
  <2>1. \A s \in Savers : Written(s)' /\ Fresh(s)'
    BY <1>3 DEF SerialInv, Written, Fresh, Current, vars, memory, snaps, files
  <2>2. Clearing' /\ StoreFileIsWhole' /\ CleanMeansDurable'
    BY <1>3 DEF SerialInv, Clearing, StoreFileIsWhole, CleanMeansDurable, DiskValue, Whole,
                vars, memory, files
  <2> QED
    BY <2>1, <2>2 DEF SerialInv
<1> QED
  BY <1>1, <1>2, <1>3

\* A clear_all() removes the store file: nosql.py:387-391 swallows a failure, and
\* what memory no longer holds then comes back at the next boot.
ClearsRemove == [][~ClearKeepsStore]_vars

LEMMA SerialInvHolds == Spec /\ []SerialSaves /\ ClearsRemove => []SerialInv
<1>1. Init => SerialInv
  BY DEF Init, SerialInv, Written, Fresh, Clearing, StoreFileIsWhole, CleanMeansDurable,
         DiskValue
<1>2. /\ SInv /\ SerialSaves /\ SerialSaves' /\ SerialInv
      /\ [Next]_vars /\ [~ClearKeepsStore]_vars
      => SerialInv'
  <2> SUFFICES ASSUME SInv, SerialSaves, SerialSaves', SerialInv, [Next]_vars,
                      [~ClearKeepsStore]_vars
               PROVE  SerialInv'
    OBVIOUS
  <2>1. ASSUME NEW s \in Savers, Save(s) PROVE SerialInv'
    BY <2>1, SerialQuiet, SerialDump, SerialReplace, SerialAcknowledge DEF Save
  <2> QED
    BY <2>1, SerialWrite, SerialClear, SerialLifecycle DEF Next
<1> QED
  BY <1>1, <1>2, SInvHolds, PTL DEF Spec, ClearsRemove

\* nosql.py:201: for any number of savers and clears whose saves do not overlap, and
\* clears that do remove the file, a store that is not dirty is on disk, through
\* failures and crashes.
THEOREM SerialCleanIsDurable ==
    Spec /\ []SerialSaves /\ ClearsRemove => []CleanMeansDurable
BY SerialInvHolds, PTL DEF SerialInv

\* nosql.py:17: under the same conditions the store file is one saver's document.
THEOREM SerialFileIsWhole ==
    Spec /\ []SerialSaves /\ ClearsRemove => []StoreFileIsWhole
BY SerialInvHolds, PTL DEF SerialInv

\* The daemon has ended when the save of the shutdown starts.
OneAfterTheOther ==
    /\ clears = 0 /\ clearing = "idle"
    /\ pc[Main] \notin {"idle", "exited"} => stop_flag
    /\ pc[Main] \notin {"idle", "join", "exited"} => pc[Daemon] = "idle"

\* nosql.py:320-340: without workers that flush, without clears and on a disk that is
\* faster than the join of shutdown(), saves do not overlap.
THEOREM DaemonAndMainAreSerial ==
    ASSUME Workers = {}, SlowDisk = FALSE, MaxClears = 0
    PROVE  Spec => []SerialSaves
<1>1. Init => OneAfterTheOther
  BY ConstantTypes DEF Init, OneAfterTheOther
<1>2. ASSUME SInv, OneAfterTheOther, [Next]_vars PROVE OneAfterTheOther'
  <2> USE <1>2, ConstantTypes, SaversAssumption DEF OneAfterTheOther
  <2>1. CASE Write \/ UNCHANGED vars
    BY <2>1 DEF Write, Mutate, Rebind, Stamp, vars, bounds
  <2>2. CASE ClearAll
    BY <2>2, BoundsAssumption DEF ClearAll, ClearGoesOn, ClearMemory, ClearRemoveStore,
                                  ClearRemoveTmp, ClearKeepsStore, ClearKeepsTmp
  <2>3. ASSUME NEW s \in Savers, Save(s) PROVE OneAfterTheOther'
    <3>1. /\ UNCHANGED <<clears, clearing, stop_flag>>
          /\ \A t \in Savers : t # s => pc'[t] = pc[t]
          /\ pc[s] = "idle" => s # Main /\ (s = Daemon => ~stop_flag)
          /\ s = Main => pc[s] \notin {"idle", "join", "exited"}
      BY <2>3
      DEF Save, Tick, CheckDirty, Snapshot, Open, Dump, Close, Replace, Acknowledge,
          ReplaceMissing, WriteFails, Cleanup, CleanupFails, Jammed, Return, RemoveTmp, Go,
          SInv, TypeOK, bounds, PC
    <3> QED
      BY <3>1 DEF Savers
  <2>4. CASE ShutdownBegins
    BY <2>4 DEF ShutdownBegins, Go, SInv, TypeOK, bounds
  <2>5. CASE JoinDaemon
    BY <2>5 DEF JoinDaemon, Go, SInv, TypeOK, bounds
  <2>6. CASE Restart
    BY <2>6 DEF Restart
  <2> QED
    BY <2>1, <2>2, <2>3, <2>4, <2>5, <2>6 DEF Next
<1>3. OneAfterTheOther => SerialSaves
  BY DEF OneAfterTheOther, SerialSaves, Saving, Savers
<1> QED
  BY <1>1, <1>2, <1>3, SInvHolds, PTL DEF Spec

-----------------------------------------------------------------------------
(* The refinement of DurableStore *)

\* What a save has read lies between disk and memory, and so does what it has
\* written.
Between(s) ==
    /\ pc[s] \in {"open", "dump", "replace"} =>
           \A k \in Keys \ live[s] : DiskValue[k] <= view[s][k] /\ view[s][k] <= data[k]
    /\ pc[s] \in {"dump", "replace"} =>
           \A k \in Keys : k <= pos[s] =>
               DiskValue[k] <= tmp[k].val /\ tmp[k].val <= data[k]

DiskFollows ==
    /\ clearing = "idle"
    /\ \A k \in Keys : DiskValue[k] <= data[k] /\ data[k] <= clock
    /\ \A s \in Savers : Between(s)

\* While the store file stays, so does what a restart would read.
LEMMA SameFile == store' = store => DiskValue' = DiskValue
BY DEF DiskValue, Whole

\* Stamps only grow.
LEMMA FollowsWrite ==
    ASSUME SInv, SerialInv, DiskFollows, Write
    PROVE  DiskFollows' /\ Durable!DWrite
<1>1. PICK K \in SUBSET Keys : Stamp(K) /\ (UNCHANGED <<live, view>> \/ Sever(K))
  BY DEF Write, Mutate, Rebind
<1>2. /\ UNCHANGED <<pc, pos, tmp, store, clearing>> /\ clock' = clock + 1
      /\ data' = [k \in Keys |-> IF k \in K THEN clock + 1 ELSE data[k]]
  BY <1>1 DEF Stamp, files
<1>3. DiskValue' = DiskValue /\ DiskValue \in Values
  BY <1>2, SameFile, DiskValueType DEF SInv
<1>4. \A k \in Keys : /\ data'[k] \in Nat /\ data[k] \in Nat /\ DiskValue[k] \in Nat
                      /\ data[k] <= data'[k] /\ data'[k] <= clock'
  BY <1>2, <1>3 DEF DiskFollows, SInv, TypeOK, Values
<1>5. ASSUME NEW s \in Savers PROVE Between(s)'
  <2>1. ASSUME pc[s] \in {"open", "dump", "replace"}, NEW k \in Keys \ live'[s]
        PROVE  DiskValue[k] <= view'[s][k] /\ view'[s][k] <= data'[k]
    <3>1. view[s] \in Values
      BY DEF SInv, TypeOK
    <3>2. \/ k \notin live[s] /\ view'[s][k] = view[s][k]
          \/ view'[s][k] = data[k]
      BY <1>1, <2>1 DEF Sever, SInv, TypeOK
    <3>3. k \notin live[s] => DiskValue[k] <= view[s][k] /\ view[s][k] <= data[k]
      BY <2>1 DEF DiskFollows, Between
    <3> QED
      BY <1>4, <3>1, <3>2, <3>3 DEF DiskFollows, Values
  <2>2. ASSUME pc[s] \in {"dump", "replace"}, NEW k \in Keys, k <= pos[s]
        PROVE  DiskValue[k] <= tmp[k].val /\ tmp[k].val <= data'[k]
    <3>1. DiskValue[k] <= tmp[k].val /\ tmp[k].val <= data[k]
      BY <2>2 DEF DiskFollows, Between
    <3>2. tmp[k].val \in Nat
      BY <2>2 DEF SerialInv, Written, Content, Block
    <3> QED
      BY <1>4, <3>1, <3>2
  <2> QED
    BY <1>2, <1>3, <2>1, <2>2 DEF Between
<1>6. DiskFollows'
  <2>1. \A k \in Keys : DiskValue[k] <= data'[k]
    BY <1>4 DEF DiskFollows
  <2> QED
    BY <1>2, <1>3, <1>4, <1>5, <2>1 DEF DiskFollows
<1>7. Durable!DWrite
  <2>1. data' \in [Keys -> Nat]
    BY <1>2, <1>4
  <2> QED
    BY <1>3, <1>4, <2>1 DEF Durable!DWrite, Durable!AtMost
<1> QED
  BY <1>6, <1>7

\* A save reads what memory holds, and its replace moves the disk up to that.
LEMMA FollowsSave ==
    ASSUME SInv, SerialInv, SerialSaves, DiskFollows, NEW s \in Savers, Save(s)
    PROVE  /\ DiskFollows'
           /\ Durable!DFlush \/ UNCHANGED <<data, DiskValue>>
<1>1. UNCHANGED <<data, clock, clearing>>
  BY DEF Save, Tick, CheckDirty, Snapshot, Open, Dump, Close, Replace, Acknowledge,
         ReplaceMissing, WriteFails, Cleanup, CleanupFails, Jammed, memory
<1>2. DiskValue \in Values /\ data \in Values
  BY DiskValueType DEF SInv, TypeOK
<1>3. ASSUME store' = store, \A t \in Savers : Between(t)'
      PROVE  DiskFollows' /\ UNCHANGED <<data, DiskValue>>
  BY <1>1, <1>3, SameFile DEF DiskFollows
<1>4. ASSUME Tick(s) \/ CheckDirty(s) \/ Snapshot(s) \/ ReplaceMissing(s) \/ Acknowledge(s)
             \/ Close(s)
      PROVE  DiskFollows' /\ UNCHANGED <<data, DiskValue>>
  <2>1. /\ UNCHANGED <<tmp, store>>
        /\ \A t \in Savers : t # s => /\ pc'[t] = pc[t] /\ live'[t] = live[t]
                                      /\ view'[t] = view[t] /\ pos'[t] = pos[t]
    BY <1>4 DEF Tick, CheckDirty, Snapshot, ReplaceMissing, Acknowledge, Close, Return, Go,
                SInv, TypeOK, snaps, files
  <2>2. \A t \in Savers : t # s => Between(t)'
    BY <1>1, <2>1, SameFile DEF DiskFollows, Between
  <2>3. Between(s)'
    <3>1. CASE Snapshot(s)
      <4>1. /\ pc'[s] = "open" /\ live'[s] = Keys \ CopiedKeys
            /\ view'[s] = [k \in Keys |-> IF k \in CopiedKeys THEN data[k] ELSE 0]
        BY <3>1 DEF Snapshot, Go, SInv, TypeOK
      <4>2. \A k \in Keys : DiskValue[k] <= data[k] /\ data[k] <= data[k]
        BY <1>2 DEF DiskFollows, Values
      <4> QED
        BY <1>1, <2>1, <4>1, <4>2, SameFile DEF Between
    <3>2. CASE Close(s)
      <4>1. /\ pc[s] = "dump" /\ pc'[s] = "replace"
            /\ UNCHANGED <<pos, live, view>>
        BY <3>2 DEF Close, Go, SInv, TypeOK, snaps
      <4> QED
        BY <1>1, <2>1, <4>1, SameFile DEF DiskFollows, Between
    <3>3. CASE Tick(s) \/ CheckDirty(s) \/ ReplaceMissing(s) \/ Acknowledge(s)
      <4>1. pc'[s] \notin {"open", "dump", "replace"}
        BY <3>3 DEF Tick, CheckDirty, ReplaceMissing, Acknowledge, Return, Go, SInv, TypeOK
      <4> QED
        BY <4>1 DEF Between
    <3> QED
      BY <1>4, <3>1, <3>2, <3>3
  <2> QED
    BY <1>3, <2>1, <2>2, <2>3
<1>5. ASSUME Saving(s), NEW t \in Savers, t # s PROVE Between(t)'
  <2>1. ~Saving(t) /\ pc'[t] = pc[t]
    BY <1>5 DEF SerialSaves, Save, Tick, CheckDirty, Snapshot, Open, Dump, Close, Replace,
                Acknowledge, ReplaceMissing, WriteFails, Cleanup, CleanupFails, Return, Go,
                SInv, TypeOK
  <2> QED
    BY <2>1 DEF Between, Saving
<1>6. CASE Open(s)
  <2>1. /\ pc[s] = "open" /\ pc'[s] = "dump" /\ pos'[s] = 0
        /\ store' = store /\ UNCHANGED <<live, view>>
    BY <1>6 DEF Open, Go, SInv, TypeOK, snaps
  <2>2. \A k \in Keys : ~(k <= 0)
    BY NumKeysAssumption DEF Keys
  <2>3. Between(s)'
    BY <1>1, <2>1, <2>2, SameFile DEF DiskFollows, Between
  <2> QED
    BY <1>3, <1>5, <2>1, <2>3 DEF Saving
<1>7. CASE Dump(s)
  <2> DEFINE k == pos[s] + 1
             block == [by |-> s, val |-> IF k \in live[s] THEN data[k] ELSE view[s][k]]
  <2>1. /\ pc[s] = "dump" /\ pc'[s] = "dump" /\ pos'[s] = k
        /\ k \in Keys /\ UNCHANGED <<live, view>>
    BY <1>7, NumKeysAssumption DEF Dump, Go, SInv, TypeOK, snaps, Keys
  <2>2. handle[s] = "tmp" /\ tmp \in Content
    BY <2>1 DEF SerialInv, Written
  <2>3. tmp' = [tmp EXCEPT ![k] = block] /\ store' = store
    BY <1>7, <2>2 DEF Dump
  <2>4. tmp'[k] = block /\ \A j \in Keys : j # k => tmp'[j] = tmp[j]
    BY <2>1, <2>2, <2>3 DEF Content
  <2>5. \A j \in Keys : j <= k /\ j # k => j <= pos[s]
    BY NumKeysAssumption DEF SInv, TypeOK, Keys
  <2>6. DiskValue[k] <= block.val /\ block.val <= data[k]
    <3>1. CASE k \in live[s]
      BY <1>2, <2>1, <3>1 DEF DiskFollows, Values
    <3>2. CASE k \notin live[s]
      BY <2>1, <3>2 DEF DiskFollows, Between
    <3> QED
      BY <3>1, <3>2
  <2>7. Between(s)'
    <3> HIDE DEF block
    <3>1. \A j \in Keys : j <= pos'[s] =>
              DiskValue[j] <= tmp'[j].val /\ tmp'[j].val <= data[j]
      BY <2>1, <2>4, <2>5, <2>6 DEF DiskFollows, Between
    <3> QED
      BY <1>1, <2>1, <2>3, <3>1, SameFile DEF DiskFollows, Between
  <2> QED
    BY <1>3, <1>5, <2>1, <2>3, <2>7 DEF Saving
<1>8. CASE WriteFails(s) \/ Cleanup(s) \/ CleanupFails(s)
  <2>1. /\ Saving(s) /\ pc'[s] \notin {"open", "dump", "replace"} /\ store' = store
    BY <1>8 DEF WriteFails, Cleanup, CleanupFails, Jammed, Return, RemoveTmp, Go, SInv, TypeOK,
                Saving, files
  <2>2. Between(s)'
    BY <2>1 DEF Between
  <2> QED
    BY <1>3, <1>5, <2>1, <2>2
<1>9. CASE Replace(s)
  <2>1. /\ pc[s] = "replace" /\ pc'[s] = "acknowledge" /\ store' = tmp
    BY <1>9 DEF Replace, Go, SInv, TypeOK
  <2>2. tmp \in Content /\ \A k \in Keys : tmp[k].by = s /\ k <= pos[s]
    BY <2>1 DEF SerialInv, Written, Keys
  <2>3. DiskValue' = [k \in Keys |-> tmp[k].val]
    BY <2>1, <2>2, NoFileAssumption DEF DiskValue, Whole
  <2>4. \A k \in Keys : /\ DiskValue'[k] \in Nat
                        /\ DiskValue[k] <= DiskValue'[k] /\ DiskValue'[k] <= data[k]
    BY <2>1, <2>2, <2>3 DEF DiskFollows, Between, Content, Block
  <2>5. Between(s)'
    BY <2>1 DEF Between
  <2>6. DiskFollows'
    BY <1>1, <1>5, <2>1, <2>4, <2>5 DEF DiskFollows, Saving
  <2>7. Durable!DFlush
    <3>1. DiskValue' \in [Keys -> Nat]
      BY <2>3, <2>4
    <3> QED
      BY <1>1, <2>4, <3>1 DEF Durable!DFlush, Durable!AtMost
  <2> QED
    BY <2>6, <2>7
<1> QED
  BY <1>4, <1>6, <1>7, <1>8, <1>9 DEF Save

LEMMA FollowsLifecycle ==
    ASSUME SInv, DiskFollows, ShutdownBegins \/ JoinDaemon \/ Restart \/ UNCHANGED vars
    PROVE  /\ DiskFollows'
           /\ Durable!DCrash \/ UNCHANGED <<data, DiskValue>>
<1>1. store' = store /\ DiskValue' = DiskValue
  BY SameFile DEF ShutdownBegins, JoinDaemon, Restart, vars, files
<1>2. CASE ShutdownBegins \/ JoinDaemon
  <2>1. /\ UNCHANGED <<memory, snaps, pos, files, clearing>>
        /\ pc'[Main] \notin {"open", "dump", "replace"}
        /\ \A s \in Savers : s # Main => pc'[s] = pc[s]
    BY <1>2, ConstantTypes DEF ShutdownBegins, JoinDaemon, Go, SInv, TypeOK
  <2>2. \A s \in Savers : Between(s)'
    BY <1>1, <2>1 DEF DiskFollows, Between, memory, snaps, files
  <2> QED
    BY <1>1, <2>1, <2>2 DEF DiskFollows, memory
<1>3. CASE Restart
  <2>1. /\ \A s \in Savers : pc'[s] = "idle"
        /\ clearing' = "idle" /\ data' = DiskValue /\ clock' = clock
    BY <1>3 DEF Restart
  <2>2. \A k \in Keys : /\ DiskValue[k] \in Nat /\ data[k] \in Nat /\ clock \in Nat
    BY DiskValueType DEF SInv, TypeOK, Values
  <2>3. \A k \in Keys : DiskValue[k] <= DiskValue[k] /\ DiskValue[k] <= clock
    BY <2>2 DEF DiskFollows
  <2> QED
    BY <1>1, <2>1, <2>3 DEF DiskFollows, Between, Durable!DCrash
<1>4. CASE UNCHANGED vars
  <2>1. \A s \in Savers : Between(s)'
    BY <1>1, <1>4 DEF DiskFollows, Between, vars, memory, snaps, files
  <2> QED
    BY <1>1, <1>4, <2>1 DEF DiskFollows, vars, memory
<1> QED
  BY <1>2, <1>3, <1>4

\* nosql.py:209-228: saves that do not overlap implement the abstract store. The
\* file follows memory key by key, and only forward; a crash loses what was written
\* since, and nothing else.
THEOREM SerialImplementsDurableStore ==
    Spec /\ []SerialSaves /\ [](clears = 0) => ImplementsDurableStore
<1>1. Init => Durable!DInit /\ DiskFollows
  BY DEF Init, Durable!DInit, DiskFollows, Between, DiskValue, Default
<1>2. SInv /\ SerialInv /\ SerialSaves /\ DiskFollows /\ (clears = 0)' /\ [Next]_vars
      => DiskFollows' /\ [Durable!DNext]_<<data, DiskValue>>
  <2> SUFFICES ASSUME SInv, SerialInv, SerialSaves, DiskFollows, clears' = 0, [Next]_vars
               PROVE  DiskFollows' /\ [Durable!DNext]_<<data, DiskValue>>
    OBVIOUS
  <2>1. ~ClearAll
    BY DEF ClearAll, ClearGoesOn, ClearMemory, ClearRemoveStore, ClearRemoveTmp, ClearKeepsStore,
           ClearKeepsTmp, DiskFollows, SInv, TypeOK
  <2> QED
    BY <2>1, FollowsWrite, FollowsSave, FollowsLifecycle DEF Next, Durable!DNext
<1>3. Init => clearing = "idle"
  BY DEF Init
<1>4. SInv /\ clearing = "idle" /\ (clears = 0)' /\ [Next]_vars => (clearing = "idle")'
  <2> SUFFICES ASSUME SInv, clearing = "idle", clears' = 0, [Next]_vars
               PROVE  clearing' = "idle"
    OBVIOUS
  <2>1. CASE Write \/ ShutdownBegins \/ JoinDaemon \/ Restart \/ UNCHANGED vars
    BY <2>1 DEF Write, Mutate, Rebind, Stamp, ShutdownBegins, JoinDaemon, Restart, vars
  <2>2. CASE ClearAll
    BY <2>2 DEF ClearAll, ClearGoesOn, ClearMemory, ClearRemoveStore, ClearKeepsStore,
                ClearRemoveTmp, ClearKeepsTmp, SInv, TypeOK
  <2>3. ASSUME NEW s \in Savers, Save(s) PROVE clearing' = clearing
    BY <2>3 DEF Save, Tick, CheckDirty, Snapshot, Open, Dump, Close, Replace, Acknowledge,
                ReplaceMissing, WriteFails, Cleanup, CleanupFails
  <2> QED
    BY <2>1, <2>2, <2>3 DEF Next
<1>5. clearing = "idle" => [~ClearKeepsStore]_vars
  BY DEF ClearKeepsStore
<1> QED
  BY <1>1, <1>2, <1>3, <1>4, <1>5, SInvHolds, SerialInvHolds, PTL
  DEF Spec, ClearsRemove, ImplementsDurableStore, Durable!DSpec
=============================================================================
