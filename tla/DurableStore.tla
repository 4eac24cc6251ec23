---------------------------- MODULE DurableStore ----------------------------
(***************************************************************************)
(* What the persistent store promises, without threads, files or flags: a  *)
(* memory whose stamps only grow, and a disk that follows it key by key.   *)
(* NoSQLStore implements it as long as one save runs at a time.            *)
(***************************************************************************)
EXTENDS Integers

CONSTANT Keys

VARIABLES mem, disk

DTypeOK == mem \in [Keys -> Nat] /\ disk \in [Keys -> Nat]

AtMost(f, g) == \A k \in Keys : f[k] <= g[k]

DInit ==
    /\ mem = [k \in Keys |-> 0]
    /\ disk = mem

\* Memory moves on; nothing it holds goes back to an older stamp.
DWrite ==
    /\ mem' \in [Keys -> Nat]
    /\ AtMost(mem, mem')
    /\ UNCHANGED disk

\* The disk catches up, each key with some stamp between its own and memory's.
DFlush ==
    /\ disk' \in [Keys -> Nat]
    /\ AtMost(disk, disk') /\ AtMost(disk', mem)
    /\ UNCHANGED mem

\* The process dies and comes back with what the disk holds.
DCrash == mem' = disk /\ UNCHANGED disk

DNext == DWrite \/ DFlush \/ DCrash

DSpec == DInit /\ [][DNext]_<<mem, disk>>
=============================================================================
