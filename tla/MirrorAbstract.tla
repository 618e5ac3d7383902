--------------------------- MODULE MirrorAbstract ---------------------------
(***************************************************************************)
(* What mirroring promises of the two pseudo-filesystems, whatever the     *)
(* processes, the pipe and the restarts between them do.  The master       *)
(* flushes transactions; records of the master arrive on the slave, in any *)
(* order and any number of times; the slave's sync_end_tid, the snapshot   *)
(* its readers see, moves forward only, and only to a transaction of the   *)
(* master all of whose records, and all earlier ones, have arrived.        *)
(***************************************************************************)
EXTENDS Naturals

CONSTANTS
    Keys,           \* the key space
    MaxTid          \* bound: transactions the master flushes

VARIABLES
    master,         \* the records of the master
    master_tid,     \* its last flushed transaction
    slave,          \* the records of the slave
    slave_tid       \* the snapshot of the slave

absvars == <<master, master_tid, slave, slave_tid>>

Records == [key : Keys, tid : 1..MaxTid]

\* Everything the master holds up to the transaction is on the slave.
Arrived(tid) == \A r \in master : r.tid <= tid => r \in slave

Init ==
    /\ master = {} /\ master_tid = 0
    /\ slave = {} /\ slave_tid = 0

\* The master flushes its next transaction.
Flush ==
    /\ master_tid < MaxTid
    /\ \E recs \in SUBSET {r \in Records : r.tid = master_tid + 1} \ {{}} :
         master' = master \cup recs
    /\ master_tid' = master_tid + 1
    /\ UNCHANGED <<slave, slave_tid>>

\* Records of the master arrive on the slave.
Transfer ==
    /\ \E recs \in SUBSET (master \ slave) \ {{}} : slave' = slave \cup recs
    /\ UNCHANGED <<master, master_tid, slave_tid>>

\* The snapshot moves forward to a transaction that has arrived.
Sync ==
    /\ \E tid \in (slave_tid + 1)..master_tid :
         /\ Arrived(tid)
         /\ slave_tid' = tid
    /\ UNCHANGED <<master, master_tid, slave>>

Next == Flush \/ Transfer \/ Sync

Spec == Init /\ [][Next]_absvars

-----------------------------------------------------------------------------
TypeOK ==
    /\ master \subseteq Records /\ slave \subseteq Records
    /\ master_tid \in 0..MaxTid /\ slave_tid \in 0..MaxTid

\* A reader of the slave at its snapshot sees what a reader of the master
\* saw at that transaction.
SnapshotIsOfTheMaster ==
    /\ slave \subseteq master
    /\ slave_tid <= master_tid
    /\ Arrived(slave_tid)
=============================================================================
