------------------------------- MODULE KVStore -------------------------------
(***************************************************************************)
(* What include/leveldb/db.h promises of Put, Delete, Get, GetSnapshot and *)
(* ReleaseSnapshot: a map from keys to values, and copies of it as it was  *)
(* when they were taken.  Nothing is said of files, levels or compactions. *)
(*                                                                         *)
(* A value is the number of the write that wrote it; 0 means no value.     *)
(***************************************************************************)
EXTENDS Naturals

CONSTANTS Keys, Snapshots, None

VARIABLES
    store,      \* the value of each key
    writes,     \* the number of writes so far
    copies      \* what each snapshot shows, or None

vars == <<store, writes, copies>>

Init ==
    /\ store = [k \in Keys |-> 0]
    /\ writes = 0
    /\ copies = [s \in Snapshots |-> None]

Put(k) ==
    /\ writes' = writes + 1
    /\ store' = [store EXCEPT ![k] = writes + 1]
    /\ UNCHANGED copies

Delete(k) ==
    /\ writes' = writes + 1
    /\ store' = [store EXCEPT ![k] = 0]
    /\ UNCHANGED copies

GetSnapshot(s) ==
    /\ copies[s] = None
    /\ copies' = [copies EXCEPT ![s] = store]
    /\ UNCHANGED <<store, writes>>

ReleaseSnapshot(s) ==
    /\ copies[s] # None
    /\ copies' = [copies EXCEPT ![s] = None]
    /\ UNCHANGED <<store, writes>>

Next ==
    \/ \E k \in Keys : Put(k) \/ Delete(k)
    \/ \E s \in Snapshots : GetSnapshot(s) \/ ReleaseSnapshot(s)

Spec == Init /\ [][Next]_vars
=============================================================================
