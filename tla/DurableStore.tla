---------------------------- MODULE DurableStore ----------------------------
(***************************************************************************)
(* What leveldb promises about crashes (include/leveldb/options.h, on      *)
(* WriteOptions::sync): a crash of the process loses no write; a crash of  *)
(* the machine loses writes at most that were not synced; opening the      *)
(* database loses and invents nothing, however often it is interrupted.    *)
(***************************************************************************)
CONSTANT Writes

VARIABLES
    up,         \* the database is open
    store,      \* the writes it holds
    hard        \* the synced ones

Init == up = FALSE /\ store = {} /\ hard = {}

Write(e, sync) ==
    /\ up
    /\ store' = store \cup {e}
    /\ hard' = IF sync THEN hard \cup {e} ELSE hard
    /\ UNCHANGED up

ProcessCrash == up' = FALSE /\ UNCHANGED <<store, hard>>

MachineCrash ==
    /\ up' = FALSE
    /\ store' \in SUBSET store /\ hard \subseteq store'
    /\ UNCHANGED hard

Open == ~up /\ up' = TRUE /\ UNCHANGED <<store, hard>>

Next ==
    \/ \E e \in Writes, sync \in BOOLEAN : Write(e, sync)
    \/ ProcessCrash \/ MachineCrash \/ Open

Spec == Init /\ [][Next]_<<up, store, hard>>
=============================================================================
