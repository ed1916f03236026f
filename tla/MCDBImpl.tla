------------------------------ MODULE MCDBImpl ------------------------------
(***************************************************************************)
(* Instances of DBImpl for TLC.                                            *)
(***************************************************************************)
EXTENDS DBImpl, TLC

Put(sync, count) == [kind |-> "put", sync |-> sync, count |-> count]
Flush  == [kind |-> "flush", sync |-> FALSE, count |-> 0]
Manual == [kind |-> "manual", sync |-> FALSE, count |-> 0]

SyncAndPlainPuts == {Put(TRUE, 1), Put(FALSE, 2)}
PutsAndFlush     == {Put(TRUE, 1), Flush}
PutsAndManual    == {Put(FALSE, 1), Manual}
AllCalls         == {Put(TRUE, 1), Put(FALSE, 1), Flush, Manual}

\* Threads are interchangeable; used in runs without liveness.
ThreadSymmetry == Permutations(Threads)
=============================================================================
