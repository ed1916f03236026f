------------------------------- MODULE MCDBIter -------------------------------
(***************************************************************************)
(* Instances of DBIter for TLC.                                            *)
(***************************************************************************)
EXTENDS DBIter, TLC

InternalKeys == {InternalKey(u, s) : u \in UserKeys, s \in 1..MaxWrites}
=============================================================================
