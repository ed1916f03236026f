------------------------------- MODULE MCLSM -------------------------------
(***************************************************************************)
(* Instances of LSM for TLC.                                               *)
(***************************************************************************)
EXTENDS LSM, TLC

\* TEST_CompactRange may be called for every level that has one below it.
EveryLevel == 0..NumLevels - 2

\* Entries are Puts and Deletes, or Puts only.
PutsAndDeletes == {TRUE, FALSE}
PutsOnly       == {FALSE}
=============================================================================
