----------------------------- MODULE MCLogFormat -----------------------------
(***************************************************************************)
(* Instances of LogFormat for TLC.                                         *)
(***************************************************************************)
EXTENDS LogFormat, TLC

\* Where reading may start: also at the last byte before a trailer of six bytes, in it,
\* and at the next block, if blocks have 18 bytes.
SomeOffsets == {0, 1, 12, 13, 17, 18, 30}
=============================================================================
