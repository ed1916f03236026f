----------------------------- MODULE MCRecovery -----------------------------
(***************************************************************************)
(* Instances of Recovery for TLC.                                          *)
(***************************************************************************)
EXTENDS Recovery, TLC

\* Only behaviours whose first fault is a background error, without readers.
AfterABackgroundError == pinned = {} /\ (faults = 1 /\ phase = "up" => bg_error_)
=============================================================================
