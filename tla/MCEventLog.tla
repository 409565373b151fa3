----------------------------- MODULE MCEventLog -----------------------------
(***************************************************************************)
(* Small instance of EventLog for TLC; liveness is checked, so without     *)
(* symmetry.                                                               *)
(***************************************************************************)
EXTENDS EventLog
=============================================================================
