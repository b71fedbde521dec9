---------------------------- MODULE MCAnalytics ----------------------------
(* Small instances of Analytics. *)
EXTENDS Analytics
=============================================================================
