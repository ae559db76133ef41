----------------------------- MODULE MCThreadDemos -----------------------------
(***************************************************************************)
(* Instances of ThreadDemos for TLC.                                       *)
(***************************************************************************)
EXTENDS ThreadDemos, TLC
=============================================================================
