----------------------------- MODULE MCChatServer -----------------------------
(***************************************************************************)
(* Instances of ChatServer for TLC.                                        *)
(***************************************************************************)
EXTENDS ChatServer, TLC

CONSTANTS c1, c2, c3

\* Connections are interchangeable (used where no liveness is checked).
ConnSymmetry == Permutations(Conns)
=============================================================================
