------------------------------ MODULE MCChatRoom ------------------------------
(***************************************************************************)
(* Instances of ChatRoom for TLC.                                          *)
(***************************************************************************)
EXTENDS ChatRoom, TLC

CONSTANTS c1, c2, c3

\* The first line of a client is longer than a Message, the second is not.
LongThenShort == <<{3}, {2}>>
=============================================================================
