------------------------------- MODULE MCServers -------------------------------
(***************************************************************************)
(* Instances of Servers for TLC: the home page and a file, whose path      *)
(* begins with that of the home page and may be cut to one without a file. *)
(***************************************************************************)
EXTENDS Servers, TLC

CONSTANTS c1, c2

Style == <<"/", "style", "css">>
HomeAndStyle == {Root, Style}
TwoFiles == (Index :> 1) @@ (Style :> 1)
=============================================================================
