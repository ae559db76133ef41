----------------------------- MODULE MCAlgorithms -----------------------------
(***************************************************************************)
(* Instances of Algorithms for TLC.                                        *)
(***************************************************************************)
EXTENDS Algorithms

\* One character of each kind that scanToken tells apart, and the keyword "or".
SomeChars == {"(", "=", "!", "/", " ", Newline, Quote, "1", ".", "o", "r", "@"}
=============================================================================
