----------------------------- MODULE MCPageStore -----------------------------
(***************************************************************************)
(* Instances of PageStore for TLC: a page of a few words.                  *)
(***************************************************************************)
EXTENDS PageStore, TLC

CONSTANTS h1, h2

\* A tuple as large as the page: its words take the place of the header.
Full == [i \in 1 .. PageWords |-> IF i = 1 THEN 1 ELSE 0]

FewTuples == {<<>>, <<7, 8>>, Full}
=============================================================================
