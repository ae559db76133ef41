---------------------------- MODULE Subsequences ----------------------------
(***************************************************************************)
(* The elements of a sequence that are in a set, in their order: what the  *)
(* programs do with std::remove, or with a loop that skips elements.  The  *)
(* set takes the place of SelectSeq's test, and a recursive function that  *)
(* of its recursion, so that the proofs can reason about it.               *)
(***************************************************************************)
EXTENDS Naturals, Sequences

\* Per length of a prefix of s, what is kept of that prefix.
Kept(s, S) ==
  LET kept[i \in 0 .. Len(s)] ==
        IF i = 0 THEN <<>>
        ELSE IF s[i] \in S THEN Append(kept[i - 1], s[i]) ELSE kept[i - 1]
  IN  kept

Keep(s, S) == Kept(s, S)[Len(s)]
=============================================================================
