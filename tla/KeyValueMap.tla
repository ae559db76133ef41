----------------------------- MODULE KeyValueMap -----------------------------
(***************************************************************************)
(* What every key-value store of the repository promises: one map from     *)
(* keys to values that changes only when a client stores or removes one    *)
(* key, and then at that key only.  Restarts, crashes and recoveries are   *)
(* invisible: they are stuttering steps.                                   *)
(***************************************************************************)
CONSTANTS Keys, Values,
          Absent          (* "the key is not in the map"                   *)

VARIABLE map

TypeOK == map \in [Keys -> Values \cup {Absent}]

Init == map = [k \in Keys |-> Absent]

\* Stores v under k, whether or not k is already there.
Put(k, v) == map' = [map EXCEPT ![k] = v]

\* Removes k.
Remove(k) == map' = [map EXCEPT ![k] = Absent]

Next == \E k \in Keys : Remove(k) \/ \E v \in Values : Put(k, v)

Spec == Init /\ [][Next]_map
=============================================================================
