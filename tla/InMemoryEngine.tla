---------------------------- MODULE InMemoryEngine ----------------------------
(***************************************************************************)
(* InMemoryStorageEngine of simple-kv-cpp: IStorageEngine over a           *)
(* std::unordered_map that lives as long as the process.  A client sees    *)
(* the answers of its calls and nothing else.                              *)
(***************************************************************************)
CONSTANTS Keys, Values,
          EmptyKey,        (* the empty string: no operation accepts it    *)
          Absent           (* std::nullopt: the key is not in the map      *)

VARIABLES store,           (* store_                                       *)
          answer           (* what the last call returned                  *)

write(k, v) ==
  /\ store' = IF k = EmptyKey THEN store ELSE [store EXCEPT ![k] = v]
  /\ answer' = (k # EmptyKey)

read(k) ==
  /\ answer' = IF k = EmptyKey THEN Absent ELSE store[k]
  /\ UNCHANGED store

erase(k) ==
  /\ store' = IF k = EmptyKey THEN store ELSE [store EXCEPT ![k] = Absent]
  /\ answer' = (k # EmptyKey /\ store[k] # Absent)

Init == store = [k \in Keys |-> Absent] /\ answer = Absent

Next == \E k \in Keys : \/ read(k) \/ erase(k)
                        \/ \E v \in Values : write(k, v)

Spec == Init /\ [][Next]_<<store, answer>>
=============================================================================
