----------------------------- MODULE FileKVStore -----------------------------
(***************************************************************************)
(* simple-kv-cpp with its file engine: KeyValueStore over                  *)
(* FileBasedStorageEngine.  Every call that changes the map rewrites the   *)
(* whole file: it is truncated, then written pair by pair in the order of  *)
(* a hash map, and nothing checks that the writes succeed.                 *)
(*                                                                         *)
(* Data.  The file is only ever loaded whole and only ever truncated or    *)
(* appended to, so `file' is the map that loading it now would give.  What *)
(* one written line, or the part of it before a cut, does to that map is   *)
(* given by the constants Line and CutLines (MCFileKVStore computes them   *)
(* from the text format, KVLines).                                         *)
(***************************************************************************)
EXTENDS Naturals

CONSTANTS
  Keys, Values,         \* every string that can be a key, a value of the map
  ArgKeys, ArgValues,   \* those that callers pass
  EmptyKey,             \* the empty string
  Absent,               \* std::nullopt
  Untouched,            \* a line does nothing to a key
  Line,                 \* Line[k][v][j]: what loading the line of k and v does to j
  CutLines,             \* CutLines[k][v]: the same, for the line's proper prefixes
  MaxFaults             \* bound: crashes inside a call and I/O errors

Stored == Values \cup {Absent}
Effect == [Keys -> Values \cup {Untouched}]

ASSUME FileAssumption ==
  /\ EmptyKey \in Keys /\ ArgKeys \subseteq Keys /\ ArgValues \subseteq Values
  /\ Absent \notin Values /\ Untouched \notin Stored
  /\ MaxFaults \in Nat

\* A part of a line assigns to no key that the line does not assign to.
ASSUME LineAssumption ==
  /\ Line \in [Keys -> [Values -> Effect]]
  /\ CutLines \in [Keys -> [Values -> SUBSET Effect]]
  /\ \A k, j \in Keys : \A v \in Values : \A cut \in CutLines[k][v] :
       Line[k][v][j] = Untouched => cut[j] = Untouched

VARIABLES
  store,     \* store_ of the engine
  answer,    \* what the last call returned, or the call under way will
  phase,     \* "down", "idle", or inside saveToFile: "opening", "saving"
  unsaved,   \* the keys saveToFile's loop has still to write
  file,      \* the map loadFromFile would make of the file
  saved,     \* history: the map whose save last truncated the file
  synced,    \* history: the last save or load of the file ran to its end
  faults     \* crashes and I/O errors so far

vars == <<store, answer, phase, unsaved, file, saved, synced, faults>>

Empty == [k \in Keys |-> Absent]

AfterUnchecked(m, effect) == effect   \* mutant: pos != npos is not tested

\* The map m after one more line, or part of one, was read into it.
After(m, effect) ==
  [k \in Keys |-> IF effect[k] = Untouched THEN m[k] ELSE effect[k]]

Present(m) == {k \in Keys : m[k] # Absent}

Fault == faults < MaxFaults /\ faults' = faults + 1

-----------------------------------------------------------------------------
(* KeyValueStore::put, get and remove, each a call of the engine           *)

\* write() up to the call of saveToFile.
write(k, v) ==
  /\ phase = "idle"
  /\ answer' = (k # EmptyKey)
  /\ IF k = EmptyKey THEN UNCHANGED <<store, phase, synced>>
     ELSE /\ store' = [store EXCEPT ![k] = v]
          /\ phase' = "opening"
          /\ synced' = FALSE
  /\ UNCHANGED <<unsaved, file, saved, faults>>

eraseUnsaved(k) ==   \* mutant: erase() does not call saveToFile
  /\ phase = "idle"
  /\ answer' = (k # EmptyKey /\ store[k] # Absent)
  /\ store' = IF k = EmptyKey THEN store ELSE [store EXCEPT ![k] = Absent]
  /\ UNCHANGED <<phase, synced, unsaved, file, saved, faults>>

\* erase() up to the call of saveToFile, which is made if there was an entry.
erase(k) ==
  /\ phase = "idle"
  /\ answer' = (k # EmptyKey /\ store[k] # Absent)
  /\ IF k = EmptyKey \/ store[k] = Absent
     THEN UNCHANGED <<store, phase, synced>>
     ELSE /\ store' = [store EXCEPT ![k] = Absent]
          /\ phase' = "opening"
          /\ synced' = FALSE
  /\ UNCHANGED <<unsaved, file, saved, faults>>

read(k) ==
  /\ phase = "idle"
  /\ answer' = IF k = EmptyKey THEN Absent ELSE store[k]
  /\ UNCHANGED <<store, phase, unsaved, file, saved, synced, faults>>

-----------------------------------------------------------------------------
(* saveToFile                                                              *)

openAppending ==   \* mutant: std::ios::app
  /\ phase = "opening"
  /\ phase' = "saving"
  /\ saved' = store
  /\ unsaved' = Present(store)
  /\ UNCHANGED <<store, answer, file, synced, faults>>

\* std::ofstream's constructor truncates the file.
open ==
  /\ phase = "opening"
  /\ phase' = "saving"
  /\ file' = Empty
  /\ saved' = store
  /\ unsaved' = Present(store)
  /\ UNCHANGED <<store, answer, synced, faults>>

\* The file cannot be opened: a message, and the caller returns as if it had.
openFails ==
  /\ phase = "opening"
  /\ Fault
  /\ phase' = "idle"
  /\ UNCHANGED <<store, answer, unsaved, file, saved, synced>>

\* One turn of the loop; the hash map hands out its keys in any order.
saveLine(k) ==
  /\ phase = "saving" /\ k \in unsaved
  /\ file' = After(file, Line[k][store[k]])
  /\ unsaved' = unsaved \ {k}
  /\ UNCHANGED <<store, answer, phase, saved, synced, faults>>

closeEarly ==   \* mutant: the loop stops before its last pair
  /\ phase = "saving" /\ \A j, k \in unsaved : j = k
  /\ phase' = "idle"
  /\ unsaved' = {}
  /\ synced' = TRUE
  /\ UNCHANGED <<store, answer, file, saved, faults>>

\* The stream is flushed and closed as it goes out of scope.
close ==
  /\ phase = "saving" /\ unsaved = {}
  /\ phase' = "idle"
  /\ synced' = TRUE
  /\ UNCHANGED <<store, answer, unsaved, file, saved, faults>>

\* What the file may hold after writing stopped in the middle of the save.
CutShort == \E k \in unsaved : \E cut \in CutLines[k][store[k]] :
               file' = After(file, cut)

\* A write error: the stream takes no more characters and nobody looks.
writeFails ==
  /\ phase = "saving"
  /\ Fault
  /\ CutShort
  /\ phase' = "idle"
  /\ unsaved' = {}
  /\ UNCHANGED <<store, answer, saved, synced>>

-----------------------------------------------------------------------------
(* Start and end of the process                                            *)

\* FileBasedStorageEngine's constructor: loadFromFile.
loadFromFile ==
  /\ phase = "down"
  /\ phase' = "idle"
  /\ store' = file
  /\ synced' = TRUE
  /\ UNCHANGED <<answer, unsaved, file, saved, faults>>

\* A file that exists and cannot be opened is taken for one that does not, and
\* one that cannot be read to its end for one that ends there.
loadFails ==
  /\ phase = "down"
  /\ Fault
  /\ phase' = "idle"
  /\ \E seen \in SUBSET Keys :
       store' = [k \in Keys |-> IF k \in seen THEN file[k] ELSE Absent]
  /\ synced' = FALSE
  /\ UNCHANGED <<answer, unsaved, file, saved>>

stop ==
  /\ phase = "idle"
  /\ phase' = "down"
  /\ store' = Empty
  /\ UNCHANGED <<answer, unsaved, file, saved, synced, faults>>

\* The process dies inside a call.
crash ==
  /\ phase \in {"opening", "saving"}
  /\ Fault
  /\ phase' = "down"
  /\ store' = Empty
  /\ unsaved' = {}
  /\ UNCHANGED file \/ CutShort
  /\ UNCHANGED <<answer, saved, synced>>

-----------------------------------------------------------------------------
Init ==
  /\ store = Empty /\ answer = Absent
  /\ phase = "down" /\ unsaved = {}
  /\ file = Empty /\ saved = Empty
  /\ synced = TRUE /\ faults = 0

Call == \E k \in ArgKeys : \/ read(k) \/ erase(k)
                           \/ \E v \in ArgValues : write(k, v)

saveToFile == \/ open \/ openFails \/ close \/ writeFails
              \/ \E k \in Keys : saveLine(k)

Next == Call \/ saveToFile \/ loadFromFile \/ loadFails \/ stop \/ crash

Spec == Init /\ [][Next]_vars

-----------------------------------------------------------------------------
(* Properties                                                              *)

TypeOK ==
  /\ store \in [Keys -> Stored]
  /\ answer \in Stored \cup BOOLEAN
  /\ phase \in {"down", "idle", "opening", "saving"}
  /\ unsaved \subseteq IF phase = "saving" THEN Present(store) ELSE {}
  /\ file \in [Keys -> Stored] /\ saved \in [Keys -> Stored]
  /\ synced \in BOOLEAN
  /\ faults \in 0 .. MaxFaults

\* Of the lines saved for m, the one of k, if any, gives back its value and no
\* other does anything to k.
Owned(m, k) ==
  \A j \in Present(m) :
    Line[j][m[j]][k] = IF j = k THEN m[k] ELSE Untouched

\* Lines 15-67 and 93-106: whenever no call is under way, restarting would give
\* back the value of every key whose text no other pair's text can be taken
\* for, unless the last save failed or the last load did; one complete save
\* repairs all that went wrong before it.
MemoryMatchesFile ==
  phase = "idle" /\ synced =>
    \A k \in Keys : Owned(store, k) => file[k] = store[k]

\* However a save ends (a crash, a full disk), what the file says of a key is
\* its value at that save, the start of it that was written, or nothing: never
\* an older value, never an erased key (line 95 truncates before line 102
\* writes).
NothingOlder ==
  \A k \in Keys :
    Owned(saved, k) /\ file[k] \notin {Absent, saved[k]} =>
      saved[k] # Absent /\ \E cut \in CutLines[k][saved[k]] : cut[k] = file[k]

\* For its caller the engine is the in-memory one ("Easy to swap storage
\* engines without changing client code", README.md:143): the same answers,
\* restarts included, while nothing fails and every pair's text is its own.
Memory == INSTANCE InMemoryEngine
            WITH Keys <- ArgKeys, Values <- ArgValues,
                 store <- [k \in ArgKeys |-> IF phase = "down" THEN file[k]
                                             ELSE store[k]]
BehavesAsInMemory == Memory!Spec

-----------------------------------------------------------------------------
(* The inductive invariant of which the invariants above are parts         *)

\* In the loop, the file holds the lines written and nothing of those to come.
HalfSaved ==
  phase = "saving" =>
    /\ saved = store
    /\ \A k \in Keys : Owned(store, k) =>
         file[k] = IF k \in unsaved THEN Absent ELSE store[k]

\* A call that has to save is not synced before its save has ended.
NotYetSynced == phase \in {"opening", "saving"} => ~ synced

IInv == TypeOK /\ MemoryMatchesFile /\ NothingOlder /\ HalfSaved /\ NotYetSynced
=============================================================================
