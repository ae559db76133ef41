-------------------------- MODULE FileKVStoreProofs --------------------------
(***************************************************************************)
(* Proofs about FileKVStore, for every set of strings, any text format     *)
(* that satisfies LineAssumption, and any number of crashes and errors.    *)
(***************************************************************************)
EXTENDS FileKVStore, TLAPS

\* What one line, or a part of it, leaves in a map is again a map.
LEMMA AfterType ==
  ASSUME NEW m \in [Keys -> Stored], NEW effect \in Effect
  PROVE  After(m, effect) \in [Keys -> Stored]
BY DEF After, Effect, Stored

\* The lines of a pair, whole or cut, are effects.
LEMMA LineTypes ==
  ASSUME NEW m \in [Keys -> Stored], NEW j \in Present(m)
  PROVE  /\ j \in Keys /\ m[j] \in Values
         /\ Line[j][m[j]] \in Effect
         /\ \A cut \in CutLines[j][m[j]] : cut \in Effect
<1>1. j \in Keys /\ m[j] \in Values
  BY DEF Present, Stored
<1>2. /\ Line[j] \in [Values -> Effect]
      /\ CutLines[j] \in [Values -> SUBSET Effect]
  BY <1>1, LineAssumption
<1>3. CutLines[j][m[j]] \in SUBSET Effect /\ Line[j][m[j]] \in Effect
  BY <1>1, <1>2
<1> QED
  BY <1>1, <1>3

-----------------------------------------------------------------------------
(* Type correctness                                                        *)

LEMMA CutShortType ==
  ASSUME TypeOK, CutShort
  PROVE  file' \in [Keys -> Stored]
<1>1. PICK k \in unsaved : \E cut \in CutLines[k][store[k]] : file' = After(file, cut)
  BY DEF CutShort
<1>2. k \in Present(store)
  BY <1>1 DEF TypeOK
<1> QED
  BY <1>1, <1>2, LineTypes, AfterType DEF TypeOK

LEMMA TypeStep ==
  ASSUME TypeOK, [Next]_vars
  PROVE  TypeOK'
<1> USE FileAssumption
<1>0. Empty \in [Keys -> Stored] /\ Absent \in Stored
  BY DEF Empty, Stored
<1>1. ASSUME NEW k \in ArgKeys, NEW v \in ArgValues, write(k, v)
      PROVE  TypeOK'
  BY <1>1 DEF write, TypeOK, Stored, Present
<1>2. ASSUME NEW k \in ArgKeys, erase(k)
      PROVE  TypeOK'
  BY <1>0, <1>2 DEF erase, TypeOK, Present
<1>3. ASSUME NEW k \in ArgKeys, read(k)
      PROVE  TypeOK'
  BY <1>3 DEF read, TypeOK, Stored, Present
<1>4. ASSUME open
      PROVE  TypeOK'
  BY <1>0, <1>4 DEF open, TypeOK, Present
<1>5. ASSUME openFails
      PROVE  TypeOK'
  BY <1>5 DEF openFails, Fault, TypeOK, Present
<1>6. ASSUME NEW k \in Keys, saveLine(k)
      PROVE  TypeOK'
  <2>1. k \in Present(store)
    BY <1>6 DEF saveLine, TypeOK
  <2>2. file' \in [Keys -> Stored]
    BY <2>1, <1>6, LineTypes, AfterType DEF saveLine, TypeOK
  <2> QED
    BY <2>2, <1>6 DEF saveLine, TypeOK, Present
<1>7. ASSUME close
      PROVE  TypeOK'
  BY <1>7 DEF close, TypeOK, Present
<1>8. ASSUME writeFails
      PROVE  TypeOK'
  BY <1>8, CutShortType DEF writeFails, Fault, TypeOK, Present
<1>9. ASSUME loadFromFile
      PROVE  TypeOK'
  BY <1>9 DEF loadFromFile, TypeOK, Present
<1>10. ASSUME loadFails
       PROVE  TypeOK'
  <2>1. faults' \in 0 .. MaxFaults
    BY <1>10 DEF loadFails, Fault, TypeOK
  <2> QED
    BY <2>1, <1>0, <1>10 DEF loadFails, TypeOK
<1>11. ASSUME stop
       PROVE  TypeOK'
  BY <1>0, <1>11 DEF stop, TypeOK, Present
<1>12. ASSUME crash
       PROVE  TypeOK'
  BY <1>0, <1>12, CutShortType DEF crash, Fault, TypeOK, Present
<1> QED
  <2>1. ASSUME UNCHANGED vars
        PROVE  TypeOK'
    BY <2>1 DEF vars, TypeOK, Present
  <2> QED
    BY <2>1, <1>1, <1>2, <1>3, <1>4, <1>5, <1>6, <1>7, <1>8, <1>9, <1>10, <1>11, <1>12
    DEF Next, Call, saveToFile

\* The variables keep their types whatever is called, fails or crashes.
THEOREM TypeCorrect == Spec => []TypeOK
<1>1. Init => TypeOK
  BY FileAssumption DEF Init, TypeOK, Empty, Stored
<1>2. TypeOK /\ [Next]_vars => TypeOK'
  BY TypeStep
<1> QED
  BY <1>1, <1>2, PTL DEF Spec

-----------------------------------------------------------------------------
(* The inductive invariant                                                 *)

\* What a cut line does to a key that no other pair's text is about.
LEMMA CutShortOwned ==
  ASSUME TypeOK, HalfSaved, phase = "saving", CutShort,
         NEW k \in Keys, Owned(store, k)
  PROVE  file'[k] \notin {Absent, store[k]} =>
           store[k] # Absent /\ \E cut \in CutLines[k][store[k]] : cut[k] = file'[k]
<1>0. PICK j \in unsaved : \E cut \in CutLines[j][store[j]] : file' = After(file, cut)
  BY DEF CutShort
<1>1. PICK cut \in CutLines[j][store[j]] : file' = After(file, cut)
  BY <1>0
<1>2. j \in Present(store) /\ j \in Keys /\ store[j] \in Values /\ store[j] # Absent
  BY <1>1, LineTypes DEF TypeOK, Present
<1>3. file[k] \in {Absent, store[k]}
  BY DEF HalfSaved
<1>4. CASE j = k
  BY <1>1, <1>2, <1>3, <1>4 DEF After
<1>5. CASE j # k
  <2>1. Line[j][store[j]][k] = Untouched
    BY <1>2, <1>5 DEF Owned
  <2>2. cut[k] = Untouched
    BY <2>1, <1>1, <1>2, LineAssumption
  <2> QED
    BY <2>2, <1>1, <1>3 DEF After
<1> QED
  BY <1>4, <1>5

\* A turn of the loop (line 104) adds the pair it writes and nothing else that
\* an owned key could notice.
LEMMA SaveLineStep ==
  ASSUME TypeOK, HalfSaved, NEW j \in Keys, saveLine(j)
  PROVE  HalfSaved'
<1>1. /\ j \in unsaved /\ j \in Present(store) /\ phase = "saving"
      /\ file' = After(file, Line[j][store[j]])
      /\ store' = store /\ saved' = saved /\ unsaved' = unsaved \ {j}
  BY DEF saveLine, TypeOK
<1>2. ASSUME NEW k \in Keys, Owned(store, k)
      PROVE  file'[k] = IF k \in unsaved' THEN Absent ELSE store[k]
  <2>1. Line[j][store[j]][k] = IF j = k THEN store[k] ELSE Untouched
    BY <1>1, <1>2 DEF Owned
  <2>2. file[k] = IF k \in unsaved THEN Absent ELSE store[k]
    BY <1>1, <1>2 DEF HalfSaved
  <2>3. j = k => store[k] # Untouched
    BY FileAssumption DEF TypeOK
  <2> QED
    BY <2>1, <2>2, <2>3, <1>1 DEF After
<1> QED
  BY <1>1, <1>2 DEF HalfSaved, Owned, saveLine

LEMMA IInvStep ==
  ASSUME IInv, [Next]_vars
  PROVE  IInv'
<1>1. TypeOK /\ TypeOK'
  BY TypeStep DEF IInv
\* Steps outside the loop change no file that they do not truncate.
<1>2. ASSUME file' = file, saved' = saved, phase' # "saving",
             NotYetSynced',
             phase' = "idle" /\ synced' =>
               \A k \in Keys : Owned(store', k) => file[k] = store'[k]
      PROVE  IInv'
  <2>1. /\ Present(store') = Present(store)'
        /\ \A k \in Keys : Owned(store', k) <=> Owned(store, k)'
    BY DEF Owned, Present
  <2> QED
    BY <2>1, <1>1, <1>2 DEF IInv, MemoryMatchesFile, NothingOlder, HalfSaved, Owned,
                            Present
<1>3. ASSUME Call
      PROVE  IInv'
  <2>1. ASSUME NEW k \in ArgKeys, NEW v \in ArgValues, write(k, v)
        PROVE  IInv'
    BY <2>1, <1>1, <1>2 DEF write, IInv, MemoryMatchesFile, NotYetSynced
  <2>2. ASSUME NEW k \in ArgKeys, erase(k)
        PROVE  IInv'
    BY <2>2, <1>1, <1>2 DEF erase, IInv, MemoryMatchesFile, NotYetSynced
  <2>3. ASSUME NEW k \in ArgKeys, read(k)
        PROVE  IInv'
    BY <2>3, <1>1, <1>2 DEF read, IInv, MemoryMatchesFile, NotYetSynced
  <2> QED
    BY <2>1, <2>2, <2>3, <1>3 DEF Call
<1>4. ASSUME open
      PROVE  IInv'
  <2>1. HalfSaved'
    BY <1>4, <1>1 DEF open, HalfSaved, Empty, Present, TypeOK
  <2>2. NothingOlder' /\ MemoryMatchesFile'
    BY <1>4 DEF open, NothingOlder, MemoryMatchesFile, Empty
  <2>3. NotYetSynced'
    BY <1>4 DEF open, IInv, NotYetSynced
  <2> QED
    BY <1>1, <2>1, <2>2, <2>3 DEF IInv
<1>5. ASSUME NEW j \in Keys, saveLine(j)
      PROVE  IInv'
  <2>1. HalfSaved' /\ phase' = "saving"
    BY <1>1, <1>5, SaveLineStep DEF IInv, saveLine
  <2>2. NothingOlder' /\ MemoryMatchesFile'
    BY <2>1 DEF NothingOlder, MemoryMatchesFile, HalfSaved
  <2>3. NotYetSynced'
    BY <1>5 DEF saveLine, IInv, NotYetSynced
  <2> QED
    BY <1>1, <2>1, <2>2, <2>3 DEF IInv
<1>6. ASSUME close
      PROVE  IInv'
  <2>1. \A k \in Keys : Owned(store, k) => file[k] = store[k]
    BY <1>6 DEF close, IInv, HalfSaved
  <2> QED
    BY <2>1, <1>1, <1>2, <1>6 DEF close, NotYetSynced
<1>7. ASSUME CutShort, saved' = saved, phase = "saving",
             phase' \in {"idle", "down"}, synced' = synced
      PROVE  IInv'
  <2>1. saved = store /\ ~ synced
    BY <1>7 DEF IInv, HalfSaved, NotYetSynced
  <2>2. NothingOlder'
    BY <2>1, <1>1, <1>7, CutShortOwned DEF IInv, NothingOlder, Owned, Present
  <2> QED
    BY <2>1, <2>2, <1>1, <1>7 DEF IInv, MemoryMatchesFile, HalfSaved, NotYetSynced
<1>8. ASSUME openFails
      PROVE  IInv'
  BY <1>1, <1>2, <1>8 DEF openFails, IInv, NotYetSynced
<1>9. ASSUME writeFails
      PROVE  IInv'
  BY <1>7, <1>9 DEF writeFails
<1>10. ASSUME loadFromFile \/ loadFails \/ stop
       PROVE  IInv'
  BY <1>1, <1>2, <1>10 DEF loadFromFile, loadFails, stop, NotYetSynced
<1>11. ASSUME crash
       PROVE  IInv'
  <2>1. CASE file' = file
    BY <1>1, <1>2, <1>11, <2>1 DEF crash, NotYetSynced
  <2>2. CASE CutShort
    <3>1. phase = "saving"
      BY <1>1, <2>2 DEF CutShort, TypeOK
    <3> QED
      BY <3>1, <2>2, <1>7, <1>11 DEF crash
  <2> QED
    BY <2>1, <2>2, <1>11 DEF crash
<1>12. ASSUME UNCHANGED vars
       PROVE  IInv'
  BY <1>1, <1>12 DEF vars, IInv, MemoryMatchesFile, NothingOlder, HalfSaved, Owned,
                 Present, NotYetSynced
<1> QED
  BY <1>3, <1>4, <1>5, <1>6, <1>8, <1>9, <1>10, <1>11, <1>12 DEF Next, saveToFile

THEOREM InvariantHolds == Spec => []IInv
<1>1. Init => IInv
  BY FileAssumption
  DEF Init, IInv, TypeOK, Empty, Stored, MemoryMatchesFile, NothingOlder, HalfSaved,
      NotYetSynced
<1>2. IInv /\ [Next]_vars => IInv'
  BY IInvStep
<1> QED
  BY <1>1, <1>2, PTL DEF Spec

\* Between calls the file gives back every pair whose text is its own
\* (lines 15-67, 93-106), also after crashes and failed saves that a complete
\* one has followed.
THEOREM MemoryMatchesFileHolds == Spec => []MemoryMatchesFile
<1>1. IInv => MemoryMatchesFile
  BY DEF IInv
<1> QED
  BY <1>1, InvariantHolds, PTL

\* No crash and no failed write (lines 93-106) brings an older value back.
THEOREM NothingOlderHolds == Spec => []NothingOlder
<1>1. IInv => NothingOlder
  BY DEF IInv
<1> QED
  BY <1>1, InvariantHolds, PTL

-----------------------------------------------------------------------------
(* The file engine behaves as the in-memory one                            *)

\* The pairs of m are ones that callers passed.
OfCallers(m) == \A k \in Keys :
                  m[k] # Absent => k \in ArgKeys \ {EmptyKey} /\ m[k] \in ArgValues

Faultless ==
  /\ TypeOK /\ HalfSaved
  /\ OfCallers(store)
  /\ phase = "idle" => file = store
  /\ phase = "down" => OfCallers(file)

\* For any callers, keys and values whose text is their own, and any number of
\* restarts between calls (lines 9-106), as long as nothing fails.
THEOREM BehavesAsInMemoryHolds ==
  ASSUME MaxFaults = 0,
         \A k \in ArgKeys \ {EmptyKey}, v \in ArgValues, j \in Keys :
           Line[k][v][j] = IF j = k THEN v ELSE Untouched
  PROVE  Spec => BehavesAsInMemory
<1> USE FileAssumption
<1> DEFINE Mem == [k \in ArgKeys |-> IF phase = "down" THEN file[k] ELSE store[k]]
<1>1. Init => Faultless /\ Memory!Init
  BY DEF Init, Faultless, TypeOK, Stored, HalfSaved, OfCallers, Empty, Memory!Init
<1>2. ASSUME Faultless, [Next]_vars
      PROVE  Faultless' /\ [Memory!Next]_<<Mem, answer>>
  <2>1. TypeOK /\ TypeOK' /\ ~ Fault
    <3>1. TypeOK /\ TypeOK'
      BY <1>2, TypeStep DEF Faultless
    <3> QED
      BY <3>1 DEF TypeOK, Fault
  <2>2. OfCallers(store) => \A k \in Keys : Owned(store, k)
    BY DEF OfCallers, Owned, Present
  <2>3. ASSUME NEW k \in ArgKeys, NEW v \in ArgValues, write(k, v)
        PROVE  Faultless' /\ Memory!write(k, v)
    <3>1. OfCallers(store')
      BY <1>2, <2>1, <2>3 DEF Faultless, OfCallers, write, TypeOK
    <3>2. Faultless'
      BY <3>1, <1>2, <2>1, <2>3 DEF Faultless, write, HalfSaved, OfCallers
    <3>3. Mem' = IF k = EmptyKey THEN Mem ELSE [Mem EXCEPT ![k] = v]
      BY <2>1, <2>3 DEF write, TypeOK
    <3> QED
      BY <3>2, <3>3, <2>3 DEF write, Memory!write
  <2>4. ASSUME NEW k \in ArgKeys, erase(k)
        PROVE  Faultless' /\ Memory!erase(k)
    <3>1. OfCallers(store')
      BY <1>2, <2>1, <2>4 DEF Faultless, OfCallers, erase, TypeOK
    <3>2. Faultless'
      BY <3>1, <1>2, <2>1, <2>4 DEF Faultless, erase, HalfSaved, OfCallers
    <3>3. Mem' = IF k = EmptyKey THEN Mem ELSE [Mem EXCEPT ![k] = Absent]
      BY <2>1, <2>4 DEF erase, TypeOK
    <3>4. Mem[k] = store[k]
      BY <2>4 DEF erase
    <3> QED
      BY <3>2, <3>3, <3>4, <2>4 DEF erase, Memory!erase
  <2>5. ASSUME NEW k \in ArgKeys, read(k)
        PROVE  Faultless' /\ Memory!read(k)
    <3>1. Faultless'
      BY <1>2, <2>1, <2>5 DEF Faultless, read, HalfSaved, OfCallers
    <3>2. Mem' = Mem /\ Mem[k] = store[k]
      BY <2>5 DEF read
    <3> QED
      BY <3>1, <3>2, <2>5 DEF read, Memory!read
  <2>6. ASSUME open
        PROVE  Faultless' /\ UNCHANGED <<Mem, answer>>
    <3>1. HalfSaved'
      BY <2>6, <2>1 DEF open, HalfSaved, Empty, Present, TypeOK
    <3> QED
      BY <3>1, <1>2, <2>1, <2>6 DEF Faultless, open, OfCallers
  <2>7. ASSUME NEW k \in Keys, saveLine(k)
        PROVE  Faultless' /\ UNCHANGED <<Mem, answer>>
    <3>1. HalfSaved'
      BY <1>2, <2>7, SaveLineStep DEF Faultless
    <3> QED
      BY <3>1, <1>2, <2>1, <2>7 DEF Faultless, saveLine, OfCallers
  <2>8. ASSUME close
        PROVE  Faultless' /\ UNCHANGED <<Mem, answer>>
    <3>1. \A k \in Keys : file[k] = store[k]
      BY <1>2, <2>2, <2>8 DEF Faultless, close, HalfSaved
    <3>2. file = store
      BY <3>1, <2>1 DEF TypeOK
    <3> QED
      BY <3>2, <1>2, <2>1, <2>8 DEF Faultless, close, OfCallers, HalfSaved
  <2>9. ASSUME loadFromFile
        PROVE  Faultless' /\ UNCHANGED <<Mem, answer>>
    BY <1>2, <2>1, <2>9 DEF Faultless, loadFromFile, OfCallers, HalfSaved
  <2>10. ASSUME stop
         PROVE  Faultless' /\ UNCHANGED <<Mem, answer>>
    BY <1>2, <2>1, <2>10 DEF Faultless, stop, OfCallers, HalfSaved, Empty
  <2>11. ASSUME UNCHANGED vars
         PROVE  Faultless' /\ UNCHANGED <<Mem, answer>>
    BY <1>2, <2>1, <2>11 DEF vars, Faultless, HalfSaved, OfCallers, Owned, Present
  <2>12. ~ openFails /\ ~ writeFails /\ ~ loadFails /\ ~ crash
    BY <2>1 DEF openFails, writeFails, loadFails, crash
  <2> HIDE DEF Mem
  <2>13. ASSUME Call
         PROVE  Faultless' /\ Memory!Next
    BY <2>13, <2>3, <2>4, <2>5 DEF Call, Memory!Next
  <2> QED
    BY <1>2, <2>6, <2>7, <2>8, <2>9, <2>10, <2>11, <2>12, <2>13 DEF Next, saveToFile
<1> QED
  BY <1>1, <1>2, PTL DEF Spec, BehavesAsInMemory, Memory!Spec
=============================================================================
