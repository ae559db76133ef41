-------------------------- MODULE WalKVStoreProofs --------------------------
(***************************************************************************)
(* Proofs about WalKVStore, for every set of goroutines, keys and values,  *)
(* every length of wal.log and any number of half-way writes.              *)
(***************************************************************************)
EXTENDS WalKVStore, FiniteSetTheorems, TLAPS

-----------------------------------------------------------------------------
(* Operators                                                               *)

\* What json.Marshal writes for a call is a line (lines 63-64, 76-77, 90).
LEMMA LineOfType ==
  ASSUME NEW e \in Entry
  PROVE  LineOf(e) \in Line
BY WireAssumption DEF LineOf, Line, Broken, Entry

\* The bytes of two writes with no newline between them are one line.
LEMMA JoinType ==
  ASSUME NEW x \in Line \cup {NoTail}, NEW y \in Line
  PROVE  Join(x, y) \in Line
BY DEF Join, Line, Broken

\* The records that Put and Delete make.
LEMMA EntryTypes ==
  ASSUME NEW k \in Keys
  PROVE  /\ DeleteEntry(k) \in Entry /\ DeleteEntry(k).key = k
         /\ \A v \in Values : PutEntry(k, v) \in Entry /\ PutEntry(k, v).key = k
BY DEF DeleteEntry, PutEntry, Entry, Stored

\* The scanner's tokens, as a sequence.
LEMMA LinesType ==
  ASSUME log \in Seq(Line), tail \in Line \cup {NoTail}
  PROVE  /\ Lines \in Seq(Line)
         /\ Len(log) \in Nat /\ Len(Lines) \in Nat
         /\ tail = NoTail => Lines = log
         /\ tail # NoTail => Len(Lines) = Len(log) + 1 /\ Lines[Len(Lines)] = tail
         /\ \A i \in 1 .. Len(log) : Lines[i] = log[i]
<1>1. CASE tail = NoTail
  BY <1>1 DEF Lines
<1>2. CASE tail # NoTail
  <2>1. tail \in Line
    BY <1>2
  <2>2. Lines = Append(log, tail)
    BY <1>2 DEF Lines
  <2> QED
    BY <1>2, <2>1, <2>2
<1> QED
  BY <1>1, <1>2

\* One turn of the recovery loop keeps the map a map.
LEMMA ReplayedType ==
  ASSUME NEW m \in [Keys -> Stored], NEW line \in Line
  PROVE  Replayed(m, line) \in [Keys -> Stored]
BY DEF Replayed, Line, Entry

-----------------------------------------------------------------------------
(* Type correctness                                                        *)

LEMMA LoggedType ==
  ASSUME TypeOK, NEW t \in Threads, NEW e \in Entry, Logged(t, e)
  PROVE  TypeOK'
<1>1. LineOf(e) \in Line
  BY LineOfType
<1>2. Join(tail, LineOf(e)) \in Line
  BY <1>1, JoinType DEF TypeOK
<1>3. /\ log' \in Seq(Line) /\ Len(log') = Len(log) + 1
      /\ tail' = NoTail /\ Len(log) \in Nat
  BY <1>2 DEF TypeOK, Logged
<1>4. Len(Lines) \in Nat /\ Len(Lines) <= Len(log) + 1
  BY LinesType DEF TypeOK
<1>5. Len(Lines') = Len(log) + 1
  BY <1>3 DEF Lines
<1>6. pos' \in 0 .. Len(Lines')
  BY <1>3, <1>4, <1>5 DEF TypeOK, Logged
<1>7. TailKeys \subseteq Keys
  BY DEF TailKeys
<1>8. e.key \in Keys
  BY DEF Entry
<1>9. doubt' \subseteq Keys
  BY <1>7, <1>8 DEF TypeOK, Logged
<1> QED
  BY <1>3, <1>6, <1>9 DEF TypeOK, Logged

LEMMA WriteFailsType ==
  ASSUME TypeOK, NEW t \in Threads, NEW e \in Entry, WriteFails(t, e)
  PROVE  TypeOK'
<1>1. PICK bytes \in {Garbled, LineOf(e)} :
        /\ tail' = Join(tail, bytes)
        /\ doubt' = doubt \cup TailKeys
                          \cup (IF tail' \in Entry THEN {e.key} ELSE {})
  BY DEF WriteFails
<1>2. bytes \in Line
  BY LineOfType DEF Line, Broken
<1>3. tail' \in Line
  BY <1>1, <1>2, JoinType DEF TypeOK
<1>4. Len(Lines) \in Nat /\ Len(Lines) <= Len(log) + 1 /\ Len(log) \in Nat
  BY LinesType DEF TypeOK
<1>5. log' = log
  BY DEF WriteFails
<1>6. Len(Lines') = Len(log) + 1
  <2>1. tail' # NoTail
    BY <1>3, WalAssumption
  <2> QED
    BY <2>1, <1>3, <1>5 DEF Lines, TypeOK
<1>7. pos' \in 0 .. Len(Lines')
  BY <1>4, <1>6 DEF TypeOK, WriteFails
<1>8. doubt' \subseteq Keys
  BY <1>1 DEF TailKeys, TypeOK, Entry
<1> QED
  BY <1>3, <1>5, <1>7, <1>8 DEF TypeOK, WriteFails

LEMMA DieType ==
  ASSUME TypeOK, Die, log' \in Seq(Line), tail' \in Line \cup {NoTail},
         torn' \in Nat
  PROVE  TypeOK'
<1>1. Len(Lines') \in Nat
  <2>1. Lines' = log' \/ (Lines' = Append(log', tail') /\ tail' \in Line)
    BY DEF Lines
  <2> QED
    BY <2>1
<1> QED
  BY <1>1 DEF TypeOK, Die, Empty, Stored

LEMMA PowerFailType ==
  ASSUME TypeOK, PowerFail
  PROVE  /\ log' \in Seq(Line) /\ tail' \in Line \cup {NoTail} /\ torn' \in Nat
         /\ Die
<1>1. PICK n \in 0 .. Len(log) :
        /\ log' = SubSeq(log, 1, n)
        /\ tail' \in IF n = Len(Lines) THEN {NoTail}
                    ELSE {NoTail, Garbled, Lines[n + 1]}
  BY DEF PowerFail
<1>2. log' \in Seq(Line)
  BY <1>1 DEF TypeOK
<1>3. n # Len(Lines) => Lines[n + 1] \in Line
  BY <1>1, LinesType DEF TypeOK
<1>4. tail' \in Line \cup {NoTail}
  BY <1>1, <1>3 DEF TypeOK, Line, Broken
<1> QED
  BY <1>2, <1>4 DEF PowerFail, TypeOK

LEMMA TypeStep ==
  ASSUME TypeOK, [Next]_vars
  PROVE  TypeOK'
<1>1. ASSUME NEW t \in Threads, Call(t)
      PROVE  TypeOK'
  BY <1>1, LoggedType, WriteFailsType, EntryTypes DEF Call, Put, Delete
<1>2. ASSUME NEW t \in Threads, Apply(t)
      PROVE  TypeOK'
  <2>1. pending[t] \in Entry
    BY <1>2 DEF Apply, Idle, TypeOK
  <2>2. pending[t].key \in Keys /\ pending[t].value \in Stored
    BY <2>1 DEF Entry
  <2> QED
    BY <1>2, <2>2 DEF Apply, TypeOK, Lines
<1>3. ASSUME NewKVStore
      PROVE  TypeOK'
  <2>1. Len(Lines) \in Nat
    BY LinesType DEF TypeOK
  <2>2. Lines' = Lines
    BY <1>3 DEF NewKVStore, Lines
  <2> QED
    BY <1>3, <2>1, <2>2 DEF NewKVStore, TypeOK, Empty, Stored
<1>4. ASSUME RecoverLine
      PROVE  TypeOK'
  <2>1. Len(Lines) \in Nat /\ Lines \in Seq(Line)
    BY LinesType DEF TypeOK
  <2>2. Lines' = Lines
    BY <1>4 DEF RecoverLine, Lines
  <2>3. Lines[pos + 1] \in Line /\ pos' \in 0 .. Len(Lines)
    BY <1>4, <2>1 DEF RecoverLine, TypeOK
  <2>4. store' \in [Keys -> Stored]
    BY <1>4, <2>3, ReplayedType DEF RecoverLine, TypeOK
  <2> QED
    BY <1>4, <2>2, <2>3, <2>4 DEF RecoverLine, TypeOK
<1>5. ASSUME RecoverDone
      PROVE  TypeOK'
  BY <1>5 DEF RecoverDone, TypeOK, Lines
<1>6. ASSUME RecoverFails
      PROVE  TypeOK'
  BY <1>6, DieType DEF RecoverFails, TypeOK
<1>7. ASSUME Crash
      PROVE  TypeOK'
  BY <1>7, DieType DEF Crash, TypeOK
<1>8. ASSUME PowerFail
      PROVE  TypeOK'
  BY <1>8, DieType, PowerFailType
<1>9. ASSUME UNCHANGED vars
      PROVE  TypeOK'
  BY <1>9 DEF vars, TypeOK, Lines
<1> QED
  BY <1>1, <1>2, <1>3, <1>4, <1>5, <1>6, <1>7, <1>8, <1>9 DEF Next, Recover

\* The variables keep their types whatever is called, fails or crashes.
THEOREM TypeCorrect == Spec => []TypeOK
<1>1. Init => TypeOK
  BY DEF Init, TypeOK, Lines, Empty, Stored
<1>2. TypeOK /\ [Next]_vars => TypeOK'
  BY TypeStep
<1> QED
  BY <1>1, <1>2, PTL DEF Spec

-----------------------------------------------------------------------------
(* What a log determines                                                   *)

\* A line on k settles its value (lines 53-56: the last record wins).
LEMMA DeterminesLast ==
  ASSUME NEW lines \in Seq(Line), NEW n \in Nat, n # 0, NEW k \in Keys,
         OnKey(lines[n], k)
  PROVE  Determines(lines, n, k, lines[n].value)
BY DEF Determines

\* Lines that are not on k do not matter to k: two logs that agree up to n and
\* have nothing on k after it determine the same value.
LEMMA DeterminesKept ==
  ASSUME NEW L, NEW M, NEW l \in Nat, NEW m \in Nat, NEW n \in Nat,
         n <= l, n <= m, NEW k \in Keys, NEW v,
         \A i \in 1 .. n : L[i] = M[i],
         \A i \in n + 1 .. l : ~ OnKey(L[i], k),
         \A i \in n + 1 .. m : ~ OnKey(M[i], k),
         Determines(L, l, k, v)
  PROVE  Determines(M, m, k, v)
<1>1. CASE v = Absent /\ \A i \in 1 .. l : ~ OnKey(L[i], k)
  <2>1. ASSUME NEW i \in 1 .. m
        PROVE  ~ OnKey(M[i], k)
    BY <1>1
  <2> QED
    BY <1>1, <2>1 DEF Determines
<1>2. CASE \E i \in 1 .. l :
             /\ OnKey(L[i], k) /\ L[i].value = v
             /\ \A j \in i + 1 .. l : ~ OnKey(L[j], k)
  <2>1. PICK i \in 1 .. l :
             /\ OnKey(L[i], k) /\ L[i].value = v
             /\ \A j \in i + 1 .. l : ~ OnKey(L[j], k)
    BY <1>2
  <2>2. i \in 1 .. n /\ i \in 1 .. m
    BY <2>1
  <2>3. OnKey(M[i], k) /\ M[i].value = v
    BY <2>1, <2>2
  <2>4. ASSUME NEW j \in i + 1 .. m
        PROVE  ~ OnKey(M[j], k)
    BY <2>1, <2>2
  <2> QED
    BY <2>2, <2>3, <2>4 DEF Determines
<1> QED
  BY <1>1, <1>2 DEF Determines

\* The same for one more line.
LEMMA DeterminesNext ==
  ASSUME NEW L, NEW n \in Nat, NEW k \in Keys, NEW v,
         ~ OnKey(L[n + 1], k), Determines(L, n, k, v)
  PROVE  Determines(L, n + 1, k, v)
BY DEF Determines

\* A value that a log determines is one of its lines' or Absent.
LEMMA DeterminesFixed ==
  ASSUME NEW k \in Keys, NEW v, TypeOK, WireClosed,
         Determines(Lines, Len(Lines), k, v)
  PROVE  WireValue[v] = v
BY WireAssumption DEF Determines, WireClosed, OnKey, Stored

\* The broken line that two writes make, or the record of the only one.
LEMMA JoinCases ==
  ASSUME NEW x \in Line \cup {NoTail}, NEW y \in Line
  PROVE  /\ x = NoTail => Join(x, y) = y
         /\ x # NoTail => Join(x, y) \in Broken
         /\ Oversized \in {x, y} => Join(x, y) = Oversized
BY WalAssumption DEF Join, Broken, Line

-----------------------------------------------------------------------------
(* The steps of the inductive invariant                                    *)

\* What a record that reaches the file says, if a reader can parse it.
LEMMA WrittenLine ==
  ASSUME TypeOK, NEW e \in Entry, NEW bytes \in {Garbled, LineOf(e)},
         Join(tail, bytes) \in Entry
  PROVE  /\ tail = NoTail /\ bytes = LineOf(e)
         /\ Join(tail, bytes) = [key |-> WireKey[e.key],
                                 value |-> WireValue[e.value]]
<1>1. bytes \in Line
  BY LineOfType DEF Line, Broken
<1>2. tail = NoTail /\ Join(tail, bytes) = bytes
  BY <1>1, JoinCases, WalAssumption DEF TypeOK
<1> QED
  BY <1>2, WalAssumption DEF LineOf, Broken

\* Adding bytes to the file keeps every line a fixed point of the round trip.
LEMMA WireClosedWrite ==
  ASSUME TypeOK, TypeOK', WireClosed,
         NEW e \in Entry, NEW bytes \in {Garbled, LineOf(e)},
         NEW x, x = Join(tail, bytes),
         Len(Lines') = Len(log) + 1, Lines'[Len(log) + 1] = x,
         \A i \in 1 .. Len(log) : Lines'[i] = log[i]
  PROVE  WireClosed'
<1>1. x \in Entry => WireValue[x.value] = x.value
  BY WrittenLine, WireAssumption DEF Entry
<1>2. Len(log) \in Nat
  BY LinesType DEF TypeOK
<1>3. ASSUME NEW i \in 1 .. Len(log) + 1, Lines'[i] \in Entry
      PROVE  WireValue[Lines'[i].value] = Lines'[i].value
  <2>1. CASE i = Len(log) + 1
    BY <2>1, <1>1, <1>3
  <2>2. CASE i # Len(log) + 1
    <3>1. i \in 1 .. Len(log) /\ i \in 1 .. Len(Lines) /\ Lines'[i] = Lines[i]
      BY <2>2, <1>2, LinesType DEF TypeOK
    <3> QED
      BY <3>1, <1>3 DEF WireClosed
  <2> QED
    BY <2>1, <2>2
<1> QED
  BY <1>3 DEF WireClosed

\* A reader that got through the file after the write got through it before.
LEMMA ReadableBefore ==
  ASSUME TypeOK, NEW bytes \in Line, NEW x, x = Join(tail, bytes),
         Len(Lines') = Len(log) + 1, Lines'[Len(log) + 1] = x,
         \A i \in 1 .. Len(log) : Lines'[i] = log[i], Readable'
  PROVE  Readable /\ x # Oversized
<1>1. Len(log) \in Nat
  BY LinesType DEF TypeOK
<1>2. x # Oversized /\ \A i \in 1 .. Len(log) : log[i] # Oversized
  BY <1>1 DEF Readable
<1>3. tail # Oversized
  BY <1>2, JoinCases DEF TypeOK
<1>4. ASSUME NEW i \in 1 .. Len(Lines)
      PROVE  Lines[i] # Oversized
  BY <1>1, <1>2, <1>3, LinesType DEF TypeOK
<1> QED
  BY <1>2, <1>4 DEF Readable

\* A key that is neither in the record nor in the tail keeps what the file
\* says of it.
LEMMA OtherKeyKept ==
  ASSUME TypeOK, NEW e \in Entry, NEW bytes \in {Garbled, LineOf(e)},
         NEW x, x = Join(tail, bytes),
         Len(Lines') = Len(log) + 1, Lines'[Len(log) + 1] = x,
         \A i \in 1 .. Len(log) : Lines'[i] = log[i],
         NEW k \in Keys, Faithful(k), k \notin TailKeys,
         x \in Entry => k # e.key,
         NEW v, Determines(Lines, Len(Lines), k, v)
  PROVE  Determines(Lines', Len(Lines'), k, v)
<1>1. Len(log) \in Nat /\ Len(Lines) \in Nat
  BY LinesType DEF TypeOK
<1>2. ~ OnKey(x, k)
  BY WrittenLine DEF OnKey, Faithful, Entry
<1>3. \A i \in Len(log) + 1 .. Len(Lines) : ~ OnKey(Lines[i], k)
  BY <1>1, LinesType DEF TypeOK, TailKeys
<1>4. Len(log) <= Len(Lines) /\ \A i \in 1 .. Len(log) : Lines[i] = Lines'[i]
  BY <1>1, LinesType DEF TypeOK
<1>5. \A i \in Len(log) + 1 .. Len(log) + 1 : ~ OnKey(Lines'[i], k)
  BY <1>1, <1>2
<1>6. Determines(Lines', Len(log) + 1, k, v)
  <2> DEFINE L == Lines
             M == Lines'
             l == Len(Lines)
             n == Len(log)
  <2>1. /\ l \in Nat /\ n \in Nat /\ n + 1 \in Nat /\ n <= l /\ n <= n + 1
        /\ \A i \in 1 .. n : L[i] = M[i]
        /\ \A i \in n + 1 .. l : ~ OnKey(L[i], k)
        /\ \A i \in n + 1 .. n + 1 : ~ OnKey(M[i], k)
        /\ Determines(L, l, k, v)
    BY <1>1, <1>3, <1>4, <1>5
  <2> HIDE DEF L, M, l, n
  <2>2. Determines(M, n + 1, k, v)
    BY <2>1, DeterminesKept
  <2> QED
    BY <2>2 DEF M, n
<1> QED
  BY <1>6

\* A call that logs its record (lines 63-67 and 76-80).
LEMMA LoggedStep ==
  ASSUME IInv, TypeOK', NEW t \in Threads, NEW e \in Entry, Logged(t, e)
  PROVE  IInv'
<1> DEFINE x == Join(tail, LineOf(e))
<1>1. /\ TypeOK /\ WireClosed /\ MemoryInStep /\ mode = "up" /\ mode' = "up"
      /\ Idle(t) /\ store' = store /\ pending' = [pending EXCEPT ![t] = e]
      /\ pending \in [Threads -> Entry \cup {NoEntry}]
  BY DEF IInv, TypeOK, Logged
<1>2. LineOf(e) \in {Garbled, LineOf(e)} /\ LineOf(e) \in Line
  BY LineOfType
<1>3. /\ Len(Lines') = Len(log) + 1 /\ Lines'[Len(log) + 1] = x
      /\ \A i \in 1 .. Len(log) : Lines'[i] = log[i]
      /\ Len(log) \in Nat
  <2>1. x \in Line /\ log \in Seq(Line)
    BY <1>1, <1>2, JoinType DEF TypeOK
  <2>2. Lines' = Append(log, x)
    BY DEF Logged, Lines
  <2> QED
    BY <2>1, <2>2
<1> HIDE DEF x
<1>4. x = Join(tail, LineOf(e))
  BY DEF x
<1>5. WireClosed'
  BY <1>1, <1>2, <1>3, <1>4, WireClosedWrite
<1>6. ASSUME Readable', NEW k \in Keys, k \notin doubt', Faithful(k)
      PROVE  InStep(k)'
  <2>1. Readable /\ x # Oversized
    BY <1>1, <1>2, <1>3, <1>4, <1>6, ReadableBefore
  <2>2. CASE k = e.key
    <3>1. tail = NoTail /\ ~ Overlaps(t, k)
      BY <1>6, <2>2 DEF Logged
    <3>2. x = LineOf(e)
      BY <3>1, <1>2, <1>4, JoinCases
    <3>3. OnKey(x, k) /\ x.value = WireValue[e.value]
      BY <3>2, <2>1, <2>2, <1>6, WireAssumption DEF LineOf, OnKey, Faithful, Entry
    <3>4. Determines(Lines', Len(log) + 1, k, WireValue[e.value])
      BY <3>3, <1>3 DEF Determines
    <3>5. ASSUME NEW u \in Threads, pending'[u] # NoEntry, pending'[u].key = k
          PROVE  u = t /\ pending'[u] = e
      BY <3>1, <3>5, <1>1 DEF Overlaps
    <3>6. ~ Settled(k)'
      BY <1>1, <2>2, WalAssumption DEF Settled
    <3> QED
      BY <3>4, <3>5, <3>6, <1>3 DEF InStep, Idle
  <2>3. CASE k # e.key
    <3>1. k \notin doubt /\ k \notin TailKeys
      <4>1. tail = NoTail => k \notin TailKeys
        BY DEF TailKeys
      <4> QED
        BY <4>1, <1>6, <2>3 DEF Logged
    <3>2. InStep(k)
      BY <3>1, <1>1, <1>6, <2>1 DEF MemoryInStep
    <3>3. ASSUME NEW v, Determines(Lines, Len(Lines), k, v)
          PROVE  Determines(Lines', Len(Lines'), k, v)
      BY <3>3, <3>1, <2>3, <1>1, <1>2, <1>3, <1>4, <1>6, OtherKeyKept
    <3>4. ASSUME NEW u \in Threads, pending'[u] # NoEntry, pending'[u].key = k
          PROVE  pending'[u] = pending[u] /\ ~ Idle(u)
      BY <3>4, <2>3, <1>1 DEF Idle
    <3>5. Settled(k)' => Settled(k)
      BY <1>1 DEF Settled, Idle
    <3> QED
      BY <3>2, <3>3, <3>4, <3>5, <1>1 DEF InStep, Idle
  <2> QED
    BY <2>2, <2>3
<1>7. MemoryInStep'
  BY <1>6 DEF MemoryInStep, Faithful
<1> QED
  BY <1>1, <1>5, <1>7 DEF IInv, QuietUntilUp, RecoveredPrefix, ReadSoFar

\* A call whose write stops half-way (lines 66 and 79, the error return).
LEMMA WriteFailsStep ==
  ASSUME IInv, TypeOK', NEW t \in Threads, NEW e \in Entry, WriteFails(t, e)
  PROVE  IInv'
<1>1. /\ TypeOK /\ WireClosed /\ MemoryInStep /\ mode = "up" /\ mode' = "up"
      /\ store' = store /\ pending' = pending /\ log' = log
  BY DEF IInv, WriteFails
<1>2. PICK bytes \in {Garbled, LineOf(e)} :
        /\ tail' = Join(tail, bytes)
        /\ doubt' = doubt \cup TailKeys
                          \cup (IF tail' \in Entry THEN {e.key} ELSE {})
  BY DEF WriteFails
<1>3. bytes \in Line /\ tail' \in Line /\ tail' # NoTail
  <2>1. bytes \in Line
    BY LineOfType DEF Line, Broken
  <2> QED
    BY <2>1, <1>1, <1>2, JoinType, WalAssumption DEF TypeOK
<1>4. /\ Len(Lines') = Len(log) + 1 /\ Lines'[Len(log) + 1] = tail'
      /\ \A i \in 1 .. Len(log) : Lines'[i] = log[i]
      /\ Len(log) \in Nat
  BY <1>1, <1>3 DEF Lines, TypeOK
<1>5. WireClosed'
  BY <1>1, <1>2, <1>4, WireClosedWrite
<1>6. ASSUME Readable', NEW k \in Keys, k \notin doubt', Faithful(k)
      PROVE  InStep(k)'
  <2>1. Readable
    BY <1>1, <1>2, <1>3, <1>4, <1>6, ReadableBefore
  <2>2. k \notin doubt /\ k \notin TailKeys /\ (tail' \in Entry => k # e.key)
    BY <1>2, <1>6
  <2>3. InStep(k)
    BY <2>1, <2>2, <1>1, <1>6 DEF MemoryInStep
  <2>4. ASSUME NEW v, Determines(Lines, Len(Lines), k, v)
        PROVE  Determines(Lines', Len(Lines'), k, v)
    BY <2>2, <2>4, <1>1, <1>2, <1>4, <1>6, OtherKeyKept
  <2> QED
    BY <2>3, <2>4, <1>1 DEF InStep, Idle, Settled
<1>7. MemoryInStep'
  BY <1>6 DEF MemoryInStep, Faithful
<1> QED
  BY <1>1, <1>5, <1>7 DEF IInv, QuietUntilUp, RecoveredPrefix, ReadSoFar

\* The critical section (lines 69-72 and 82-85).
LEMMA ApplyStep ==
  ASSUME IInv, TypeOK', NEW t \in Threads, Apply(t)
  PROVE  IInv'
<1>1. /\ TypeOK /\ WireClosed /\ MemoryInStep /\ mode = "up" /\ mode' = "up"
      /\ log' = log /\ tail' = tail /\ Lines' = Lines /\ doubt' = doubt
      /\ ~ Idle(t) /\ store' = [store EXCEPT ![pending[t].key] = pending[t].value]
      /\ pending' = [pending EXCEPT ![t] = NoEntry]
      /\ store \in [Keys -> Stored]
      /\ pending \in [Threads -> Entry \cup {NoEntry}]
  BY DEF IInv, TypeOK, Apply, Lines
<1>2. ASSUME Readable, NEW k \in Keys, k \notin doubt, Faithful(k)
      PROVE  InStep(k)'
  <2>1. InStep(k)
    BY <1>1, <1>2 DEF MemoryInStep
  <2>2. ASSUME NEW u \in Threads, pending'[u] # NoEntry
        PROVE  pending'[u] = pending[u] /\ ~ Idle(u)
    BY <2>2, <1>1 DEF Idle
  <2>3. Settled(k)' => Determines(Lines, Len(Lines), k, WireValue[store'[k]])
    <3>1. CASE k = pending[t].key
      BY <3>1, <2>1, <1>1 DEF InStep
    <3>2. CASE k # pending[t].key
      <4>1. store'[k] = store[k]
        BY <3>2, <1>1
      <4>2. Settled(k)' => Settled(k)
        BY <3>2, <1>1 DEF Settled
      <4> QED
        BY <4>1, <4>2, <2>1 DEF InStep
    <3> QED
      BY <3>1, <3>2
  <2> QED
    BY <2>1, <2>2, <2>3, <1>1 DEF InStep, Idle
<1>3. Readable' <=> Readable
  BY <1>1 DEF Readable
<1>4. MemoryInStep'
  BY <1>1, <1>2, <1>3 DEF MemoryInStep, Faithful
<1>5. WireClosed'
  BY <1>1 DEF WireClosed
<1> QED
  BY <1>1, <1>4, <1>5 DEF IInv, QuietUntilUp, RecoveredPrefix, ReadSoFar

\* A process that ends leaves no call and no memory behind; the file keeps
\* its lines, or loses some.
LEMMA DieStep ==
  ASSUME IInv, TypeOK', Die, WireClosed'
  PROVE  IInv'
BY DEF IInv, Die, QuietUntilUp, Idle, RecoveredPrefix, ReadSoFar, MemoryInStep

\* A power failure makes no new record.
LEMMA PowerFailStep ==
  ASSUME TypeOK, TypeOK', WireClosed, PowerFail
  PROVE  WireClosed'
<1>1. PICK n \in 0 .. Len(log) :
        /\ log' = SubSeq(log, 1, n)
        /\ tail' \in IF n = Len(Lines) THEN {NoTail}
                    ELSE {NoTail, Garbled, Lines[n + 1]}
  BY DEF PowerFail
<1>2. /\ Len(log) \in Nat /\ Len(log') = n
      /\ \A i \in 1 .. n : log'[i] = log[i]
  BY <1>1 DEF TypeOK
<1>3. Garbled \notin Entry
  BY WalAssumption DEF Broken
<1>4. /\ \A i \in 1 .. Len(log) : log[i] \in Entry => WireValue[log[i].value] = log[i].value
      /\ tail \in Entry => WireValue[tail.value] = tail.value
  <2>1. ASSUME NEW i \in 1 .. Len(log), log[i] \in Entry
        PROVE  WireValue[log[i].value] = log[i].value
    <3>1. i \in 1 .. Len(Lines) /\ Lines[i] = log[i]
      BY LinesType DEF TypeOK
    <3> QED
      BY <3>1, <2>1 DEF WireClosed
  <2>2. ASSUME tail \in Entry
        PROVE  WireValue[tail.value] = tail.value
    <3>1. tail # NoTail
      BY <2>2, WalAssumption DEF Line
    <3>2. Len(Lines) \in 1 .. Len(Lines) /\ Lines[Len(Lines)] = tail
      BY <3>1, LinesType DEF TypeOK
    <3> QED
      BY <3>2, <2>2 DEF WireClosed
  <2> QED
    BY <2>1, <2>2
<1>5. tail' \in Entry => WireValue[tail'.value] = tail'.value
  <2>1. n # Len(Lines) => n + 1 \in 1 .. Len(Lines)
    BY <1>1, LinesType DEF TypeOK
  <2>2. NoTail \notin Entry
    BY WalAssumption DEF Line
  <2> QED
    BY <1>1, <1>3, <2>1, <2>2 DEF WireClosed
<1>6. ASSUME NEW i \in 1 .. Len(Lines'), Lines'[i] \in Entry
      PROVE  WireValue[Lines'[i].value] = Lines'[i].value
  <2>1. CASE tail' = NoTail
    <3>1. Lines' = log'
      BY <2>1 DEF Lines
    <3> QED
      BY <3>1, <1>2, <1>4, <1>6
  <2>2. CASE tail' # NoTail
    <3>1. tail' \in Line /\ Lines' = Append(log', tail') /\ log' \in Seq(Line)
      BY <2>2 DEF Lines, TypeOK
    <3>2. CASE i = n + 1
      BY <3>1, <3>2, <1>2, <1>5, <1>6
    <3>3. CASE i # n + 1
      BY <3>1, <3>3, <1>2, <1>4, <1>6
    <3> QED
      BY <3>2, <3>3
  <2> QED
    BY <2>1, <2>2
<1> QED
  BY <1>6 DEF WireClosed

\* NewKVStore starts with an empty map and nothing read.
LEMMA NewKVStoreStep ==
  ASSUME IInv, TypeOK', NewKVStore
  PROVE  IInv'
<1>1. Lines' = Lines
  BY DEF NewKVStore, Lines
<1>2. RecoveredPrefix'
  BY DEF NewKVStore, RecoveredPrefix, Determines, Empty
<1> QED
  BY <1>1, <1>2 DEF IInv, NewKVStore, QuietUntilUp, Idle, ReadSoFar, WireClosed,
                    MemoryInStep

\* The loop of recoverFromWAL (lines 46-58).
LEMMA RecoverLineStep ==
  ASSUME IInv, TypeOK', RecoverLine
  PROVE  IInv'
<1>1. /\ TypeOK /\ Lines' = Lines /\ mode = "recovering" /\ mode' = "recovering"
      /\ pos' = pos + 1 /\ pos \in Nat /\ pos < Len(Lines)
      /\ store' = Replayed(store, Lines[pos + 1])
      /\ store \in [Keys -> Stored] /\ Lines[pos + 1] # Oversized
  BY DEF IInv, RecoverLine, Lines, TypeOK
<1>2. Lines \in Seq(Line) /\ Len(Lines) \in Nat /\ Lines[pos + 1] \in Line
  BY <1>1, LinesType DEF TypeOK
<1>3. ASSUME NEW k \in Keys
      PROVE  Determines(Lines, pos + 1, k, store'[k])
  <2>1. Determines(Lines, pos, k, store[k])
    BY <1>1 DEF IInv, RecoveredPrefix
  <2>2. CASE OnKey(Lines[pos + 1], k)
    <3>1. store'[k] = Lines[pos + 1].value
      BY <2>2, <1>1, WalAssumption DEF OnKey, Replayed, Line
    <3> QED
      BY <3>1, <2>2, <1>1, <1>2, DeterminesLast
  <2>3. CASE ~ OnKey(Lines[pos + 1], k)
    <3>1. store'[k] = store[k]
      BY <2>3, <1>1, <1>2 DEF OnKey, Replayed, Line
    <3>2. Determines(Lines, pos + 1, k, store[k])
      BY <2>1, <2>3, <1>1, DeterminesNext
    <3> QED
      BY <3>1, <3>2
  <2> QED
    BY <2>2, <2>3
<1>4. RecoveredPrefix'
  BY <1>1, <1>3 DEF RecoveredPrefix
<1>5. ReadSoFar'
  BY <1>1 DEF IInv, ReadSoFar
<1> QED
  BY <1>1, <1>4, <1>5 DEF IInv, RecoverLine, QuietUntilUp, Idle, WireClosed,
                          MemoryInStep

\* The return of NewKVStore (line 36): every line was read, and the map is what
\* they say.
LEMMA RecoverDoneStep ==
  ASSUME IInv, TypeOK', RecoverDone
  PROVE  IInv'
<1>1. /\ TypeOK /\ Lines' = Lines /\ mode = "recovering" /\ mode' = "up"
      /\ pos = Len(Lines) /\ store' = store /\ pending' = pending
      /\ \A t \in Threads : Idle(t)
  BY DEF IInv, RecoverDone, Lines, QuietUntilUp
<1>2. ASSUME NEW k \in Keys
      PROVE  InStep(k)'
  <2>1. Determines(Lines, Len(Lines), k, store[k])
    BY <1>1 DEF IInv, RecoveredPrefix
  <2>2. WireValue[store[k]] = store[k]
    BY <2>1, <1>1, DeterminesFixed DEF IInv
  <2> QED
    BY <2>1, <2>2, <1>1 DEF InStep, Idle
<1>3. MemoryInStep'
  BY <1>2 DEF MemoryInStep
<1> QED
  BY <1>1, <1>3 DEF IInv, QuietUntilUp, RecoveredPrefix, ReadSoFar, WireClosed

LEMMA IInvStep ==
  ASSUME IInv, [Next]_vars
  PROVE  IInv'
<1>1. TypeOK /\ TypeOK' /\ WireClosed
  BY TypeStep DEF IInv
<1>2. ASSUME NEW t \in Threads, Call(t)
      PROVE  IInv'
  BY <1>1, <1>2, LoggedStep, WriteFailsStep, EntryTypes DEF Call, Put, Delete
<1>3. ASSUME NEW t \in Threads, Apply(t)
      PROVE  IInv'
  BY <1>1, <1>3, ApplyStep
<1>4. ASSUME Recover
      PROVE  IInv'
  <2>1. ASSUME RecoverFails
        PROVE  IInv'
    <3>1. Die /\ WireClosed'
      BY <1>1, <2>1 DEF RecoverFails, WireClosed, Lines
    <3> QED
      BY <1>1, <3>1, DieStep
  <2> QED
    BY <2>1, <1>1, <1>4, RecoverLineStep, RecoverDoneStep DEF Recover
<1>5. ASSUME Crash
      PROVE  IInv'
  <2>1. Die /\ WireClosed'
    BY <1>1, <1>5 DEF Crash, WireClosed, Lines
  <2> QED
    BY <1>1, <2>1, DieStep
<1>6. ASSUME PowerFail
      PROVE  IInv'
  BY <1>1, <1>6, PowerFailStep, PowerFailType, DieStep
<1>7. ASSUME UNCHANGED vars
      PROVE  IInv'
  BY <1>7 DEF vars, IInv, TypeOK, QuietUntilUp, Idle, RecoveredPrefix, ReadSoFar,
              WireClosed, MemoryInStep, InStep, Settled, Readable, Lines, Faithful
<1> QED
  BY <1>1, <1>2, <1>3, <1>4, <1>5, <1>6, <1>7, NewKVStoreStep DEF Next

\* The inductive invariant holds of every behaviour of the store.
THEOREM InvariantHolds == Spec => []IInv
<1>1. Init => IInv
  <2> SUFFICES ASSUME Init
               PROVE  IInv
    OBVIOUS
  <2>1. Lines = <<>> /\ Len(Lines) = 0
    BY DEF Init, Lines
  <2> QED
    BY <2>1 DEF Init, IInv, TypeOK, Empty, Stored, QuietUntilUp, Idle,
                RecoveredPrefix, ReadSoFar, WireClosed, MemoryInStep
<1>2. IInv /\ [Next]_vars => IInv'
  BY IInvStep
<1> QED
  BY <1>1, <1>2, PTL DEF Spec

\* Recovery (lines 39-60) rebuilds exactly what the lines read so far say, in
\* every recovery and however the one before it ended.
THEOREM RecoveryRebuildsPrefix == Spec => []RecoveredPrefix
<1>1. IInv => RecoveredPrefix
  BY DEF IInv
<1> QED
  BY <1>1, InvariantHolds, PTL

\* Put, Delete, recovery and crashes keep the memory and the log in step
\* (lines 39-97) on every key that no race and no half-way write has touched.
THEOREM MemoryMatchesLogHolds == Spec => []MemoryMatchesLog
<1>1. IInv => MemoryMatchesLog
  BY DEF IInv, MemoryInStep, MemoryMatchesLog, InStep
<1> QED
  BY <1>1, InvariantHolds, PTL

\* NewKVStore (lines 32-36) succeeds only when it has read the whole log.
THEOREM UpOnlyWhenAllReadHolds == Spec => UpOnlyWhenAllRead
<1>1. ASSUME IInv, [Next]_vars, mode = "recovering", mode' = "up"
      PROVE  Readable /\ \A k \in Keys :
                           Determines(Lines, Len(Lines), k, store'[k])
  <2>1. RecoverDone
    <3>1. ~ Die
      BY <1>1 DEF Die
    <3>2. ~ \E t \in Threads : Call(t) \/ Apply(t)
      BY <1>1 DEF Call, Put, Delete, Logged, WriteFails, Apply
    <3> QED
      BY <1>1, <3>1, <3>2 DEF Next, Recover, NewKVStore, RecoverLine, RecoverFails,
                              Crash, PowerFail, vars
  <2> QED
    BY <2>1, <1>1 DEF RecoverDone, IInv, RecoveredPrefix, ReadSoFar, Readable
<1>2. IInv /\ [Next]_vars
        => [mode = "recovering" /\ mode' = "up"
              => Readable /\ \A k \in Keys :
                               Determines(Lines, Len(Lines), k, store'[k])]_vars
  BY <1>1
<1> QED
  BY <1>2, InvariantHolds, PTL DEF Spec, UpOnlyWhenAllRead

-----------------------------------------------------------------------------
(* The log as a map                                                        *)

\* A log determines one value for a key.
LEMMA DeterminesOne ==
  ASSUME NEW L, NEW n \in Nat, NEW k \in Keys, NEW v, NEW w,
         Determines(L, n, k, v), Determines(L, n, k, w)
  PROVE  v = w
BY DEF Determines

\* Nothing is left of a half-way write, and the log determines every key.
\* That there is always a last record on a key is carried from step to step:
\* it is no fact about all sequences that needs an induction.
WholeLog == /\ TypeOK /\ tail = NoTail
            /\ \A k \in Keys : \E v \in Stored : Determines(log, Len(log), k, v)

LEMMA LogMapIs ==
  ASSUME WholeLog, NEW k \in Keys, NEW v \in Stored,
         Determines(log, Len(log), k, v)
  PROVE  LogMap[k] = v
<1>1. Lines = log /\ Len(log) \in Nat
  BY DEF WholeLog, Lines, TypeOK
<1>2. Determines(log, Len(log), k, LogMap[k])
  BY <1>1 DEF LogMap
<1> QED
  BY <1>1, <1>2, DeterminesOne

LEMMA LoggedMap ==
  ASSUME WholeLog, TypeOK', NEW t \in Threads, NEW e \in Entry, Logged(t, e),
         TooLong = {}, \A k \in Keys : WireKey[k] = k,
         \A v \in Stored : WireValue[v] = v
  PROVE  WholeLog' /\ LogMap' = [LogMap EXCEPT ![e.key] = e.value]
<1>1. e.key \in Keys /\ e.value \in Stored
  BY DEF Entry
<1>2. log' = Append(log, e) /\ tail' = NoTail
  <2>1. LineOf(e) = e
    BY <1>1 DEF LineOf, Entry
  <2> QED
    BY <2>1 DEF Logged, Join, WholeLog
<1>3. /\ log \in Seq(Line) /\ log' \in Seq(Line) /\ e \in Line /\ Len(log) \in Nat
      /\ Len(log') = Len(log) + 1 /\ log'[Len(log) + 1] = e
      /\ \A i \in 1 .. Len(log) : log'[i] = log[i]
  BY <1>2 DEF WholeLog, TypeOK, Line
<1>4. Determines(log', Len(log'), e.key, e.value)
  BY <1>1, <1>3 DEF Determines, OnKey
<1>5. ASSUME NEW k \in Keys, k # e.key, NEW v, Determines(log, Len(log), k, v)
      PROVE  Determines(log', Len(log'), k, v)
  <2> DEFINE M == log'
             n == Len(log)
  <2>1. /\ n \in Nat /\ ~ OnKey(M[n + 1], k)
        /\ \A i \in 1 .. n : log[i] = M[i]
        /\ Determines(log, n, k, v)
    BY <1>3, <1>5 DEF OnKey
  <2> HIDE DEF M, n
  <2>2. Determines(M, n, k, v)
    BY <2>1 DEF Determines
  <2>3. Determines(M, n + 1, k, v)
    BY <2>1, <2>2, DeterminesNext
  <2> QED
    BY <2>3, <1>3 DEF M, n
<1>6. WholeLog'
  BY <1>1, <1>2, <1>4, <1>5 DEF WholeLog
<1>7. LogMap'[e.key] = e.value
  <2>1. Lines' = log' /\ Len(log') \in Nat
    BY <1>2, <1>3 DEF Lines
  <2>2. Determines(log', Len(log'), e.key, LogMap'[e.key])
    BY <1>1, <1>4, <2>1 DEF LogMap
  <2> QED
    BY <1>1, <1>4, <2>1, <2>2, DeterminesOne
<1>8. ASSUME NEW k \in Keys, k # e.key
      PROVE  LogMap'[k] = LogMap[k]
  <2>1. PICK v \in Stored : Determines(log, Len(log), k, v)
    BY DEF WholeLog
  <2>2. LogMap[k] = v
    BY <2>1, LogMapIs
  <2>3. Determines(log', Len(log'), k, v)
    BY <1>5, <1>8, <2>1
  <2>4. Lines' = log' /\ Len(log') \in Nat
    BY <1>2, <1>3 DEF Lines
  <2>5. Determines(log', Len(log'), k, LogMap'[k])
    BY <2>3, <2>4 DEF LogMap
  <2> QED
    BY <2>2, <2>3, <2>4, <2>5, DeterminesOne
<1> QED
  BY <1>1, <1>6, <1>7, <1>8 DEF LogMap

\* Without half-way writes, oversized records and strings that are not UTF-8,
\* the log of lines 39-97 implements a map with atomic, durable operations,
\* for any number of goroutines, keys, calls, crashes and restarts.
THEOREM LogImplementsMapHolds ==
  ASSUME MaxTorn = 0, TooLong = {}, \A k \in Keys : WireKey[k] = k,
         \A v \in Stored : WireValue[v] = v
  PROVE  Spec => LogImplementsMap
<1>1. Init => WholeLog /\ LogIsMap!Init
  <2> SUFFICES ASSUME Init
               PROVE  WholeLog /\ LogIsMap!Init
    OBVIOUS
  <2>1. Lines = <<>> /\ log = <<>> /\ Len(log) = 0 /\ Absent \in Stored
    BY DEF Init, Lines, Stored
  <2>2. \A k \in Keys : Determines(log, Len(log), k, Absent)
    BY <2>1 DEF Determines
  <2>3. WholeLog
    BY <2>1, <2>2 DEF WholeLog, Init, TypeOK, Empty, Stored
  <2>4. \A k \in Keys : LogMap[k] = Absent
    BY <2>1, <2>2, <2>3, LogMapIs
  <2> QED
    BY <2>3, <2>4 DEF LogIsMap!Init, LogMap
<1>2. WholeLog /\ [Next]_vars => WholeLog' /\ [LogIsMap!Next]_LogMap
  <2> SUFFICES ASSUME WholeLog, [Next]_vars
               PROVE  WholeLog' /\ [LogIsMap!Next]_LogMap
    OBVIOUS
  <2>1. TypeOK' /\ torn \in Nat
    BY TypeStep DEF WholeLog, TypeOK
  <2>2. ~ PowerFail /\ \A t \in Threads, e \in Entry : ~ WriteFails(t, e)
    BY <2>1 DEF PowerFail, WriteFails
  <2>3. ASSUME NEW t \in Threads, NEW k \in Keys, Delete(t, k)
        PROVE  WholeLog' /\ LogIsMap!Next
    <3>1. /\ DeleteEntry(k) \in Entry
          /\ DeleteEntry(k).key = k /\ DeleteEntry(k).value = Absent
      BY EntryTypes DEF DeleteEntry
    <3>2. WholeLog' /\ LogMap' = [LogMap EXCEPT ![k] = Absent]
      BY <2>1, <2>3, <3>1, LoggedMap DEF Delete
    <3> QED
      BY <3>2 DEF LogIsMap!Next, LogIsMap!Remove
  <2>4. ASSUME NEW t \in Threads, NEW k \in Keys, NEW v \in Values, Put(t, k, v)
        PROVE  WholeLog' /\ LogIsMap!Next
    <3>1. /\ PutEntry(k, v) \in Entry
          /\ PutEntry(k, v).key = k /\ PutEntry(k, v).value = v
      BY EntryTypes DEF PutEntry
    <3>2. WholeLog' /\ LogMap' = [LogMap EXCEPT ![k] = v]
      BY <2>1, <2>4, <3>1, LoggedMap DEF Put
    <3> QED
      BY <3>2 DEF LogIsMap!Next, LogIsMap!Put
  <2>5. ASSUME log' = log, tail' = tail
        PROVE  WholeLog' /\ LogMap' = LogMap
    BY <2>1, <2>5 DEF WholeLog, LogMap, Lines
  <2>6. \/ \E t \in Threads, k \in Keys :
             Delete(t, k) \/ \E v \in Values : Put(t, k, v)
        \/ log' = log /\ tail' = tail
    BY <2>2, EntryTypes DEF Next, Call, Apply, NewKVStore, Recover, RecoverLine,
                            RecoverDone, RecoverFails, Crash, vars
  <2> QED
    BY <2>3, <2>4, <2>5, <2>6
<1> QED
  BY <1>1, <1>2, PTL DEF Spec, LogImplementsMap, LogIsMap!Spec

-----------------------------------------------------------------------------
(* Logged before applied                                                   *)

\* The file is whole, and the record of every call under way is in it.
PendingLogged == /\ TypeOK /\ tail = NoTail
                 /\ \A t \in Threads : ~ Idle(t) =>
                      \E i \in 1 .. Len(log) : log[i] = LineOf(pending[t])

\* Without half-way writes, no call changes the map before a reader of wal.log
\* could find its record (line 88).
THEOREM LoggedBeforeAppliedHolds ==
  ASSUME MaxTorn = 0
  PROVE  Spec => LoggedBeforeApplied
<1> DEFINE Found(k) == LET e == [key |-> k, value |-> store'[k]] IN
                       \E i \in 1 .. Len(log) : log[i] = LineOf(e)
           A == \A k \in Keys :
                  mode = "up" /\ mode' = "up" /\ store'[k] # store[k] => Found(k)
<1>1. Init => PendingLogged
  BY DEF Init, PendingLogged, TypeOK, Lines, Empty, Stored, Idle
<1>2. ASSUME PendingLogged, [Next]_vars
      PROVE  PendingLogged'
  <2>1. TypeOK' /\ torn \in Nat
    BY <1>2, TypeStep DEF PendingLogged, TypeOK
  <2>2. ~ PowerFail /\ \A t \in Threads, e \in Entry : ~ WriteFails(t, e)
    BY <2>1 DEF PowerFail, WriteFails
  <2>3. ASSUME NEW t \in Threads, NEW e \in Entry, Logged(t, e)
        PROVE  PendingLogged'
    <3>1. /\ log' = Append(log, LineOf(e)) /\ tail' = NoTail
          /\ pending' = [pending EXCEPT ![t] = e]
      BY <1>2, <2>3 DEF Logged, Join, PendingLogged
    <3>2. /\ Len(log') = Len(log) + 1 /\ log'[Len(log) + 1] = LineOf(e)
          /\ \A i \in 1 .. Len(log) : log'[i] = log[i]
          /\ Len(log) \in Nat
      BY <3>1, <1>2, LineOfType DEF PendingLogged, TypeOK
    <3>3. ASSUME NEW u \in Threads, pending'[u] # NoEntry
          PROVE  \E i \in 1 .. Len(log') : log'[i] = LineOf(pending'[u])
      <4>1. CASE u = t
        BY <4>1, <3>1, <3>2, <1>2 DEF PendingLogged, TypeOK
      <4>2. CASE u # t
        <5>1. pending'[u] = pending[u] /\ ~ Idle(u)
          BY <4>2, <3>1, <3>3, <1>2 DEF PendingLogged, TypeOK, Idle
        <5> QED
          BY <5>1, <3>2, <1>2 DEF PendingLogged
      <4> QED
        BY <4>1, <4>2
    <3>4. \A u \in Threads : ~ Idle(u)' =>
            \E i \in 1 .. Len(log') : log'[i] = LineOf(pending'[u])
      BY <3>3 DEF Idle
    <3> QED
      BY <3>1, <3>4, <2>1 DEF PendingLogged, LineOf
  <2>4. ASSUME log' = log, tail' = tail,
               \A u \in Threads : pending'[u] \in {pending[u], NoEntry}
        PROVE  PendingLogged'
    <3>1. \A u \in Threads : ~ Idle(u)' => ~ Idle(u) /\ pending'[u] = pending[u]
      BY <2>4 DEF Idle
    <3> QED
      BY <3>1, <2>1, <2>4, <1>2 DEF PendingLogged, LineOf
  <2>5. \/ \E t \in Threads, e \in Entry : Logged(t, e)
        \/ /\ log' = log /\ tail' = tail
           /\ \A u \in Threads : pending'[u] \in {pending[u], NoEntry}
    <3>1. CASE \E t \in Threads : Call(t)
      BY <3>1, <2>2, EntryTypes DEF Call, Put, Delete
    <3>2. CASE \E t \in Threads : Apply(t)
      BY <3>2, <1>2 DEF Apply, PendingLogged, TypeOK
    <3> QED
      BY <3>1, <3>2, <2>2, <1>2 DEF Next, NewKVStore, Recover, RecoverLine,
         RecoverDone, RecoverFails, Crash, Die, vars
  <2> QED
    BY <2>3, <2>4, <2>5
<1>3. ASSUME PendingLogged, [Next]_vars, NEW k \in Keys,
             mode = "up", mode' = "up", store'[k] # store[k]
      PROVE  Found(k)
  <2>1. PICK t \in Threads : Apply(t)
    <3>1. ~ Die
      BY <1>3 DEF Die
    <3>2. ~ \E t \in Threads : Call(t)
      BY <1>3 DEF Call, Put, Delete, Logged, WriteFails
    <3> QED
      BY <1>3, <3>1, <3>2 DEF Next, Recover, NewKVStore, RecoverLine, RecoverDone,
                              RecoverFails, Crash, PowerFail, vars
  <2>2. pending[t] = [key |-> k, value |-> store'[k]] /\ ~ Idle(t)
    BY <2>1, <1>3 DEF Apply, PendingLogged, TypeOK, Entry, Idle
  <2> QED
    BY <2>2, <1>3 DEF PendingLogged
<1>4. PendingLogged /\ [Next]_vars => PendingLogged' /\ [A]_vars
  BY <1>2, <1>3
<1> QED
  BY <1>1, <1>4, PTL DEF Spec, LoggedBeforeApplied

-----------------------------------------------------------------------------
(* What half-way writes cost                                               *)

SpoiledIn(ls) == {i \in 1 .. Len(ls) : ls[i] = Garbled}

\* The spoiled lines are finitely many; a shorter log has no more of them, and
\* a longer one that one only that was added.
LEMMA SpoiledFinite ==
  ASSUME NEW ls \in Seq(Line)
  PROVE  IsFiniteSet(SpoiledIn(ls)) /\ Cardinality(SpoiledIn(ls)) \in Nat
<1>1. IsFiniteSet(1 .. Len(ls))
  BY FS_Interval
<1>2. SpoiledIn(ls) \subseteq 1 .. Len(ls)
  BY DEF SpoiledIn
<1>3. IsFiniteSet(SpoiledIn(ls))
  BY <1>1, <1>2, FS_Subset
<1> QED
  BY <1>3, FS_CardinalityType

LEMMA SpoiledPrefix ==
  ASSUME NEW ls \in Seq(Line), NEW n \in 0 .. Len(ls)
  PROVE  Cardinality(SpoiledIn(SubSeq(ls, 1, n))) <= Cardinality(SpoiledIn(ls))
<1>1. /\ Len(SubSeq(ls, 1, n)) = n
      /\ \A i \in 1 .. n : SubSeq(ls, 1, n)[i] = ls[i] /\ i \in 1 .. Len(ls)
  OBVIOUS
<1>2. SpoiledIn(SubSeq(ls, 1, n)) \subseteq SpoiledIn(ls)
  BY <1>1 DEF SpoiledIn
<1> QED
  BY <1>2, SpoiledFinite, FS_Subset

LEMMA SpoiledAppend ==
  ASSUME NEW ls \in Seq(Line), NEW line \in Line
  PROVE  Cardinality(SpoiledIn(Append(ls, line))) =
           Cardinality(SpoiledIn(ls)) + (IF line = Garbled THEN 1 ELSE 0)
<1> DEFINE r == Append(ls, line)
           n == Len(ls) + 1
<1>1. /\ Len(r) = n /\ Len(ls) \in Nat /\ r[n] = line
      /\ \A i \in 1 .. Len(ls) : r[i] = ls[i]
  OBVIOUS
<1>2. 1 .. n = 1 .. Len(ls) \cup {n} /\ n \notin 1 .. Len(ls)
  BY <1>1
<1> HIDE DEF r, n
<1>3. n \notin SpoiledIn(ls)
  BY <1>2 DEF SpoiledIn
<1>4. IsFiniteSet(SpoiledIn(ls)) /\ Cardinality(SpoiledIn(ls)) \in Nat
  BY SpoiledFinite
<1>5. CASE line = Garbled
  <2>1. SpoiledIn(r) = SpoiledIn(ls) \cup {n}
    BY <1>1, <1>2, <1>5 DEF SpoiledIn
  <2>2. Cardinality(SpoiledIn(ls) \cup {n}) = Cardinality(SpoiledIn(ls)) + 1
    BY <1>3, <1>4, FS_AddElement
  <2> QED
    BY <1>5, <2>1, <2>2 DEF r
<1>6. CASE line # Garbled
  <2>1. SpoiledIn(r) = SpoiledIn(ls)
    BY <1>1, <1>2, <1>6 DEF SpoiledIn
  <2> QED
    BY <1>4, <1>6, <2>1 DEF r
<1> QED
  BY <1>5, <1>6

\* Every half-way write (a full disk, a power failure) spoils at most one line
\* of wal.log: line 95 ends every record with a newline, and O_APPEND puts the
\* next one behind the bytes that were left.
THEOREM LossBoundedHolds == Spec => []LossBounded
<1> DEFINE count == Cardinality(SpoiledIn(log))
           part == IF tail = NoTail THEN 0 ELSE 1
<1>1. LossBounded <=> count + part <= torn
  BY DEF LossBounded, SpoiledIn
<1>2. Init => LossBounded
  <2> SUFFICES ASSUME Init PROVE LossBounded
    OBVIOUS
  <2>1. log = <<>> /\ tail = NoTail /\ torn = 0 /\ Len(<<>>) = 0 /\ 1 .. 0 = {}
    BY DEF Init
  <2>2. SpoiledIn(log) = {}
    BY <2>1 DEF SpoiledIn
  <2>3. count = 0
    BY <2>2, FS_EmptySet
  <2> HIDE DEF count
  <2> QED
    BY <1>1, <2>1, <2>3
<1>3. ASSUME TypeOK, LossBounded, [Next]_vars PROVE LossBounded'
  <2>1. /\ log \in Seq(Line) /\ tail \in Line \cup {NoTail} /\ torn \in Nat
        /\ NoTail \notin Line
    BY <1>3, WalAssumption DEF TypeOK
  <2>2. count \in Nat
    BY <2>1, SpoiledFinite
  <2>3. count + part <= torn
    BY <1>1, <1>3
  <2>4. LossBounded' <=> count' + part' <= torn'
    BY DEF LossBounded, SpoiledIn
  <2>5. ASSUME NEW t \in Threads, NEW e \in Entry, Logged(t, e) PROVE LossBounded'
    <3> DEFINE line == Join(tail, LineOf(e))
    <3>1. line \in Line
      BY <2>1, LineOfType, JoinType
    <3>2. tail = NoTail => line # Garbled
      <4>1. LineOf(e) # Garbled
        <5>1. e.value \notin TooLong => LineOf(e) \in Entry
          BY WireAssumption DEF LineOf, Entry
        <5>2. Garbled \notin Entry /\ Garbled # Oversized
          BY WalAssumption DEF Broken
        <5> QED
          BY <5>1, <5>2 DEF LineOf
      <4> QED
        BY <4>1 DEF Join
    <3>3. log' = Append(log, line) /\ tail' = NoTail /\ torn' = torn
      BY <2>5 DEF Logged
    <3> HIDE DEF line
    <3>4. count' = count + (IF line = Garbled THEN 1 ELSE 0)
      BY <2>1, <3>1, <3>3, SpoiledAppend
    <3>5. part' = 0
      BY <3>3
    <3> HIDE DEF count
    <3> QED
      BY <2>1, <2>2, <2>3, <2>4, <3>2, <3>3, <3>4, <3>5
  <2>6. ASSUME NEW t \in Threads, NEW e \in Entry, WriteFails(t, e) PROVE LossBounded'
    <3>1. log' = log /\ torn' = torn + 1
      BY <2>6 DEF WriteFails
    <3>2. count' = count /\ part' \in 0 .. 1
      BY <3>1
    <3>3. tail = NoTail \/ part = 1
      OBVIOUS
    <3> HIDE DEF count
    <3> QED
      BY <2>1, <2>2, <2>3, <2>4, <3>1, <3>2, <3>3
  <2>7. ASSUME PowerFail PROVE LossBounded'
    <3>1. PICK n \in 0 .. Len(log) :
            /\ log' = SubSeq(log, 1, n)
            /\ tail' \in IF n = Len(Lines) THEN {NoTail}
                        ELSE {NoTail, Garbled, Lines[n + 1]}
      BY <2>7 DEF PowerFail
    <3>2. torn' = torn + 1 /\ log' \in Seq(Line)
      BY <1>3, <2>7, PowerFailType DEF PowerFail
    <3>3. count' \in Nat /\ count' <= count
      BY <2>1, <3>1, <3>2, SpoiledFinite, SpoiledPrefix
    <3>4. part \in 0 .. 1 /\ part' \in 0 .. 1
      OBVIOUS
    <3> DEFINE a == count'
               b == part'
    <3> HIDE DEF count, part, a, b
    <3>5. a \in Nat /\ a <= count /\ b \in 0 .. 1
      BY <3>3, <3>4 DEF a, b
    <3>6. a + b <= torn + 1
      BY <2>1, <2>2, <2>3, <3>4, <3>5
    <3> QED
      BY <2>4, <3>2, <3>6 DEF a, b
  <2>8. ASSUME UNCHANGED <<log, tail, torn>> PROVE LossBounded'
    BY <1>3, <2>8 DEF LossBounded
  <2>9. \/ \E t \in Threads, e \in Entry : Logged(t, e) \/ WriteFails(t, e)
        \/ PowerFail \/ UNCHANGED <<log, tail, torn>>
    BY <1>3, EntryTypes DEF Next, Call, Put, Delete, Apply, NewKVStore, Recover,
       RecoverLine, RecoverDone, RecoverFails, Crash, vars
  <2> QED
    BY <2>5, <2>6, <2>7, <2>8, <2>9
<1> QED
  BY <1>2, <1>3, TypeCorrect, PTL DEF Spec
=============================================================================
