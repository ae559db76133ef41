------------------------------ MODULE WalKVStore ------------------------------
(***************************************************************************)
(* The write-ahead-logged key-value store of database/wal_kvstore/main.go. *)
(*                                                                         *)
(* A call of Put or Delete first appends one JSON record to wal.log and    *)
(* then, under the mutex, changes the in-memory map: between the two steps *)
(* other goroutines run, and the process may die.  NewKVStore reads        *)
(* wal.log line by line and rebuilds the map.                              *)
(*                                                                         *)
(* Data.  A record is the pair it assigns; the value of a "delete" record  *)
(* is Absent.  A line of wal.log is a record, or Garbled (json.Unmarshal   *)
(* rejects it), or Oversized (longer than bufio's scanner accepts).  The   *)
(* bytes after the last newline are `tail'.                                *)
(***************************************************************************)
EXTENDS Naturals, Sequences, FiniteSets

CONSTANTS
  Threads,       \* goroutines that call the store
  Keys, Values,  \* strings used as keys and as values
  Absent,        \* a map has no entry for the key
  TooLong,       \* values whose record exceeds bufio.MaxScanTokenSize
  WireKey,       \* what a key is after json.Marshal and json.Unmarshal
  WireValue,     \* the same of a value: invalid UTF-8 comes back as U+FFFD
  Garbled, Oversized, NoTail,
  NoEntry,       \* a goroutine is in no call
  MaxLines,      \* bound: lines of wal.log
  MaxTorn,       \* bound: writes that stop half-way
  PowerLoss      \* may a power failure drop bytes that were never fsynced?

Stored == Values \cup {Absent}
Entry  == [key : Keys, value : Stored]
Broken == {Garbled, Oversized}
Line   == Entry \cup Broken

ASSUME WalAssumption ==
  /\ Absent \notin Values
  /\ Garbled # Oversized
  /\ Broken \cap Entry = {}
  /\ NoTail \notin Line /\ NoEntry \notin Entry
  /\ TooLong \subseteq Values
  /\ MaxLines \in Nat /\ MaxTorn \in Nat /\ PowerLoss \in BOOLEAN

\* encoding/json is idempotent: what came back once comes back unchanged.
ASSUME WireAssumption ==
  /\ WireKey \in [Keys -> Keys]
  /\ WireValue \in [Stored -> Stored]
  /\ \A v \in Stored : WireValue[WireValue[v]] = WireValue[v]
  /\ \A v \in Stored : WireValue[v] = Absent <=> v = Absent

VARIABLES
  log,      \* the newline-terminated lines of wal.log
  tail,     \* the bytes after the last newline
  mode,     \* "down", "recovering" (inside NewKVStore) or "up"
  pos,      \* tokens the scanner has returned in this recovery
  store,    \* kv.store
  pending,  \* per goroutine, the record it has logged and not yet applied
  torn,     \* number of half-way writes so far
  doubt     \* history: keys on which memory and log may have parted

vars == <<log, tail, mode, pos, store, pending, torn, doubt>>

-----------------------------------------------------------------------------
(* wal.log                                                                 *)

\* The line json.Marshal(entry) makes: its key and value as a reader will
\* see them, or a line no reader can get past.
LineOf(e) == IF e.value \in TooLong
             THEN Oversized
             ELSE [key |-> WireKey[e.key], value |-> WireValue[e.value]]

\* Bytes b written after the bytes a with no newline between them: two JSON
\* texts in one line, or a broken one, never parse.
Join(a, b) == IF a = NoTail THEN b
              ELSE IF Oversized \in {a, b} THEN Oversized ELSE Garbled

\* The tokens bufio.Scanner returns: every line, and a last one that has no
\* newline.
Lines == IF tail = NoTail THEN log ELSE Append(log, tail)

OnKey(line, k) == line \in Entry /\ line.key = k

ReplayedPutsOnly(m, line) ==   \* mutant: the "delete" case is missing
  IF line \in Broken THEN m
  ELSE IF line.value = Absent THEN m
  ELSE [m EXCEPT ![line.key] = line.value]

\* One turn of recoverFromWAL's loop: a line that does not parse is skipped.
Replayed(m, line) ==
  IF line \in Broken THEN m
  ELSE [m EXCEPT ![line.key] = line.value]

\* The keys whose last record is the unterminated one.
TailKeys == {k \in Keys : tail # NoTail /\ OnKey(tail, k)}

-----------------------------------------------------------------------------
(* Put and Delete                                                          *)

Idle(t) == pending[t] = NoEntry

Overlaps(t, k) ==
  \E u \in Threads \ {t} : pending[u] # NoEntry /\ pending[u].key = k

PutEntry(k, v) == [key |-> k, value |-> v]
DeleteEntry(k) == [key |-> k, value |-> Absent]

LoggedLater(t, e) ==   \* mutant: the record is not written
  /\ mode = "up" /\ Idle(t)
  /\ pending' = [pending EXCEPT ![t] = e]
  /\ UNCHANGED <<log, tail, mode, pos, store, torn, doubt>>

LoggedNoNewline(t, e) ==   \* mutant: data is written without its '\n'
  /\ mode = "up" /\ Idle(t)
  /\ tail' = Join(tail, LineOf(e))
  /\ pending' = [pending EXCEPT ![t] = e]
  /\ UNCHANGED <<log, mode, pos, store, torn, doubt>>

\* writeToWAL succeeds: the file is open with O_APPEND, so the record and its
\* newline follow whatever bytes the file ends with.
Logged(t, e) ==
  /\ mode = "up" /\ Idle(t)
  /\ Len(log) < MaxLines
  /\ log' = Append(log, Join(tail, LineOf(e)))
  /\ tail' = NoTail
  /\ pending' = [pending EXCEPT ![t] = e]
  /\ doubt' = IF tail = NoTail /\ ~ Overlaps(t, e.key)
              THEN doubt \ {e.key}
              ELSE doubt \cup {e.key} \cup TailKeys
  /\ UNCHANGED <<mode, pos, store, torn>>

Put(t, k, v) == Logged(t, PutEntry(k, v))
Delete(t, k) == Logged(t, DeleteEntry(k))

WriteErrorIgnored(t, e) ==   \* mutant: the call goes on to change the map
  /\ mode = "up" /\ Idle(t)
  /\ torn < MaxTorn
  /\ tail' = Join(tail, Garbled)
  /\ doubt' = doubt \cup TailKeys
  /\ pending' = [pending EXCEPT ![t] = e]
  /\ torn' = torn + 1
  /\ UNCHANGED <<log, mode, pos, store>>

\* writeToWAL returns the error of a Write that stopped part-way (a full disk,
\* say): some bytes of the record, perhaps all but the newline, are in the
\* file, and the call returns without touching the map.
WriteFails(t, e) ==
  /\ mode = "up" /\ Idle(t)
  /\ torn < MaxTorn
  /\ \E bytes \in {Garbled, LineOf(e)} :
        /\ tail' = Join(tail, bytes)
        /\ doubt' = doubt \cup TailKeys
                          \cup (IF tail' \in Entry THEN {e.key} ELSE {})
  /\ torn' = torn + 1
  /\ UNCHANGED <<log, mode, pos, store, pending>>

\* The critical section of Put and of Delete, one step because kv.mu makes it
\* one; the call returns.
Apply(t) ==
  /\ mode = "up" /\ ~ Idle(t)
  /\ store' = [store EXCEPT ![pending[t].key] = pending[t].value]
  /\ pending' = [pending EXCEPT ![t] = NoEntry]
  /\ UNCHANGED <<log, tail, mode, pos, torn, doubt>>

-----------------------------------------------------------------------------
(* Start, recovery, end                                                    *)

Empty == [k \in Keys |-> Absent]

NewKVStoreTruncates ==   \* mutant: os.O_TRUNC
  /\ mode = "down"
  /\ mode' = "recovering"
  /\ log' = <<>> /\ tail' = NoTail
  /\ pos' = 0
  /\ store' = Empty
  /\ doubt' = {}
  /\ UNCHANGED <<pending, torn>>

\* NewKVStore opens wal.log, makes an empty map and seeks to the start.
NewKVStore ==
  /\ mode = "down"
  /\ mode' = "recovering"
  /\ pos' = 0
  /\ store' = Empty
  /\ doubt' = {}
  /\ UNCHANGED <<log, tail, pending, torn>>

RecoverLineSkips ==   \* mutant: a second Scan() in the loop
  /\ mode = "recovering"
  /\ pos < Len(Lines)
  /\ Lines[pos + 1] # Oversized
  /\ store' = Replayed(store, Lines[pos + 1])
  /\ pos' = pos + 2
  /\ UNCHANGED <<log, tail, mode, pending, torn, doubt>>

RecoverLine ==
  /\ mode = "recovering"
  /\ pos < Len(Lines)
  /\ Lines[pos + 1] # Oversized
  /\ store' = Replayed(store, Lines[pos + 1])
  /\ pos' = pos + 1
  /\ UNCHANGED <<log, tail, mode, pending, torn, doubt>>

\* scanner.Err() is nil: NewKVStore returns the store.
RecoverDone ==
  /\ mode = "recovering"
  /\ pos = Len(Lines)
  /\ mode' = "up"
  /\ UNCHANGED <<log, tail, pos, store, pending, torn, doubt>>

\* The process ends, cleanly or not, at any point: memory is gone.
Die ==
  /\ mode # "down"
  /\ mode' = "down"
  /\ store' = Empty
  /\ pos' = 0
  /\ pending' = [t \in Threads |-> NoEntry]
  /\ doubt' = {}

Crash == Die /\ UNCHANGED <<log, tail, torn>>

ScanErrorIgnored ==   \* mutant: `return nil' in place of scanner.Err()
  /\ mode = "recovering"
  /\ pos < Len(Lines)
  /\ Lines[pos + 1] = Oversized
  /\ mode' = "up"
  /\ UNCHANGED <<log, tail, pos, store, pending, torn, doubt>>

ScanErrorRetried ==   \* mutant: the loop goes on at the same line
  /\ mode = "recovering"
  /\ pos < Len(Lines)
  /\ Lines[pos + 1] = Oversized
  /\ UNCHANGED vars

\* scanner.Err() is bufio.ErrTooLong: NewKVStore returns the error and main
\* ends.
RecoverFails ==
  /\ mode = "recovering"
  /\ pos < Len(Lines)
  /\ Lines[pos + 1] = Oversized
  /\ Die
  /\ UNCHANGED <<log, tail, torn>>

\* The machine loses power: no Write was followed by a Sync, so any suffix of
\* the file may be missing, the cut falling anywhere in a line or just before
\* its newline.
PowerFail ==
  /\ PowerLoss
  /\ Die
  /\ torn < MaxTorn
  /\ \E n \in 0 .. Len(log) :
        /\ log' = SubSeq(log, 1, n)
        /\ tail' \in IF n = Len(Lines) THEN {NoTail}
                    ELSE {NoTail, Garbled, Lines[n + 1]}
  /\ torn' = torn + 1

-----------------------------------------------------------------------------
Init ==
  /\ log = <<>> /\ tail = NoTail
  /\ mode = "down" /\ pos = 0
  /\ store = Empty
  /\ pending = [t \in Threads |-> NoEntry]
  /\ torn = 0 /\ doubt = {}

Call(t) ==
  \E k \in Keys :
    \/ Delete(t, k) \/ WriteFails(t, DeleteEntry(k))
    \/ \E v \in Values : Put(t, k, v) \/ WriteFails(t, PutEntry(k, v))

Recover == RecoverLine \/ RecoverDone \/ RecoverFails

Next ==
  \/ \E t \in Threads : Call(t) \/ Apply(t)
  \/ NewKVStore \/ Recover
  \/ Crash \/ PowerFail

Spec == Init /\ [][Next]_vars

\* A started recovery goes on, and a goroutine that waits for kv.mu gets it
\* (sync.Mutex is starvation free).  Nothing makes anyone call or restart.
FairSpec == /\ Spec
            /\ WF_vars(Recover)
            /\ \A t \in Threads : WF_vars(Apply(t))

-----------------------------------------------------------------------------
(* Properties                                                              *)

TypeOK ==
  /\ log \in Seq(Line)
  /\ tail \in Line \cup {NoTail}
  /\ mode \in {"down", "recovering", "up"}
  /\ pos \in 0 .. Len(Lines)
  /\ store \in [Keys -> Stored]
  /\ pending \in [Threads -> Entry \cup {NoEntry}]
  /\ torn \in Nat
  /\ doubt \subseteq Keys

\* The first n of `lines', replayed into an empty map, leave v under k: the
\* last of them on k assigns v, or none is on k and v is Absent.
Determines(lines, n, k, v) ==
  \/ /\ v = Absent
     /\ \A i \in 1 .. n : ~ OnKey(lines[i], k)
  \/ \E i \in 1 .. n :
       /\ OnKey(lines[i], k) /\ lines[i].value = v
       /\ \A j \in i + 1 .. n : ~ OnKey(lines[j], k)

\* What a restart would make of wal.log.
LogMap == [k \in Keys |-> CHOOSE x \in Stored :
                           Determines(Lines, Len(Lines), k, x)]

LogIsMap == INSTANCE KeyValueMap WITH map <- LogMap

\* wal.log is a map that puts and deletes change atomically and durably and
\* nothing else does, whatever calls, crashes and recoveries come between
\* (lines 39-97): the append of line 95 is where a call takes effect.
LogImplementsMap == LogIsMap!Spec

\* recoverFromWAL's loop (lines 46-58): at every turn, in a first recovery or
\* in one after a crash in the middle of another, the map is what the lines
\* read so far say and holds nothing of an earlier life.
RecoveredPrefix ==
  mode = "recovering" => \A k \in Keys : Determines(Lines, pos, k, store[k])

Readable == \A i \in 1 .. Len(Lines) : Lines[i] # Oversized

\* k is the only key that reads back as k.
Faithful(k) == \A j \in Keys : WireKey[j] = k <=> j = k

Settled(k) == \A t \in Threads : pending[t] # NoEntry => pending[t].key # k

\* Lines 62-97 against lines 39-60: while the log can be read, restarting now
\* would give every key that no call is in the middle of changing the value it
\* has in memory, up to the JSON round trip.  Excepted are `doubt', the keys
\* that two calls were changing at once (the log has one order, the mutex may
\* have had the other) or whose record met the bytes of a half-way write, and
\* keys that another key is encoded like.
MemoryMatchesLog ==
  mode = "up" /\ Readable =>
    \A k \in Keys \ doubt :
      Faithful(k) /\ Settled(k)
        => Determines(Lines, Len(Lines), k, WireValue[store[k]])

\* The cost of half-way writes: each spoils at most one line, its own or the
\* one the next record makes with its bytes, whatever crashes, recoveries and
\* calls come between (line 95 ends every record it writes with a newline).
LossBounded ==
  Cardinality({i \in 1 .. Len(log) : log[i] = Garbled})
    + (IF tail = NoTail THEN 0 ELSE 1) <= torn

\* A call that goes from logging to its return without a crash changes one
\* key, and a reader of wal.log finds the record that did ("writeToWAL logs
\* the operation before applying", line 88).
LoggedBeforeApplied ==
  [][\A k \in Keys :
       mode = "up" /\ mode' = "up" /\ store'[k] # store[k]
         => LET e == [key |-> k, value |-> store'[k]] IN
            \E i \in 1 .. Len(log) : log[i] = LineOf(e)]_vars

\* NewKVStore (lines 32-36, 59) never hands out a map made from a part of the
\* log: it succeeds only when every line was read.
UpOnlyWhenAllRead ==
  [][mode = "recovering" /\ mode' = "up"
       => Readable /\ \A k \in Keys :
                        Determines(Lines, Len(Lines), k, store'[k])]_vars

\* Every recovery ends, with a store or with an error (line 46's loop), also
\* when the log cannot be read to its end.
RecoveryEnds == mode = "recovering" ~> mode # "recovering"

-----------------------------------------------------------------------------
(* The inductive invariant of which the invariants above are parts         *)

\* Nobody is in a call before recovery has ended.
QuietUntilUp == mode # "up" => \A t \in Threads : Idle(t)

\* Recovery does not get past a line it cannot read.
ReadSoFar == mode = "recovering" => \A i \in 1 .. pos : Lines[i] # Oversized

\* What is in the file has been encoded once and reads back unchanged.
WireClosed == \A i \in 1 .. Len(Lines) :
                 Lines[i] \in Entry => WireValue[Lines[i].value] = Lines[i].value

\* No two calls are changing k; the value that k has, or will have when the
\* call that is changing it is through, is the one a reader of the log finds.
InStep(k) ==
  /\ \A t, u \in Threads :
       ~ Idle(t) /\ ~ Idle(u) /\ pending[t].key = k /\ pending[u].key = k => t = u
  /\ \A t \in Threads :
       ~ Idle(t) /\ pending[t].key = k
         => Determines(Lines, Len(Lines), k, WireValue[pending[t].value])
  /\ Settled(k) => Determines(Lines, Len(Lines), k, WireValue[store[k]])

MemoryInStep ==
  mode = "up" /\ Readable => \A k \in Keys \ doubt : Faithful(k) => InStep(k)

IInv == /\ TypeOK /\ QuietUntilUp /\ RecoveredPrefix /\ ReadSoFar
        /\ WireClosed /\ MemoryInStep
=============================================================================
