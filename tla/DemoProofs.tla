------------------------------ MODULE DemoProofs ------------------------------
(***************************************************************************)
(* Proofs about the small programs: ThreadDemos, for any number of rounds  *)
(* and any size of the buffer; BloomFilter, for every set of items, every  *)
(* hash function and every size; and LoxScanner, for sources of any length *)
(* over any characters.                                                    *)
(*                                                                         *)
(* No two threads ever wait for each other.  A thread owns at most the     *)
(* mutexes that its place in the program allows; where two mutexes are     *)
(* taken, a thread that blocks for its first owns none, and one that       *)
(* blocks for its second (only in dead_lock.cpp) owns m1 and waits for m2. *)
(*                                                                         *)
(* No increment, item or amount is lost, and a critical section's          *)
(* increments stay together.  What a thread has read of its counter is     *)
(* there until it writes, because it holds the counter's mutex.            *)
(*                                                                         *)
(* An item that was added to the Bloom filter is found: no call clears a   *)
(* bit, and the hashes of an item do not change.                           *)
(*                                                                         *)
(* The scanner takes the longest lexeme at every place of every source,    *)
(* or there is none and it reports an error.  The words of the grammar are *)
(* said of positions first; then each branch of scanToken is compared with *)
(* them; and the invariant of the loop collects what the turns have done.  *)
(***************************************************************************)
EXTENDS ThreadDemos, BloomFilter, LoxScanner, SubsequencesProofs, SequenceTheorems,
  FiniteSetTheorems

\* What a thread of dead_lock.cpp or lock_in_cpp.cpp may own.
PairHolds(t, m) ==
  \/ pc[t] = "second" /\ m = LockOrder(t)[1]
  \/ pc[t] = "unlock1"
  \/ pc[t] = "unlock2" /\ m = UnlockOrder(t)[2]

\* ... and one of any program: incrementXY's threads lock one mutex each.
MayHold(t, m) ==
  /\ Pairing => PairHolds(t, m)
  /\ demo = "try_lock_std" /\ t # "t3" => m = MutexOf(t)

HasPlaces == pc = [t \in Threads |-> pc[t]]

LocksTyped ==
  /\ HasPlaces /\ owner \in [Mutexes -> Threads \cup {Free}]

OwnersRight == \A t \in Threads : \A m \in Mutexes : owner[m] = t => MayHold(t, m)

LocksInv == LocksTyped /\ OwnersRight

\* At the start nobody owns a mutex.
LEMMA LocksInitially == Init => LocksInv
<1> SUFFICES ASSUME Init PROVE LocksInv OBVIOUS
<1>1. ASSUME NEW first, NEW second, NEW third, Start(first, second, third)
      PROVE  HasPlaces
  BY <1>1 DEF Start, Each, HasPlaces
<1>2. HasPlaces
  BY <1>1 DEF Init, mutex, thread_sync, timed_mutex, try_lock_mutex, lock_guard,
              unique_lock, recursive_mutex, try_lock_std, dead_lock, lock_in_cpp,
              producer_consumer, condition_variable
<1>3. owner = [m \in Mutexes |-> Free] BY DEF Init
<1>4. Free \notin Threads BY DEF Free, Threads
<1> QED BY <1>2, <1>3, <1>4 DEF LocksInv, LocksTyped, OwnersRight

\* A step that leaves the mutexes alone and moves a thread between places at which
\* a thread of the two-mutex programs owns none.
Plain == {"second", "unlock1", "unlock2"}

LEMMA PlainStep ==
  ASSUME LocksInv, UNCHANGED <<demo, owner>>, HasPlaces',
         \A t \in Threads : pc'[t] = pc[t] \/ ~ Pairing \/ pc[t] \notin Plain
  PROVE  LocksInv'
<1>1. LocksTyped' BY DEF LocksInv, LocksTyped
<1>2. ASSUME NEW t \in Threads, NEW m \in Mutexes, owner'[m] = t
      PROVE  MayHold(t, m)'
  <2>1. owner[m] = t /\ MayHold(t, m) BY <1>2 DEF LocksInv, OwnersRight
  <2>2. Pairing' = Pairing /\ MutexOf(t)' = MutexOf(t) /\ LockOrder(t)' = LockOrder(t)
    BY DEF Pairing, MutexOf, LockOrder
  <2>3. CASE pc'[t] = pc[t]
    BY <2>1, <2>2, <2>3 DEF MayHold, PairHolds, UnlockOrder
  <2>4. CASE ~ Pairing
    BY <2>1, <2>2, <2>4 DEF MayHold
  <2>5. CASE Pairing /\ pc[t] \notin Plain
    <3>1. ~ PairHolds(t, m) BY <2>5 DEF PairHolds, Plain
    <3> QED BY <2>1, <2>5, <3>1 DEF MayHold
  <2> QED BY <2>3, <2>4, <2>5
<1> QED BY <1>1, <1>2 DEF LocksInv, OwnersRight

\* A step of the programs with one mutex at a time, or of consumeXY: a thread takes
\* or gives back a mutex that it may own anywhere.
LEMMA SingleStep ==
  ASSUME LocksInv, ~ Pairing, UNCHANGED demo, HasPlaces',
         NEW t \in Threads, NEW m \in Mutexes, MayHold(t, m),
         Lock(t, m) \/ Unlock(m) \/ UNCHANGED owner
  PROVE  LocksInv'
<1>1. Pairing' = Pairing BY DEF Pairing
<1>2. LocksTyped' BY DEF LocksInv, LocksTyped, Lock, Unlock, Free
<1>3. \A s \in Threads : \A n \in Mutexes : MayHold(s, n)' <=> MayHold(s, n)
  BY <1>1 DEF MayHold, MutexOf
<1>4. Free \notin Threads BY DEF Free, Threads
<1> QED BY <1>1, <1>2, <1>3, <1>4 DEF LocksInv, LocksTyped, OwnersRight, Lock, Unlock

\* The steps of the programs with two mutexes.
LEMMA PairingStep ==
  ASSUME LocksInv, NEW t \in Threads,
         lock_first(t) \/ lock_second(t) \/ unlock_both(t)
  PROVE  LocksInv'
<1> USE DEF LocksInv, LocksTyped, HasPlaces, Lock, Unlock, Goto
<1>1. Pairing /\ Pairing' /\ demo' = demo /\ demo # "try_lock_std"
  BY DEF Pairing, lock_first, lock_second, unlock_both
<1>2. LockOrder(t)' = LockOrder(t) /\ LockOrder(t) \in {<<"m1", "m2">>, <<"m2", "m1">>}
  BY <1>1 DEF LockOrder
<1>3. UnlockOrder(t) \in {<<"m1", "m2">>, <<"m2", "m1">>} BY DEF UnlockOrder
<1>4. LocksTyped'
  BY <1>2, <1>3 DEF lock_first, lock_second, unlock_both, Mutexes
<1>5. ASSUME NEW s \in Threads, NEW m \in Mutexes, owner'[m] = s
      PROVE  PairHolds(s, m)'
  <2>1. CASE s # t
    <3>1. owner[m] = s /\ pc'[s] = pc[s] /\ LockOrder(s)' = LockOrder(s)
      BY <1>1, <1>2, <1>3, <1>5, <2>1
         DEF lock_first, lock_second, unlock_both, Mutexes, LockOrder, Free, Threads
    <3>2. PairHolds(s, m) BY <1>1, <3>1 DEF OwnersRight, MayHold
    <3> QED BY <3>1, <3>2 DEF PairHolds, UnlockOrder
  <2>2. CASE s = t
    <3>1. owner[m] = t => PairHolds(t, m) BY <1>1 DEF OwnersRight, MayHold
    <3>2. CASE lock_first(t)
      BY <1>2, <1>5, <2>2, <3>1, <3>2 DEF lock_first, PairHolds, Mutexes
    <3>3. CASE lock_second(t)
      BY <1>2, <1>5, <2>2, <3>1, <3>3
         DEF lock_second, PairHolds, Mutexes, Free, Threads
    <3>4. CASE unlock_both(t)
      BY <1>3, <1>5, <2>2, <3>1, <3>4
         DEF unlock_both, PairHolds, Mutexes, Free, Threads, UnlockOrder
    <3> QED BY <3>2, <3>3, <3>4
  <2> QED BY <2>1, <2>2
<1> QED BY <1>1, <1>4, <1>5 DEF OwnersRight, MayHold

\* Every step keeps the invariant.
LEMMA LocksInductive == LocksInv /\ [Next]_vars => LocksInv'
<1> SUFFICES ASSUME LocksInv, [Next]_vars PROVE LocksInv' OBVIOUS
<1>0. HasPlaces BY DEF LocksInv, LocksTyped
<1>1. CASE UNCHANGED vars BY <1>0, <1>1, PlainStep DEF vars, HasPlaces
<1>2. ASSUME NEW t \in Threads, Thread(t) PROVE LocksInv'
  <2> USE DEF Goto, Threads, Mutexes, HasPlaces
  <2>1. CASE lock(t)
    <3>1. ~ Pairing BY <2>1 DEF lock, Increments, Counting, Pairing, LockInLoop, LockAroundLoop
    <3>2. MutexOf(t) \in Mutexes /\ MayHold(t, MutexOf(t)) BY <3>1 DEF MutexOf, MayHold
    <3> QED BY <1>0, <2>1, <3>1, <3>2, SingleStep DEF lock
  <2>2. CASE timeout(t) BY <1>0, <2>2, PlainStep DEF timeout, Plain
  <2>3. CASE read(t) BY <1>0, <2>3, PlainStep DEF read, Plain
  <2>4. CASE write(t)
    <3>1. HasPlaces'
      <4>1. \E label : pc' = [pc EXCEPT ![t] = label] BY <2>4, Zenon DEF write
      <4> QED BY <1>0, <4>1
    <3>2. \A s \in Threads : pc'[s] = pc[s] \/ pc[s] \notin Plain
      BY <1>0, <2>4 DEF write, Plain
    <3> QED BY <2>4, <3>1, <3>2, PlainStep DEF write
  <2>5. CASE unlock(t)
    <3>1. ~ Pairing BY <2>5 DEF unlock, Increments, Counting, Pairing, LockInLoop, LockAroundLoop
    <3>2. MutexOf(t) \in Mutexes /\ MayHold(t, MutexOf(t)) BY <3>1 DEF MutexOf, MayHold
    <3>3. HasPlaces'
      <4>1. \E label : pc' = [pc EXCEPT ![t] = label] BY <2>5, Zenon DEF unlock
      <4> QED BY <1>0, <4>1
    <3>4. Unlock(MutexOf(t)) \/ UNCHANGED owner BY <2>5 DEF unlock
    <3> QED BY <2>5, <3>1, <3>2, <3>3, <3>4, SingleStep DEF unlock
  <2>6. CASE lock_first(t) \/ lock_second(t) \/ unlock_both(t) BY <2>6, PairingStep
  <2>7. CASE producer \/ producer_notify \/ withdrowMoney
             \/ consumer_take \/ consumer_notify \/ addMoney
    <3>1. UNCHANGED <<demo, owner>>
      BY <2>7 DEF producer, producer_notify, withdrowMoney, consumer_take,
                  consumer_notify, addMoney, Sleep
    <3>2. HasPlaces'
      BY <1>0, <2>7 DEF producer, producer_notify, withdrowMoney, consumer_take,
                        consumer_notify, addMoney, Sleep
    <3>3. \A s \in Threads : pc'[s] = pc[s] \/ pc[s] \notin Plain
      BY <1>0, <2>7 DEF producer, producer_notify, withdrowMoney, consumer_take,
                        consumer_notify, addMoney, Sleep, Running, Plain
    <3> QED BY <3>1, <3>2, <3>3, PlainStep
  <2>8. CASE try_first \/ try_second \/ consumeXY \/ consumeXYUnlock
    <3>1. ~ Pairing /\ UNCHANGED demo
      BY <2>8 DEF try_first, try_second, consumeXY, consumeXYUnlock, consumer, Pairing
    <3>2. MayHold("t3", "m1") /\ MayHold("t3", "m2") BY <3>1 DEF MayHold
    <3>3. HasPlaces'
      BY <1>0, <2>8 DEF try_first, try_second, consumeXY, consumeXYUnlock
    <3>4. \E m \in Mutexes : Lock("t3", m) \/ Unlock(m) \/ UNCHANGED owner
      BY <2>8 DEF try_first, try_second, consumeXY, consumeXYUnlock
    <3> QED BY <3>1, <3>2, <3>3, <3>4, SingleStep
  <2> QED BY <1>2, <2>1, <2>2, <2>3, <2>4, <2>5, <2>6, <2>7, <2>8 DEF Thread
<1>3. ASSUME NEW t \in Threads, wakeup(t) PROVE LocksInv'
  BY <1>0, <1>3, PlainStep DEF wakeup, HasPlaces
<1> QED BY <1>1, <1>2, <1>3 DEF Next

\* What a thread may own and what it blocks for leave no circle of two.
LEMMA NoCircle == LocksInv => NoCircularWait
<1> SUFFICES ASSUME LocksInv, NEW t \in Threads, NEW other \in Threads,
                    WaitsFor(t, other), WaitsFor(other, t)
             PROVE  FALSE
  BY DEF NoCircularWait
<1>1. PICK m \in BlocksOn(t) : owner[m] = other BY DEF WaitsFor
<1>2. PICK n \in BlocksOn(other) : owner[n] = t BY DEF WaitsFor
<1>3. t # other /\ m \in Mutexes /\ n \in Mutexes BY DEF WaitsFor, BlocksOn
<1>4. MayHold(other, m) /\ MayHold(t, n)
  BY <1>1, <1>2, <1>3 DEF LocksInv, OwnersRight
<1>5. CASE Pairing
  <2>1. PairHolds(other, m) /\ PairHolds(t, n) BY <1>4, <1>5 DEF MayHold
  <2>2. ~ Increments(t) /\ ~ Increments(other)
    BY <1>5 DEF Pairing, Increments, Counting, LockInLoop, LockAroundLoop
  <2>3. /\ demo = "dead_lock" /\ m = LockOrder(t)[2] /\ m = LockOrder(other)[1]
    BY <2>1, <2>2 DEF BlocksOn, PairHolds
  <2> QED BY <2>3 DEF LockOrder
<1>6. CASE ~ Pairing
  <2>1. /\ Increments(t) /\ m = MutexOf(t)
        /\ Increments(other) /\ n = MutexOf(other)
    BY <1>6 DEF BlocksOn, Pairing
  <2>2. MutexOf(t) # MutexOf(other) BY <1>1, <1>2, <1>3, <2>1
  <2>3. demo = "try_lock_std" BY <2>2 DEF MutexOf
  <2>4. other # "t3"
    BY <2>1, <2>3 DEF Increments, Counting, LockInLoop, LockAroundLoop
  <2>5. m = MutexOf(other) BY <1>4, <2>3, <2>4 DEF MayHold
  <2> QED BY <2>1, <2>2, <2>5
<1> QED BY <1>5, <1>6

\* No two threads wait for each other's mutex, in any of the programs
\* (dead_lock.cpp:6, lock_in_cpp.cpp:5).
THEOREM NoCircularWaitHolds == Spec => []NoCircularWait
<1>1. Init => LocksInv BY LocksInitially
<1>2. LocksInv /\ [Next]_vars => LocksInv' BY LocksInductive
<1>3. LocksInv => NoCircularWait BY NoCircle
<1> QED BY <1>1, <1>2, <1>3, PTL DEF Spec
-----------------------------------------------------------------------------
(* The invariant of the counters                                           *)

Typed ==
  /\ demo \in Demos /\ pc \in [Threads -> Labels]
  /\ owner \in [Mutexes -> Threads \cup {Free}] /\ depth \in Nat
  /\ asleep \subseteq Threads /\ k \in [Threads -> Nat] /\ tmp \in [Threads -> Nat]
  /\ val \in [{"X", "Y"} -> Nat]
  /\ buffer \in Seq(Nat) /\ Len(buffer) <= maxBufferSize /\ total \in Nat
  /\ log \in Seq(Threads \cup Nat)

\* The places of the threads of each program.
PlacesRight ==
  /\ demo # "try_lock_std" => pc["t3"] = "off"
  /\ demo = "try_lock_std" =>
       pc["t3"] \in {"spin", "try", "use", "unlock1", "unlock2", "done"}
  /\ \A t \in {"t1", "t2"} :
       /\ demo \in Counting \/ demo = "try_lock_std" =>
            pc[t] \in {"lock", "read", "write", "unlock", "done"}
       /\ Pairing => pc[t] \in {"first", "second", "unlock1", "unlock2", "done"}
  /\ demo = "producer_consumer" => /\ pc["t1"] \in {"produce", "notify", "done"}
                                   /\ pc["t2"] \in {"consume", "notify"}
  /\ demo = "condition_variable" => /\ pc["t1"] \in {"withdraw", "done"}
                                    /\ pc["t2"] \in {"add", "done"}

\* A thread in its critical section has the mutexes it takes.
HoldersRight ==
  /\ \A t \in Threads : pc[t] \in {"read", "write", "unlock"} => owner[MutexOf(t)] = t
  /\ demo = "try_lock_std" =>
       /\ pc["t3"] \in {"try", "use", "unlock1"} => owner["m1"] = "t3"
       /\ pc["t3"] \in {"use", "unlock1", "unlock2"} => owner["m2"] = "t3"

\* What a thread has read of its counter is still there when it writes, and it has
\* something left to do; the arguments of the programs.
CountsRight ==
  /\ \A t \in Threads :
       /\ pc[t] \in {"lock", "read", "write", "spin", "try", "use"} => k[t] # 0
       /\ pc[t] = "write" => tmp[t] = val[CounterOf(t)]
  /\ demo = "condition_variable" => k["t1"] = 600 /\ k["t2"] = 500
  /\ demo = "producer_consumer" => k["t1"] <= Rounds

\* The recursive mutex is held once for each call that has not returned.
DepthRight ==
  /\ demo # "recursive_mutex" => depth = 0
  /\ demo = "recursive_mutex" =>
       /\ owner["m1"] # "t3" /\ (owner["m1"] = Free => depth = 0)
       /\ \A t \in {"t1", "t2"} :
            /\ owner["m1"] = t =>
                 /\ pc[t] \in {"lock", "read", "write", "unlock"}
                 /\ pc[t] = "lock" => depth + k[t] = Rounds
                 /\ pc[t] \in {"read", "write"} => depth + k[t] = Rounds + 1
                 /\ pc[t] = "unlock" => depth \in 1 .. Rounds
            /\ owner["m1"] # t /\ pc[t] = "lock" => k[t] = Rounds

Whole == LockAroundLoop \cup {"recursive_mutex"}

\* A thread that holds the mutex around all its increments has made the last ones;
\* one that has yet to take the mutex has made none.
SectionsRight ==
  demo \in Whole =>
    \A t \in {"t1", "t2"} :
      /\ pc[t] = "unlock" => k[t] = 0
      /\ pc[t] = "lock" /\ owner["m1"] # t => \A n \in 1 .. Len(log) : log[n] # t
      /\ owner["m1"] = t =>
           \A n \in 1 .. Len(log) : log[n] = t =>
             \A m \in 1 .. Len(log) : n <= m => log[m] = t

CountsInv == /\ Typed /\ PlacesRight /\ HoldersRight /\ CountsRight /\ DepthRight
             /\ SectionsRight /\ SectionsWhole /\ NothingLost

LEMMA DemosAre ==
  /\ Counting = {"try_lock_mutex", "mutex", "thread_sync", "lock_guard", "unique_lock",
                 "recursive_mutex", "timed_mutex"}
  /\ Whole = {"lock_guard", "unique_lock", "recursive_mutex"}
  /\ Threads = {"t1", "t2", "t3"} /\ Mutexes = {"m1", "m2"} /\ Free = "none"
  /\ Whole \subseteq Counting
  /\ Pairing <=> demo \in {"dead_lock", "lock_in_cpp"}
BY DEF Counting, Whole, LockInLoop, LockAroundLoop, Threads, Mutexes, Free, Pairing

\* The places and arguments that the threads of a program start with.
Starts(programs, first, second, third, arg1, arg2, arg3) ==
  /\ demo \in programs
  /\ pc = Each(first, second, third) /\ k = Each(arg1, arg2, arg3)
  /\ pc["t1"] = first /\ pc["t2"] = second /\ pc["t3"] = third
  /\ k["t1"] = arg1 /\ k["t2"] = arg2 /\ k["t3"] = arg3

LEMMA Started ==
  ASSUME NEW program, demo = program,
         NEW first, NEW second, NEW third, NEW arg1, NEW arg2, NEW arg3,
         Start(first, second, third), Args(arg1, arg2, arg3)
  PROVE  Starts({program}, first, second, third, arg1, arg2, arg3)
BY DEF Start, Args, Starts, Each, Threads

LEMMA Programs ==
  ASSUME Init
  PROVE  \/ Starts({"mutex", "thread_sync", "timed_mutex"}, "lock", "lock", "off", 1, 1, 0)
         \/ Starts({"try_lock_mutex", "lock_guard", "unique_lock", "recursive_mutex"},
                   "lock", "lock", "off", Rounds, Rounds, 0)
         \/ Starts({"try_lock_std"}, "lock", "lock", "spin", Rounds, Rounds, useCountStart)
         \/ Starts({"dead_lock", "lock_in_cpp"}, "first", "first", "off", 0, 0, 0)
         \/ Starts({"producer_consumer"}, "produce", "consume", "off", Rounds, 0, 0)
         \/ Starts({"condition_variable"}, "withdraw", "add", "off", 600, 500, 0)
<1>1. mutex \/ thread_sync \/ timed_mutex =>
        Starts({"mutex", "thread_sync", "timed_mutex"}, "lock", "lock", "off", 1, 1, 0)
  BY Started DEF mutex, thread_sync, timed_mutex, Starts
<1>2. try_lock_mutex \/ lock_guard \/ unique_lock \/ recursive_mutex =>
        Starts({"try_lock_mutex", "lock_guard", "unique_lock", "recursive_mutex"},
               "lock", "lock", "off", Rounds, Rounds, 0)
  BY Started DEF try_lock_mutex, lock_guard, unique_lock, recursive_mutex, Starts
<1>3. try_lock_std =>
        Starts({"try_lock_std"}, "lock", "lock", "spin", Rounds, Rounds, useCountStart)
  BY Started DEF try_lock_std
<1>4. dead_lock \/ lock_in_cpp =>
        Starts({"dead_lock", "lock_in_cpp"}, "first", "first", "off", 0, 0, 0)
  BY Started DEF dead_lock, lock_in_cpp, Starts
<1>5. producer_consumer =>
        Starts({"producer_consumer"}, "produce", "consume", "off", Rounds, 0, 0)
  BY Started DEF producer_consumer
<1>6. condition_variable =>
        Starts({"condition_variable"}, "withdraw", "add", "off", 600, 500, 0)
  BY Started DEF condition_variable
<1> QED
  BY <1>1, <1>2, <1>3, <1>4, <1>5, <1>6 DEF Init

LEMMA CountsInitially == Init => CountsInv
<1> SUFFICES ASSUME Init PROVE CountsInv
  OBVIOUS
<1>1. /\ tmp \in [Threads -> Nat] /\ val \in [{"X", "Y"} -> Nat]
      /\ owner \in [Mutexes -> Threads \cup {Free}] /\ owner["m1"] = Free
      /\ val["X"] = 0 /\ val["Y"] = 0
  BY DEF Init, Mutexes
<1>2. /\ asleep = {} /\ depth = 0 /\ total = 0
      /\ log = <<>> /\ Len(log) = 0 /\ buffer = <<>> /\ Len(buffer) = 0
  BY DEF Init
<1>3. Rounds \in Nat /\ Rounds # 0 /\ useCountStart \in Nat /\ useCountStart # 0
      /\ maxBufferSize \in Nat
  BY DemosAssumption
<1>4. demo \in Demos /\ pc \in [Threads -> Labels] /\ k \in [Threads -> Nat]
  <2>1. ASSUME NEW programs \in SUBSET Demos,
               NEW first \in Labels, NEW second \in Labels, NEW third \in Labels,
               NEW arg1 \in Nat, NEW arg2 \in Nat, NEW arg3 \in Nat,
               Starts(programs, first, second, third, arg1, arg2, arg3)
        PROVE  demo \in Demos /\ pc \in [Threads -> Labels] /\ k \in [Threads -> Nat]
    <3>1. pc = Each(first, second, third) /\ k = Each(arg1, arg2, arg3) /\ demo \in Demos
      BY <2>1 DEF Starts
    <3> QED
      BY <3>1 DEF Each
  <2>2. /\ "lock" \in Labels /\ "off" \in Labels /\ "spin" \in Labels
        /\ "first" \in Labels /\ "produce" \in Labels /\ "consume" \in Labels
        /\ "withdraw" \in Labels /\ "add" \in Labels
        /\ 0 \in Nat /\ 1 \in Nat /\ 500 \in Nat /\ 600 \in Nat
    BY DEF Labels
  <2>3. /\ {"mutex", "thread_sync", "timed_mutex"} \in SUBSET Demos
        /\ {"try_lock_mutex", "lock_guard", "unique_lock", "recursive_mutex"} \in SUBSET Demos
        /\ {"try_lock_std"} \in SUBSET Demos /\ {"dead_lock", "lock_in_cpp"} \in SUBSET Demos
        /\ {"producer_consumer"} \in SUBSET Demos /\ {"condition_variable"} \in SUBSET Demos
    BY DemosAre DEF Demos
  <2>4. Rounds \in Nat /\ useCountStart \in Nat
    BY <1>3
  <2> QED
    BY <2>1, <2>2, <2>3, <2>4, Programs, ZenonT(60)
<1>5. Typed
  BY <1>1, <1>2, <1>3, <1>4 DEF Typed
<1>6. PlacesRight
  BY Programs, DemosAre DEF Starts, PlacesRight
<1>7. \A t \in Threads : pc[t] \in {"lock", "spin", "first", "produce", "consume",
                                    "withdraw", "add", "off"}
  BY Programs, DemosAre DEF Starts
<1>8. HoldersRight
  BY <1>7, DemosAre DEF HoldersRight
<1>9. CountsRight
  BY <1>3, <1>7, Programs, DemosAre DEF CountsRight, Starts
<1>10. DepthRight
  BY <1>1, <1>2, Programs, DemosAre DEF DepthRight, Starts
<1>11. SectionsRight /\ SectionsWhole
  BY <1>1, <1>2, <1>7, DemosAre DEF SectionsRight, SectionsWhole
<1>12. NothingLost
  <2>1. \A t \in Threads : Times(t) = 0
    BY <1>2, KeepEmpty DEF Times
  <2>2. Range(buffer) = {} /\ Range(log) = {}
    BY <1>2 DEF Range
  <2>3. AmountOf("t1") \in Nat /\ AmountOf("t2") \in Nat
    BY DEF AmountOf
  <2>4. demo \in Counting => val["X"] = AmountOf("t1") * Times("t1")
                                        + AmountOf("t2") * Times("t2")
    BY <1>1, <2>1, <2>3, DemosAre
  <2>5. demo = "producer_consumer" => k["t1"] = Rounds
    BY Programs DEF Starts
  <2>6. demo = "condition_variable" => pc["t2"] # "done"
    BY <1>7, DemosAre
  <2> QED
    BY <1>1, <1>2, <1>3, <2>2, <2>4, <2>5, <2>6 DEF NothingLost
<1> QED
  BY <1>5, <1>6, <1>8, <1>9, <1>10, <1>11, <1>12 DEF CountsInv
\* A thread that goes to sleep or wakes, and a step of no thread at all.
LEMMA SleepingKeeps ==
  ASSUME CountsInv, asleep' \subseteq Threads,
         UNCHANGED <<demo, pc, owner, depth, k, tmp, val, buffer, total, log>>
  PROVE  CountsInv'
<1>1. Typed'
  BY DEF CountsInv, Typed
<1>2. PlacesRight' /\ HoldersRight' /\ CountsRight' /\ DepthRight' /\ SectionsRight'
  BY DEF CountsInv, PlacesRight, HoldersRight, CountsRight, DepthRight, SectionsRight,
         Pairing, MutexOf, CounterOf
<1>3. SectionsWhole' /\ NothingLost'
  BY DEF CountsInv, SectionsWhole, NothingLost, Times, AmountOf
<1> QED
  BY <1>1, <1>2, <1>3 DEF CountsInv

-----------------------------------------------------------------------------
(* The programs that count nothing under a mutex                           *)

LEMMA OtherPrograms ==
  ASSUME UNCHANGED <<demo, depth>>, demo \notin Counting, demo # "try_lock_std",
         CountsInv, Typed', PlacesRight', NothingLost',
         demo = "condition_variable" => k'["t1"] = 600 /\ k'["t2"] = 500,
         demo = "producer_consumer" => k'["t1"] <= Rounds
  PROVE  CountsInv'
<1>1. demo \in Demos /\ demo \notin Whole
  BY DemosAre DEF CountsInv, Typed
<1>2. \A t \in Threads : pc'[t] \in {"first", "second", "unlock1", "unlock2", "done", "off",
                                     "produce", "notify", "consume", "withdraw", "add"}
  <2>1. Pairing' \/ demo = "producer_consumer" \/ demo = "condition_variable"
    BY <1>1 DEF Demos, Pairing
  <2> QED
    BY <2>1, DemosAre DEF PlacesRight
<1>3. HoldersRight' /\ CountsRight'
  BY <1>2 DEF HoldersRight, CountsRight
<1>4. DepthRight' /\ SectionsRight' /\ SectionsWhole'
  BY <1>1, DemosAre DEF CountsInv, DepthRight, SectionsRight, SectionsWhole, Whole
<1> QED
  BY <1>3, <1>4 DEF CountsInv

LEMMA PairingKeeps ==
  ASSUME CountsInv, NEW t \in Threads, lock_first(t) \/ lock_second(t) \/ unlock_both(t)
  PROVE  CountsInv'
<1>1. /\ demo \in {"dead_lock", "lock_in_cpp"} /\ Pairing
      /\ UNCHANGED <<demo, depth, asleep, k, tmp, val, buffer, total, log>>
  BY DemosAre DEF lock_first, lock_second, unlock_both
<1>2. /\ LockOrder(t)[1] \in Mutexes /\ LockOrder(t)[2] \in Mutexes
      /\ UnlockOrder(t)[1] \in Mutexes /\ UnlockOrder(t)[2] \in Mutexes
  BY DemosAre DEF LockOrder, UnlockOrder
<1>3. \E m \in Mutexes : Lock(t, m) \/ Unlock(m)
  BY <1>2 DEF lock_first, lock_second, unlock_both
<1>4. \E label \in {"first", "second", "unlock1", "unlock2", "done"} : Goto(t, label)
  BY <1>1 DEF lock_first, lock_second, unlock_both
<1>5. t \in {"t1", "t2"}
  BY <1>1, DemosAre DEF CountsInv, PlacesRight, lock_first, lock_second, unlock_both
<1>6. owner' \in [Mutexes -> Threads \cup {Free}]
  BY <1>3 DEF CountsInv, Typed, Lock, Unlock
<1>7. pc' \in [Threads -> Labels]
  BY <1>4 DEF CountsInv, Typed, Goto, Labels
<1>8. Typed'
  BY <1>1, <1>6, <1>7 DEF CountsInv, Typed
<1>9. PlacesRight'
  BY <1>1, <1>4, <1>5, DemosAre DEF CountsInv, Typed, PlacesRight, Goto, Pairing
<1>10. NothingLost'
  BY <1>1, DemosAre DEF NothingLost
<1> QED
  BY <1>1, <1>8, <1>9, <1>10, OtherPrograms, DemosAre

LEMMA NotifyTypes ==
  ASSUME Typed, Wakes(asleep) PROVE asleep' \subseteq Threads
BY DEF Typed, Wakes

LEMMA AccountKeeps ==
  ASSUME CountsInv, withdrowMoney \/ addMoney
  PROVE  CountsInv'
<1>0. Typed /\ PlacesRight /\ CountsRight
  BY DEF CountsInv
<1>1. demo = "condition_variable"
  BY <1>0, DemosAre DEF Typed, Demos, PlacesRight, withdrowMoney, addMoney, Running
<1>2. CASE asleep' = asleep \cup {"t1"} /\ UNCHANGED <<demo, pc, owner, depth, k, tmp, val, buffer, total, log>>
  BY <1>0, <1>2, SleepingKeeps, DemosAre DEF Typed
<1>3. CASE /\ pc["t1"] = "withdraw" /\ val["X"] # 0 /\ Goto("t1", "done")
           /\ val' = [val EXCEPT !["X"] = IF @ >= k["t1"] THEN @ - k["t1"] ELSE @]
           /\ UNCHANGED <<demo, owner, depth, asleep, k, tmp, buffer, total, log>>
  <2>1. val["X"] = (IF pc["t2"] = "done" THEN 500 ELSE 0) /\ k["t1"] = 600
    BY <1>0, <1>1 DEF CountsInv, NothingLost, CountsRight
  <2>2. val["X"] \in Nat /\ val' = val
    BY <1>0, <1>3, <2>1 DEF Typed
  <2>3. pc' = [pc EXCEPT !["t1"] = "done"] /\ "done" \in Labels
    BY <1>3 DEF Goto, Labels
  <2>4. Typed'
    BY <1>0, <1>3, <2>2, <2>3 DEF Typed
  <2>5. PlacesRight'
    BY <1>0, <1>1, <1>3, <2>3, DemosAre DEF PlacesRight, Typed, Pairing
  <2>6. pc'["t2"] = pc["t2"]
    BY <1>0, <2>3, DemosAre DEF Typed
  <2>7. NothingLost'
    BY <1>1, <1>3, <2>1, <2>2, <2>6, DemosAre DEF NothingLost
  <2> QED
    BY <1>0, <1>1, <1>3, <2>4, <2>5, <2>7, OtherPrograms, DemosAre DEF CountsRight
<1>4. CASE addMoney
  <2>1. /\ pc["t2"] = "add" /\ Wakes(asleep) /\ Goto("t2", "done")
        /\ val' = [val EXCEPT !["X"] = @ + k["t2"]]
        /\ UNCHANGED <<demo, owner, depth, k, tmp, buffer, total, log>>
    BY <1>4 DEF addMoney, Running
  <2>2. val["X"] = 0 /\ k["t2"] = 500
    BY <1>0, <1>1, <2>1 DEF CountsInv, NothingLost, CountsRight
  <2>3. pc' = [pc EXCEPT !["t2"] = "done"] /\ "done" \in Labels
    BY <2>1 DEF Goto, Labels
  <2>4. val' \in [{"X", "Y"} -> Nat] /\ val'["X"] = 500
    BY <1>0, <2>1, <2>2 DEF Typed
  <2>5. Typed'
    BY <1>0, <2>1, <2>3, <2>4, NotifyTypes DEF Typed
  <2>6. PlacesRight' /\ pc'["t2"] = "done"
    BY <1>0, <1>1, <2>1, <2>3, DemosAre DEF PlacesRight, Typed, Pairing
  <2>7. NothingLost'
    BY <1>1, <2>1, <2>4, <2>6, DemosAre DEF NothingLost
  <2> QED
    BY <1>0, <1>1, <2>1, <2>5, <2>6, <2>7, OtherPrograms, DemosAre DEF CountsRight
<1> QED
  BY <1>2, <1>3, <1>4 DEF withdrowMoney, Running, Sleep
LEMMA RangeElements ==
  ASSUME NEW X, NEW s \in Seq(X) PROVE Range(s) = Elements(s)
BY DEF Range, Elements

\* The back of a deque, and what is left of it.
LEMMA FrontAndLast ==
  ASSUME NEW X, NEW s \in Seq(X), Len(s) > 0
  PROVE  /\ Front(s) \in Seq(X) /\ Len(Front(s)) = Len(s) - 1 /\ Last(s) \in X
         /\ Elements(s) = Elements(Front(s)) \cup {Last(s)}
<1>1. /\ Len(s) \in Nat /\ Last(s) = s[Len(s)] /\ Last(s) \in X
      /\ Front(s) = SubSeq(s, 1, Len(s) - 1)
  BY DEF Last, Front
<1>2. /\ Front(s) \in Seq(X) /\ Len(Front(s)) = Len(s) - 1
      /\ \A i \in 1 .. Len(s) - 1 : Front(s)[i] = s[i]
  <2>1. /\ 1 \in Int /\ Len(s) - 1 \in Int
        /\ \A i \in 1 .. Len(s) - 1 : s[i] \in X
    BY <1>1
  <2>2. /\ Front(s) \in Seq(X)
        /\ Len(Front(s)) = IF 1 <= Len(s) - 1 THEN ((Len(s) - 1) - 1) + 1 ELSE 0
        /\ \A i \in 1 .. ((Len(s) - 1) - 1) + 1 : Front(s)[i] = s[1 + (i - 1)]
    BY <1>1, <2>1, SubSeqProperties
  <2>3. Len(Front(s)) = Len(s) - 1
    <3>1. /\ Len(s) \in Nat /\ Len(s) > 0
          /\ Len(Front(s)) = IF 1 <= Len(s) - 1 THEN ((Len(s) - 1) - 1) + 1 ELSE 0
      BY <1>1, <2>2
    <3>2. CASE Len(s) = 1
      BY <3>1, <3>2
    <3>3. CASE Len(s) > 1
      BY <3>1, <3>3
    <3>4. Len(s) = 1 \/ Len(s) > 1
      <4>1. Len(s) \in Nat /\ Len(s) # 0
        BY <1>1
      <4> QED
        BY <4>1
    <3> QED
      BY <3>2, <3>3, <3>4, Zenon
  <2>4. \A i \in 1 .. Len(s) - 1 : i \in 1 .. ((Len(s) - 1) - 1) + 1 /\ 1 + (i - 1) = i
    BY <1>1
  <2>5. \A i \in 1 .. Len(s) - 1 : Front(s)[i] = s[i]
    BY <2>2, <2>4
  <2> QED
    BY <2>2, <2>3, <2>5
<1>3. 1 .. Len(s) = (1 .. Len(s) - 1) \cup {Len(s)}
  BY <1>1
<1>4. Elements(s) = Elements(Front(s)) \cup {Last(s)}
  BY <1>1, <1>2, <1>3, Zenon DEF Elements
<1> QED
  BY <1>1, <1>2, <1>4

LEMMA ProducerConsumerKeeps ==
  ASSUME CountsInv, producer \/ producer_notify \/ consumer_take \/ consumer_notify
  PROVE  CountsInv'
<1>0. Typed /\ PlacesRight /\ CountsRight /\ NothingLost
  BY DEF CountsInv
<1>1. demo = "producer_consumer"
  BY <1>0, DemosAre DEF Typed, Demos, PlacesRight, producer, producer_notify,
                        consumer_take, consumer_notify, Running
<1>2. /\ k["t1"] \in Nat /\ k["t1"] <= Rounds /\ Rounds \in Nat /\ maxBufferSize \in Nat
      /\ buffer \in Seq(Nat) /\ log \in Seq(Threads \cup Nat)
      /\ Len(buffer) \in Nat /\ Len(log) \in Nat /\ Len(buffer) <= maxBufferSize
      /\ Elements(buffer) \cup Elements(log) = k["t1"] + 1 .. Rounds
      /\ Len(buffer) + Len(log) = Rounds - k["t1"]
  <2>1. k["t1"] \in Nat /\ k["t1"] <= Rounds /\ Rounds \in Nat /\ maxBufferSize \in Nat
    BY <1>0, <1>1, DemosAre, DemosAssumption DEF Typed, CountsRight
  <2>2. /\ buffer \in Seq(Nat) /\ log \in Seq(Threads \cup Nat)
        /\ Len(buffer) <= maxBufferSize
    BY <1>0 DEF Typed
  <2>3. /\ Range(buffer) \cup Range(log) = k["t1"] + 1 .. Rounds
        /\ Len(buffer) + Len(log) = Rounds - k["t1"]
    BY <1>0, <1>1 DEF NothingLost
  <2>4. Range(buffer) = Elements(buffer) /\ Range(log) = Elements(log)
    BY <2>2, RangeElements
  <2>5. Len(buffer) \in Nat /\ Len(log) \in Nat
    BY <2>2
  <2> QED
    BY <2>1, <2>2, <2>3, <2>4, <2>5
<1>3. ASSUME NEW t \in {"t1", "t2"}, asleep' = asleep \cup {t},
             UNCHANGED <<demo, pc, owner, depth, k, tmp, val, buffer, total, log>>
      PROVE  CountsInv'
  BY <1>0, <1>3, SleepingKeeps, DemosAre DEF Typed
\* The rest, when the types and NothingLost are known.
<1>4. ASSUME UNCHANGED <<demo, owner, depth, tmp, val, total>>, asleep' \subseteq Threads,
             NEW t \in {"t1", "t2"}, NEW label, Goto(t, label),
             t = "t1" => label \in {"produce", "notify", "done"},
             t = "t2" => label \in {"consume", "notify"},
             k' \in [Threads -> Nat], k'["t1"] <= Rounds,
             buffer' \in Seq(Nat), log' \in Seq(Threads \cup Nat),
             Len(buffer') <= maxBufferSize,
             Elements(buffer') \cup Elements(log') = k'["t1"] + 1 .. Rounds,
             Len(buffer') + Len(log') = Rounds - k'["t1"]
      PROVE  CountsInv'
  <2>1. pc' = [pc EXCEPT ![t] = label] /\ label \in Labels
    BY <1>4 DEF Goto, Labels
  <2>2. Typed'
    BY <1>0, <1>4, <2>1 DEF Typed
  <2>3. PlacesRight'
    BY <1>0, <1>1, <1>4, <2>1, DemosAre DEF PlacesRight, Typed, Pairing
  <2>4. Range(buffer') = Elements(buffer') /\ Range(log') = Elements(log')
    BY <1>4, RangeElements
  <2>5. NothingLost'
    BY <1>1, <1>4, <2>4, DemosAre DEF NothingLost
  <2> QED
    BY <1>0, <1>1, <1>4, <2>2, <2>3, <2>5, OtherPrograms, DemosAre
<1>5. CASE /\ Len(buffer) < maxBufferSize /\ k["t1"] > 0
           /\ buffer' = Append(buffer, k["t1"]) /\ k' = [k EXCEPT !["t1"] = @ - 1]
           /\ Goto("t1", "notify")
           /\ UNCHANGED <<demo, owner, depth, asleep, tmp, val, total, log>>
  <2>1. /\ buffer' \in Seq(Nat) /\ Len(buffer') = Len(buffer) + 1
        /\ Elements(buffer') = Elements(buffer) \cup {k["t1"]}
    <3>1. /\ Append(buffer, k["t1"]) \in Seq(Nat)
          /\ Len(Append(buffer, k["t1"])) = Len(buffer) + 1
      BY <1>2
    <3>2. Elements(Append(buffer, k["t1"])) = Elements(buffer) \cup {k["t1"]}
      BY <1>2, AppendElements
    <3> QED
      BY <1>5, <3>1, <3>2
  <2>2. k' \in [Threads -> Nat] /\ k'["t1"] = k["t1"] - 1
    BY <1>0, <1>2, <1>5, DemosAre, SMTT(30) DEF Typed
  <2>3. (k["t1"] - 1) + 1 .. Rounds = {k["t1"]} \cup (k["t1"] + 1 .. Rounds)
    BY <1>2, <1>5, SMTT(30)
  <2>4. /\ k'["t1"] <= Rounds /\ Len(buffer') <= maxBufferSize
        /\ Elements(buffer') \cup Elements(log') = k'["t1"] + 1 .. Rounds
        /\ Len(buffer') + Len(log') = Rounds - k'["t1"]
    BY <1>2, <1>5, <2>1, <2>2, <2>3
  <2>5. asleep' \subseteq Threads /\ log' \in Seq(Threads \cup Nat)
    BY <1>0, <1>5 DEF Typed
  <2> QED
    BY <1>4, <1>5, <2>1, <2>2, <2>4, <2>5
<1>6. CASE /\ Len(buffer) > 0
           /\ log' = Append(log, Last(buffer)) /\ buffer' = Front(buffer)
           /\ Goto("t2", "notify")
           /\ UNCHANGED <<demo, owner, depth, asleep, k, tmp, val, total>>
  <2>1. /\ buffer' \in Seq(Nat) /\ Len(buffer') = Len(buffer) - 1
        /\ Last(buffer) \in Nat /\ Elements(buffer) = Elements(buffer') \cup {Last(buffer)}
    BY <1>2, <1>6, FrontAndLast
  <2>2. /\ log' \in Seq(Threads \cup Nat) /\ Len(log') = Len(log) + 1
        /\ Elements(log') = Elements(log) \cup {Last(buffer)}
    <3> DEFINE X == Threads \cup Nat
    <3>1. Last(buffer) \in X /\ log \in Seq(X)
      BY <1>2, <2>1
    <3> HIDE DEF X
    <3>2. /\ log' \in Seq(X) /\ Len(log') = Len(log) + 1
          /\ Elements(log') = Elements(log) \cup {Last(buffer)}
      BY <1>6, <3>1, AppendElements
    <3> QED
      BY <3>2 DEF X
  <2>3. /\ Len(buffer') <= maxBufferSize
        /\ Elements(buffer') \cup Elements(log') = k'["t1"] + 1 .. Rounds
        /\ Len(buffer') + Len(log') = Rounds - k'["t1"]
    BY <1>2, <1>6, <2>1, <2>2, SMTT(30)
  <2>4. asleep' \subseteq Threads /\ k' \in [Threads -> Nat] /\ k'["t1"] <= Rounds
    BY <1>0, <1>2, <1>6 DEF Typed
  <2> QED
    BY <1>4, <1>6, <2>1, <2>2, <2>3, <2>4
<1>7. ASSUME Wakes(asleep), UNCHANGED <<demo, owner, depth, k, tmp, val, buffer, total, log>>,
             NEW t \in {"t1", "t2"}, NEW label, Goto(t, label),
             t = "t1" => label \in {"produce", "notify", "done"},
             t = "t2" => label \in {"consume", "notify"}
      PROVE  CountsInv'
  <2>1. asleep' \subseteq Threads /\ k' \in [Threads -> Nat]
    BY <1>0, <1>7, NotifyTypes DEF Typed
  <2> QED
    BY <1>2, <1>4, <1>7, <2>1
<1>8. CASE producer
  BY <1>3, <1>5, <1>8 DEF producer, Sleep
<1>9. CASE consumer_take
  BY <1>3, <1>6, <1>9 DEF consumer_take, Sleep
<1>10. CASE producer_notify
  BY <1>7, <1>10 DEF producer_notify
<1>11. CASE consumer_notify
  BY <1>7, <1>11 DEF consumer_notify
<1> QED
  BY <1>8, <1>9, <1>10, <1>11
-----------------------------------------------------------------------------
(* The programs that increment counters under a mutex                      *)

Incrementing == demo \in Counting \/ demo = "try_lock_std"

\* Only the first two threads of these programs lock, read, write and unlock.
LEMMA Incrementers ==
  ASSUME CountsInv, NEW t \in Threads,
         pc[t] \in {"read", "write"} \/ (Increments(t) /\ pc[t] \in {"lock", "unlock"})
  PROVE  t \in {"t1", "t2"} /\ Incrementing
<1>1. demo \in Demos /\ PlacesRight
  BY DEF CountsInv, Typed
<1>2. Increments(t) => Incrementing
  BY DEF Increments, Incrementing
<1>3. demo \in {"dead_lock", "lock_in_cpp", "producer_consumer", "condition_variable"}
        \/ Incrementing
  BY <1>1 DEF Demos, Incrementing
<1>4. pc[t] \in {"read", "write", "lock", "unlock"} => t # "t3"
  BY <1>1, DemosAre DEF PlacesRight
<1>5. pc[t] \in {"read", "write"} => Incrementing
  BY <1>1, <1>3, DemosAre DEF PlacesRight
<1> QED
  BY <1>2, <1>4, <1>5, DemosAre

\* Two threads in their critical sections have a mutex and a counter each.
LEMMA Apart ==
  ASSUME CountsInv, NEW s \in Threads, NEW t \in Threads, s # t,
         pc[s] \in {"read", "write", "unlock"}, pc[t] \in {"read", "write", "unlock"}
  PROVE  MutexOf(s) # MutexOf(t) /\ CounterOf(s) # CounterOf(t)
<1>1. owner[MutexOf(s)] = s /\ owner[MutexOf(t)] = t
  BY DEF CountsInv, HoldersRight
<1>2. MutexOf(s) # MutexOf(t)
  BY <1>1
<1>3. CounterOf(s) # CounterOf(t)
  BY <1>2 DEF MutexOf, CounterOf
<1> QED
  BY <1>2, <1>3

LEMMA MutexAndCounter ==
  ASSUME NEW t
  PROVE  /\ MutexOf(t) \in Mutexes /\ CounterOf(t) \in {"X", "Y"}
         /\ (demo' = demo) => MutexOf(t)' = MutexOf(t) /\ CounterOf(t)' = CounterOf(t)
                              /\ AmountOf(t)' = AmountOf(t)
         /\ demo # "try_lock_std" => MutexOf(t) = "m1" /\ CounterOf(t) = "X"
         /\ AmountOf(t) \in Nat
BY DEF MutexOf, CounterOf, Mutexes, AmountOf

\* A step that leaves the counters and what was counted alone.
LEMMA CountsAlone ==
  ASSUME CountsInv, Incrementing, UNCHANGED <<demo, val, total, log>>
  PROVE  SectionsWhole' /\ NothingLost'
<1>1. demo # "producer_consumer" /\ demo # "condition_variable"
  BY DemosAre DEF Incrementing
<1>2. NothingLost'
  BY <1>1 DEF CountsInv, NothingLost, Times, AmountOf
<1>3. SectionsWhole'
  BY DEF CountsInv, SectionsWhole
<1> QED
  BY <1>2, <1>3

LEMMA LockKeeps ==
  ASSUME CountsInv, NEW t \in Threads, lock(t)
  PROVE  CountsInv'
<1>1. t \in {"t1", "t2"} /\ Incrementing
  BY Incrementers DEF lock
<1> DEFINE m == MutexOf(t)
<1>2. /\ pc[t] = "lock" /\ pc' = [pc EXCEPT ![t] = "read"] /\ "read" \in Labels
      /\ depth' = IF demo = "recursive_mutex" THEN depth + 1 ELSE depth
      /\ UNCHANGED <<demo, asleep, k, tmp, val, buffer, total, log>>
  BY DEF lock, Goto, Labels
<1>3. /\ owner[m] = Free \/ (demo = "recursive_mutex" /\ owner[m] = t)
      /\ owner' = [owner EXCEPT ![m] = t]
  <2>1. /\ m \in Mutexes /\ owner = [n \in Mutexes |-> owner[n]]
        /\ demo = "recursive_mutex" => m = "m1"
    BY MutexAndCounter DEF CountsInv, Typed
  <2> HIDE DEF m
  <2>2. \/ owner[m] = Free /\ owner' = [owner EXCEPT ![m] = t]
        \/ demo = "recursive_mutex" /\ owner[m] = t /\ owner' = owner
    BY <2>1 DEF lock, Lock, m
  <2>3. owner[m] = t => [owner EXCEPT ![m] = t] = owner
    BY <2>1
  <2> QED
    BY <2>2, <2>3
<1>4. m \in Mutexes /\ Typed /\ Free \notin Threads
  BY MutexAndCounter DEF CountsInv, Free, Threads
<1>5. Typed'
  BY <1>2, <1>3, <1>4 DEF Typed
<1>6. PlacesRight'
  BY <1>1, <1>2, <1>4, DemosAre DEF CountsInv, Typed, PlacesRight, Pairing, Incrementing
<1>7. \A s \in Threads : s # t => pc'[s] = pc[s]
  BY <1>2, <1>4 DEF Typed
<1>8. pc'[t] = "read" /\ owner'[m] = t
  BY <1>2, <1>3, <1>4 DEF Typed
<1>9. \A n \in Mutexes : n # m => owner'[n] = owner[n]
  BY <1>3, <1>4 DEF Typed
<1>10. HoldersRight'
  <2>1. ASSUME NEW s \in Threads, pc'[s] \in {"read", "write", "unlock"}
        PROVE  owner'[MutexOf(s)'] = s
    <3>1. CASE s = t
      BY <1>2, <1>8, <3>1, MutexAndCounter
    <3>2. CASE s # t
      <4>1. owner[MutexOf(s)] = s
        BY <1>7, <2>1, <3>2 DEF CountsInv, HoldersRight
      <4>2. MutexOf(s) # m
        BY <1>3, <1>4, <3>2, <4>1
      <4> QED
        BY <1>2, <1>9, <4>1, <4>2, MutexAndCounter
    <3> QED
      BY <3>1, <3>2
  <2>2. ASSUME NEW n \in Mutexes, owner[n] = "t3" PROVE owner'[n] = "t3"
    BY <1>1, <1>3, <1>4, <1>9, <2>2, DemosAre
  <2> HIDE DEF m
  <2>3. demo' = "try_lock_std" =>
          /\ pc'["t3"] \in {"try", "use", "unlock1"} => owner'["m1"] = "t3"
          /\ pc'["t3"] \in {"use", "unlock1", "unlock2"} => owner'["m2"] = "t3"
    BY <1>1, <1>2, <1>7, <2>2, DemosAre DEF CountsInv, HoldersRight
  <2> QED
    BY <2>1, <2>3 DEF HoldersRight
<1>11. CountsRight'
  <2>1. k[t] # 0
    BY <1>2 DEF CountsInv, CountsRight
  <2> QED
    BY <1>2, <1>7, <1>8, <2>1, MutexAndCounter DEF CountsInv, CountsRight
<1>12. DepthRight'
  <2>1. demo = "recursive_mutex" => m = "m1"
    BY MutexAndCounter
  <2>2. k[t] \in Nat /\ depth \in Nat /\ Rounds \in Nat
    BY <1>4, DemosAssumption DEF Typed
  <2> HIDE DEF m
  <2> QED
    BY <1>1, <1>2, <1>3, <1>7, <1>8, <2>1, <2>2, DemosAre DEF CountsInv, DepthRight
<1>13. SectionsRight'
  <2>1. demo \in Whole => m = "m1"
    BY DemosAre, MutexAndCounter
  <2> HIDE DEF m
  <2> QED
    BY <1>1, <1>2, <1>3, <1>7, <1>8, <2>1, DemosAre DEF CountsInv, SectionsRight
<1>14. SectionsWhole' /\ NothingLost'
  BY <1>1, <1>2, CountsAlone
<1> QED
  BY <1>5, <1>6, <1>10, <1>11, <1>12, <1>13, <1>14 DEF CountsInv

LEMMA TimeoutKeeps ==
  ASSUME CountsInv, NEW t \in Threads, timeout(t)
  PROVE  CountsInv'
<1>1. /\ demo = "timed_mutex" /\ pc[t] = "lock" /\ pc' = [pc EXCEPT ![t] = "done"]
      /\ "done" \in Labels
      /\ UNCHANGED <<demo, owner, depth, asleep, k, tmp, val, buffer, total, log>>
  BY DEF timeout, Goto, Labels
<1>2. Typed /\ Incrementing /\ t \in {"t1", "t2"}
  BY <1>1, DemosAre DEF Incrementing, CountsInv, PlacesRight
<1>3. Typed'
  BY <1>1, <1>2 DEF Typed
<1>4. PlacesRight'
  BY <1>1, <1>2, DemosAre DEF CountsInv, Typed, PlacesRight, Pairing
<1>5. \A s \in Threads : pc'[s] = pc[s] \/ pc'[s] = "done"
  BY <1>1, <1>2 DEF Typed
<1>6. HoldersRight'
  BY <1>1, <1>5, MutexAndCounter DEF CountsInv, HoldersRight
<1>7. CountsRight'
  BY <1>1, <1>5, MutexAndCounter DEF CountsInv, CountsRight
<1>8. DepthRight' /\ SectionsRight'
  BY <1>1, DemosAre DEF CountsInv, DepthRight, SectionsRight
<1>9. SectionsWhole' /\ NothingLost'
  BY <1>1, <1>2, CountsAlone
<1> QED
  BY <1>3, <1>4, <1>6, <1>7, <1>8, <1>9 DEF CountsInv

LEMMA ReadKeeps ==
  ASSUME CountsInv, NEW t \in Threads, read(t)
  PROVE  CountsInv'
<1>1. /\ pc[t] = "read" /\ pc' = [pc EXCEPT ![t] = "write"] /\ "write" \in Labels
      /\ tmp' = [tmp EXCEPT ![t] = val[CounterOf(t)]]
      /\ UNCHANGED <<demo, owner, depth, asleep, k, val, buffer, total, log>>
  BY DEF read, Goto, Labels
<1>2. Typed /\ Incrementing /\ t \in {"t1", "t2"}
  <2>1. Typed
    BY DEF CountsInv
  <2> QED
    BY <1>1, <2>1, Incrementers
<1>3. Typed'
  <2>1. val[CounterOf(t)] \in Nat
    BY <1>2, MutexAndCounter DEF Typed
  <2> QED
    BY <1>1, <1>2, <2>1 DEF Typed
<1>4. PlacesRight'
  BY <1>1, <1>2, DemosAre DEF CountsInv, Typed, PlacesRight, Pairing, Incrementing
<1>5. /\ pc'[t] = "write" /\ tmp'[t] = val[CounterOf(t)]
      /\ \A s \in Threads : s # t => pc'[s] = pc[s] /\ tmp'[s] = tmp[s]
  BY <1>1, <1>2 DEF Typed
<1>6. HoldersRight'
  BY <1>1, <1>2, <1>5, MutexAndCounter, DemosAre DEF CountsInv, HoldersRight
<1>7. CountsRight'
  <2>1. \A s \in Threads : CounterOf(s)' = CounterOf(s)
    BY <1>1, MutexAndCounter
  <2> QED
    BY <1>1, <1>5, <2>1 DEF CountsInv, CountsRight
<1>8. DepthRight'
  BY <1>1, <1>2, <1>5, DemosAre DEF CountsInv, DepthRight
<1>9. SectionsRight'
  BY <1>1, <1>2, <1>5, DemosAre DEF CountsInv, SectionsRight
<1>10. SectionsWhole' /\ NothingLost'
  BY <1>1, <1>2, CountsAlone
<1> QED
  BY <1>3, <1>4, <1>6, <1>7, <1>8, <1>9, <1>10 DEF CountsInv
\* One increment more: what NothingLost says of the counters and the log.
LEMMA IncrementCounted ==
  ASSUME CountsInv, NEW t \in {"t1", "t2"}, Incrementing, UNCHANGED <<demo, total>>,
         val' = [val EXCEPT ![CounterOf(t)] = val[CounterOf(t)] + AmountOf(t)],
         log' = Append(log, t)
  PROVE  NothingLost'
<1> DEFINE X == Threads \cup Nat
<1>1. log \in Seq(X) /\ t \in X /\ val \in [{"X", "Y"} -> Nat] /\ total \in Nat
  BY DemosAre DEF CountsInv, Typed
<1>2. /\ Len(log) \in Nat /\ Len(log') = Len(log) + 1
      /\ \A s \in Threads : Keep(log, {s}) \in Seq(X)
  <2> HIDE DEF X
  <2> QED
    BY <1>1, KeepElements
<1>3. \A s \in Threads : Times(s) \in Nat /\ Times(s)' = IF s = t THEN Times(s) + 1
                                                         ELSE Times(s)
  <2> SUFFICES ASSUME NEW s \in Threads
               PROVE  Times(s) \in Nat /\ Times(s)' = IF s = t THEN Times(s) + 1
                                                      ELSE Times(s)
    OBVIOUS
  <2> HIDE DEF X
  <2>1. /\ t \in {s} => Keep(log', {s}) = Append(Keep(log, {s}), t)
        /\ t \notin {s} => Keep(log', {s}) = Keep(log, {s})
    <3>1. /\ t \in {s} => Keep(Append(log, t), {s}) = Append(Keep(log, {s}), t)
          /\ t \notin {s} => Keep(Append(log, t), {s}) = Keep(log, {s})
      <4> DEFINE S == {s}
      <4> HIDE DEF S
      <4>1. /\ t \in S => Keep(Append(log, t), S) = Append(Keep(log, S), t)
            /\ t \notin S => Keep(Append(log, t), S) = Keep(log, S)
        BY <1>1, KeepAppend
      <4> QED
        BY <4>1 DEF S
    <3> QED
      BY <3>1
  <2>2. Len(Keep(log, {s})) \in Nat /\ Len(Append(Keep(log, {s}), t)) = Len(Keep(log, {s})) + 1
    BY <1>1, <1>2
  <2> QED
    BY <2>1, <2>2 DEF Times
<1>4. \A s \in Threads : AmountOf(s)' = AmountOf(s) /\ AmountOf(s) \in Nat
  BY MutexAndCounter
<1>5. CASE demo \in Counting
  <2>1. CounterOf(t) = "X" /\ val'["X"] = val["X"] + AmountOf(t)
    BY <1>1, <1>5, MutexAndCounter, DemosAre
  <2>2. val["X"] = AmountOf("t1") * Times("t1") + AmountOf("t2") * Times("t2")
    BY <1>5 DEF CountsInv, NothingLost
  <2>3. \A a \in {1, 100, 200}, n \in Nat : a * (n + 1) = (a * n) + a /\ a * n \in Nat
    OBVIOUS
  <2>4. \A s \in Threads : AmountOf(s) \in {1, 100, 200}
    BY DEF AmountOf
  <2> DEFINE a1 == AmountOf("t1")
             a2 == AmountOf("t2")
             n1 == Times("t1")
             n2 == Times("t2")
  <2>5. /\ a1 * (n1 + 1) = (a1 * n1) + a1 /\ a1 * n1 \in Nat
        /\ a2 * (n2 + 1) = (a2 * n2) + a2 /\ a2 * n2 \in Nat
        /\ a1 \in Nat /\ a2 \in Nat /\ "t1" \in Threads /\ "t2" \in Threads
    <3>1. /\ a1 \in {1, 100, 200} /\ a2 \in {1, 100, 200} /\ n1 \in Nat /\ n2 \in Nat
          /\ "t1" \in Threads /\ "t2" \in Threads
      BY <1>3, <2>4, DemosAre
    <3> HIDE DEF a1, a2, n1, n2
    <3> QED
      BY <2>3, <3>1
  <2>6. val'["X"] = (a1 * Times("t1")') + (a2 * Times("t2")')
    <3>1. CASE t = "t1"
      <4>1. Times("t1")' = n1 + 1 /\ Times("t2")' = n2
        BY <1>3, <2>5, <3>1
      <4> HIDE DEF n1, n2, a1, a2
      <4> QED
        BY <2>1, <2>2, <2>5, <3>1, <4>1 DEF n1, n2, a1, a2
    <3>2. CASE t = "t2"
      <4>1. Times("t1")' = n1 /\ Times("t2")' = n2 + 1
        BY <1>3, <2>5, <3>2
      <4> HIDE DEF n1, n2, a1, a2
      <4> QED
        BY <2>1, <2>2, <2>5, <3>2, <4>1 DEF n1, n2, a1, a2
    <3> QED
      BY <3>1, <3>2
  <2>7. AmountOf("t1")' = a1 /\ AmountOf("t2")' = a2
    BY <1>4, DemosAre
  <2> QED
    BY <1>5, <2>6, <2>7, DemosAre DEF NothingLost
<1>6. CASE demo = "try_lock_std"
  <2>1. CounterOf(t) \in {"X", "Y"} /\ AmountOf(t) = 1
    BY <1>6 DEF CounterOf, AmountOf
  <2>2. total + val["X"] + val["Y"] = Len(log)
    BY <1>6 DEF CountsInv, NothingLost
  <2>3. val["X"] \in Nat /\ val["Y"] \in Nat
    BY <1>1
  <2>4. \/ val'["X"] = val["X"] + 1 /\ val'["Y"] = val["Y"]
        \/ val'["X"] = val["X"] /\ val'["Y"] = val["Y"] + 1
    BY <1>1, <2>1
  <2>5. total' + val'["X"] + val'["Y"] = Len(log')
    BY <1>1, <1>2, <2>2, <2>3, <2>4
  <2> QED
    BY <1>6, <2>5, DemosAre DEF NothingLost
<1> QED
  BY <1>5, <1>6 DEF Incrementing

\* ... and SectionsWhole and SectionsRight of the log, when t has the mutex.
LEMMA IncrementOrdered ==
  ASSUME CountsInv, NEW t \in {"t1", "t2"}, demo \in Whole, owner["m1"] = t,
         UNCHANGED <<demo, owner>>, log' = Append(log, t)
  PROVE  /\ SectionsWhole'
         /\ \A n \in 1 .. Len(log') : log'[n] = t =>
              \A m \in 1 .. Len(log') : n <= m => log'[m] = t
         /\ \A s : s # t /\ (\A n \in 1 .. Len(log) : log[n] # s) =>
              \A n \in 1 .. Len(log') : log'[n] # s
<1> DEFINE X == Threads \cup Nat
<1>1. log \in Seq(X) /\ t \in X
  BY DemosAre DEF CountsInv, Typed
<1> HIDE DEF X
<1>2. /\ Len(log) \in Nat /\ Len(log') = Len(log) + 1 /\ DOMAIN log = 1 .. Len(log)
      /\ DOMAIN log' = 1 .. Len(log') /\ log'[Len(log) + 1] = t
      /\ \A n \in 1 .. Len(log) : log'[n] = log[n]
  BY <1>1
<1>3. \A n \in 1 .. Len(log) : log[n] = t =>
        \A m \in 1 .. Len(log) : n <= m => log[m] = t
  BY DEF CountsInv, SectionsRight
<1>4. \A n \in 1 .. Len(log') : log'[n] = t =>
        \A m \in 1 .. Len(log') : n <= m => log'[m] = t
  BY <1>2, <1>3
<1>5. \A first, last \in 1 .. Len(log) : log[first] = log[last] =>
        \A n \in first .. last : log[n] = log[first]
  BY <1>2 DEF CountsInv, SectionsWhole, Whole
<1>6. ASSUME NEW first \in 1 .. Len(log'), NEW last \in 1 .. Len(log'),
             log'[first] = log'[last], NEW n \in first .. last
      PROVE  log'[n] = log'[first]
  <2>1. n \in 1 .. Len(log')
    BY <1>2
  <2>2. CASE last = Len(log) + 1
    BY <1>2, <1>4, <1>6, <2>1, <2>2
  <2>3. CASE last # Len(log) + 1
    <3>1. last \in 1 .. Len(log) /\ (first \in 1 .. Len(log) \/ first > last)
      BY <1>2, <2>3
    <3> QED
      BY <1>2, <1>5, <1>6, <3>1
  <2> QED
    BY <2>2, <2>3
<1>7. SectionsWhole'
  BY <1>2, <1>6 DEF SectionsWhole
<1> QED
  BY <1>2, <1>4, <1>7
LEMMA WriteKeeps ==
  ASSUME CountsInv, NEW t \in Threads, write(t)
  PROVE  CountsInv'
<1>0. pc[t] = "write"
  BY Zenon DEF write
<1>1. t \in {"t1", "t2"} /\ Incrementing
  BY <1>0, Incrementers
<1>2. Typed /\ k[t] # 0 /\ tmp[t] = val[CounterOf(t)] /\ owner[MutexOf(t)] = t
  BY <1>0 DEF CountsInv, CountsRight, HoldersRight
<1>3. /\ val' = [val EXCEPT ![CounterOf(t)] = val[CounterOf(t)] + AmountOf(t)]
      /\ k' = [k EXCEPT ![t] = @ - 1] /\ log' = Append(log, t)
      /\ UNCHANGED <<demo, owner, depth, asleep, tmp, buffer, total>>
  BY <1>2, Zenon DEF write
<1>4. k[t] \in Nat /\ k'[t] = k[t] - 1 /\ k'[t] \in Nat
      /\ \A s \in Threads : s # t => k'[s] = k[s]
  BY <1>2, <1>3 DEF Typed
<1>5. PICK label : /\ pc' = [pc EXCEPT ![t] = label]
                   /\ k'[t] > 0 /\ demo \in LockAroundLoop => label = "read"
                   /\ k'[t] > 0 /\ demo = "recursive_mutex" => label = "lock"
                   /\ ~ (k'[t] > 0 /\ demo \in Whole) => label = "unlock"
  <2> DEFINE next == CASE k'[t] > 0 /\ demo \in LockAroundLoop -> "read"
                       [] k'[t] > 0 /\ demo = "recursive_mutex" -> "lock"
                       [] OTHER -> "unlock"
  <2>1. pc' = [pc EXCEPT ![t] = next]
    BY Zenon DEF write, Goto
  <2>2. "recursive_mutex" \notin LockAroundLoop
    BY DEF LockAroundLoop
  <2>3. /\ k'[t] > 0 /\ demo \in LockAroundLoop => next = "read"
        /\ k'[t] > 0 /\ demo = "recursive_mutex" => next = "lock"
        /\ ~ (k'[t] > 0 /\ demo \in Whole) => next = "unlock"
    BY <2>2 DEF Whole
  <2> HIDE DEF next
  <2> QED
    BY <2>1, <2>3
<1>6. label \in {"read", "lock", "unlock"} /\ label \in Labels
  BY <1>5 DEF Labels, Whole
<1>7. pc'[t] = label /\ \A s \in Threads : s # t => pc'[s] = pc[s]
  BY <1>2, <1>5 DEF Typed
<1>8. Typed'
  <2>1. log' \in Seq(Threads \cup Nat)
    <3> DEFINE X == Threads \cup Nat
    <3>1. log \in Seq(X) /\ t \in X
      BY <1>2 DEF Typed
    <3> HIDE DEF X
    <3>2. log' \in Seq(X)
      BY <1>3, <3>1
    <3> QED
      BY <3>2 DEF X
  <2>2. val' \in [{"X", "Y"} -> Nat] /\ k' \in [Threads -> Nat]
    BY <1>2, <1>3, <1>4, MutexAndCounter DEF Typed
  <2>3. pc' \in [Threads -> Labels]
    BY <1>2, <1>5, <1>6 DEF Typed
  <2> QED
    BY <1>2, <1>3, <2>1, <2>2, <2>3 DEF Typed
<1>9. PlacesRight'
  BY <1>1, <1>3, <1>6, <1>7, DemosAre DEF CountsInv, PlacesRight, Pairing, Incrementing
<1>10. HoldersRight'
  <2>1. \A s \in Threads : pc'[s] \in {"read", "write", "unlock"} => owner'[MutexOf(s)'] = s
    BY <1>2, <1>3, <1>7, MutexAndCounter DEF CountsInv, HoldersRight
  <2>2. pc'["t3"] = pc["t3"]
    BY <1>1, <1>7, DemosAre
  <2> QED
    BY <1>3, <2>1, <2>2 DEF CountsInv, HoldersRight
<1>11. CountsRight'
  <2>1. ASSUME NEW s \in Threads
        PROVE  /\ pc'[s] \in {"lock", "read", "write", "spin", "try", "use"} => k'[s] # 0
               /\ pc'[s] = "write" => tmp'[s] = val'[CounterOf(s)']
    <3>1. CASE s = t
      <4>1. label \in {"read", "lock"} => k'[t] # 0
        BY <1>4, <1>5
      <4> QED
        BY <1>6, <1>7, <3>1, <4>1
    <3>2. CASE s # t
      <4>1. pc'[s] = pc[s] /\ k'[s] = k[s] /\ tmp'[s] = tmp[s]
        BY <1>3, <1>4, <1>7, <3>2
      <4>2. pc[s] = "write" => CounterOf(s) # CounterOf(t)
        BY <1>0, <3>2, Apart
      <4>3. pc[s] = "write" => val'[CounterOf(s)'] = val[CounterOf(s)]
        BY <1>2, <1>3, <4>2, MutexAndCounter DEF Typed
      <4> QED
        BY <4>1, <4>3 DEF CountsInv, CountsRight
    <3> QED
      BY <3>1, <3>2
  <2>2. demo # "condition_variable" /\ demo # "producer_consumer"
    BY <1>1, DemosAre DEF Incrementing
  <2> QED
    BY <1>3, <2>1, <2>2 DEF CountsRight
<1>12. DepthRight'
  <2>1. demo = "recursive_mutex" => owner["m1"] = t /\ depth + k[t] = Rounds + 1
    BY <1>0, <1>1, <1>2, MutexAndCounter DEF CountsInv, DepthRight
  <2>2. depth \in Nat /\ Rounds \in Nat \ {0}
    BY <1>2, DemosAssumption DEF Typed
  <2>3. demo = "recursive_mutex" =>
          /\ label = "lock" => depth' + k'[t] = Rounds
          /\ label # "read"
          /\ label = "unlock" => depth' \in 1 .. Rounds
    <3>1. demo = "recursive_mutex" => demo \in Whole /\ demo \notin LockAroundLoop
      BY DEF Whole, LockAroundLoop
    <3> QED
      BY <1>3, <1>4, <1>5, <2>1, <2>2, <3>1
  <2> QED
    BY <1>1, <1>3, <1>4, <1>6, <1>7, <2>1, <2>3, DemosAre DEF CountsInv, DepthRight
<1>13. SectionsRight' /\ SectionsWhole'
  <2>1. CASE demo \notin Whole
    BY <1>3, <2>1 DEF SectionsRight, SectionsWhole, Whole
  <2>2. CASE demo \in Whole
    <3>1. owner["m1"] = t
      BY <1>2, <2>2, DemosAre, MutexAndCounter
    <3>2. /\ SectionsWhole'
          /\ \A n \in 1 .. Len(log') : log'[n] = t =>
               \A m \in 1 .. Len(log') : n <= m => log'[m] = t
          /\ \A s : s # t /\ (\A n \in 1 .. Len(log) : log[n] # s) =>
               \A n \in 1 .. Len(log') : log'[n] # s
      BY <1>1, <1>3, <2>2, <3>1, IncrementOrdered
    <3>3. label = "unlock" => k'[t] = 0
      BY <1>4, <1>5, <2>2 DEF Whole
    <3>4. SectionsRight'
      BY <1>1, <1>3, <1>4, <1>6, <1>7, <3>1, <3>2, <3>3, DemosAre
         DEF CountsInv, SectionsRight
    <3> QED
      BY <3>2, <3>4
  <2> QED
    BY <2>1, <2>2
<1>14. NothingLost'
  BY <1>1, <1>3, IncrementCounted
<1> QED
  BY <1>8, <1>9, <1>10, <1>11, <1>12, <1>13, <1>14 DEF CountsInv

LEMMA UnlockKeeps ==
  ASSUME CountsInv, NEW t \in Threads, unlock(t)
  PROVE  CountsInv'
<1> DEFINE m == MutexOf(t)
<1>0. pc[t] = "unlock" /\ Increments(t)
  BY Zenon DEF unlock
<1>1. t \in {"t1", "t2"} /\ Incrementing
  BY <1>0, Incrementers
<1>2. Typed /\ owner[m] = t /\ m \in Mutexes /\ Free \notin Threads
  BY <1>0, MutexAndCounter DEF CountsInv, HoldersRight, Free, Threads
<1>3. /\ depth' = IF depth > 0 THEN depth - 1 ELSE 0
      /\ UNCHANGED <<demo, asleep, k, tmp, val, buffer, total, log>>
  BY Zenon DEF unlock
<1>4. depth \in Nat /\ depth' \in Nat /\ k[t] \in Nat
  BY <1>2, <1>3 DEF Typed
<1>5. /\ depth' = 0 => owner' = [owner EXCEPT ![m] = Free]
      /\ depth' > 0 => owner' = owner
  BY <1>4 DEF unlock, Unlock
<1>6. PICK label : /\ pc' = [pc EXCEPT ![t] = label]
                   /\ depth' > 0 => label = "unlock"
                   /\ ~ depth' > 0 /\ k[t] > 0 => label = "lock"
                   /\ ~ depth' > 0 /\ ~ k[t] > 0 => label = "done"
  <2> DEFINE next == CASE depth' > 0 -> "unlock" [] k[t] > 0 -> "lock" [] OTHER -> "done"
  <2>1. pc' = [pc EXCEPT ![t] = next]
    BY Zenon DEF unlock, Goto
  <2>2. depth' > 0 => demo = "recursive_mutex" /\ k[t] = 0
    BY <1>0, <1>1, <1>3, <1>4, DemosAre DEF CountsInv, DepthRight, SectionsRight
  <2>3. /\ depth' > 0 => next = "unlock"
        /\ ~ depth' > 0 /\ k[t] > 0 => next = "lock"
        /\ ~ depth' > 0 /\ ~ k[t] > 0 => next = "done"
    BY <1>4, <2>2
  <2> HIDE DEF next
  <2> QED
    BY <2>1, <2>3
<1>7. label \in {"unlock", "lock", "done"} /\ label \in Labels
  BY <1>4, <1>6 DEF Labels
<1>8. pc'[t] = label /\ \A s \in Threads : s # t => pc'[s] = pc[s]
  BY <1>2, <1>6 DEF Typed
<1>9. /\ owner' \in [Mutexes -> Threads \cup {Free}]
      /\ \A n \in Mutexes : n # m => owner'[n] = owner[n]
      /\ owner'[m] = IF depth' = 0 THEN Free ELSE t
  <2>1. owner \in [Mutexes -> Threads \cup {Free}]
    BY <1>2 DEF Typed
  <2>2. depth' = 0 \/ (depth' > 0 /\ depth' # 0)
    BY <1>4
  <2> HIDE DEF m
  <2>3. CASE depth' = 0
    BY <1>2, <1>5, <2>1, <2>3
  <2>4. CASE depth' > 0 /\ depth' # 0
    BY <1>2, <1>5, <2>1, <2>4
  <2> QED
    BY <2>2, <2>3, <2>4
<1>10. Typed'
  <2>1. pc' \in [Threads -> Labels]
    BY <1>2, <1>6, <1>7 DEF Typed
  <2> QED
    BY <1>2, <1>3, <1>4, <1>9, <2>1 DEF Typed
<1>11. PlacesRight'
  BY <1>1, <1>3, <1>7, <1>8, DemosAre DEF CountsInv, PlacesRight, Pairing, Incrementing
<1>12. HoldersRight'
  <2>1. ASSUME NEW s \in Threads, pc'[s] \in {"read", "write", "unlock"}
        PROVE  owner'[MutexOf(s)'] = s
    <3>1. CASE s = t
      <4>1. depth' # 0
        BY <1>4, <1>6, <1>8, <2>1, <3>1
      <4> QED
        BY <1>3, <1>9, <3>1, <4>1, MutexAndCounter
    <3>2. CASE s # t
      <4>1. owner[MutexOf(s)] = s
        BY <1>8, <2>1, <3>2 DEF CountsInv, HoldersRight
      <4>2. MutexOf(s) # m
        BY <1>2, <3>2, <4>1
      <4> QED
        BY <1>3, <1>9, <4>1, <4>2, MutexAndCounter
    <3> QED
      BY <3>1, <3>2
  <2>2. ASSUME NEW n \in Mutexes, owner[n] = "t3" PROVE owner'[n] = "t3"
    BY <1>1, <1>2, <1>9, <2>2, DemosAre
  <2> HIDE DEF m
  <2>3. demo' = "try_lock_std" =>
          /\ pc'["t3"] \in {"try", "use", "unlock1"} => owner'["m1"] = "t3"
          /\ pc'["t3"] \in {"use", "unlock1", "unlock2"} => owner'["m2"] = "t3"
    BY <1>1, <1>3, <1>8, <2>2, DemosAre DEF CountsInv, HoldersRight
  <2> QED
    BY <2>1, <2>3 DEF HoldersRight
<1>13. CountsRight'
  <2>1. label = "lock" => k[t] # 0
    BY <1>4, <1>6
  <2> QED
    BY <1>3, <1>7, <1>8, <2>1, MutexAndCounter DEF CountsInv, CountsRight
<1>14. DepthRight'
  <2>1. demo # "recursive_mutex" => depth' = 0
    BY <1>3 DEF CountsInv, DepthRight
  <2>2. ASSUME demo = "recursive_mutex" PROVE DepthRight'
    <3>1. m = "m1" /\ k[t] = 0 /\ depth \in 1 .. Rounds /\ Rounds \in Nat
      BY <1>0, <1>1, <1>2, <2>2, DemosAre, DemosAssumption, MutexAndCounter
         DEF CountsInv, DepthRight, SectionsRight
    <3> HIDE DEF m
    <3>2. CASE depth' = 0
      <4>1. label = "done" /\ owner'["m1"] = Free
        BY <1>4, <1>6, <1>9, <3>1, <3>2
      <4>2. \A s \in {"t1", "t2"} : owner["m1"] # s => s # t
        BY <1>2, <3>1
      <4> QED
        BY <1>1, <1>2, <1>3, <1>8, <2>2, <3>1, <3>2, <4>1, <4>2, DemosAre
           DEF CountsInv, DepthRight
    <3>3. CASE depth' # 0
      <4>1. label = "unlock" /\ owner'["m1"] = t /\ depth' \in 1 .. Rounds
        BY <1>3, <1>4, <1>6, <1>9, <3>1, <3>3
      <4> QED
        BY <1>1, <1>2, <1>3, <1>8, <2>2, <3>1, <3>3, <4>1, DemosAre
           DEF CountsInv, DepthRight
    <3> QED
      BY <3>2, <3>3
  <2> QED
    BY <1>3, <2>1, <2>2 DEF DepthRight
<1>15. SectionsRight'
  <2> SUFFICES ASSUME demo \in Whole PROVE SectionsRight'
    BY <1>3 DEF SectionsRight
  <2>1. m = "m1" /\ k[t] = 0
    BY <1>0, <1>1, MutexAndCounter, DemosAre DEF CountsInv, SectionsRight
  <2>2. label \in {"unlock", "done"}
    BY <1>4, <1>6, <2>1
  <2>3. owner'["m1"] \in {Free, t}
    BY <1>9, <2>1
  <2>4. \A s \in {"t1", "t2"} : s # t => owner["m1"] # s /\ owner'["m1"] # s
    BY <1>2, <2>1, <2>3, DemosAre
  <2>5. \A n \in 1 .. Len(log) : log[n] = t => \A i \in 1 .. Len(log) : n <= i => log[i] = t
    BY <1>1, <1>2, <2>1 DEF CountsInv, SectionsRight
  <2> HIDE DEF m
  <2> QED
    BY <1>1, <1>3, <1>8, <2>1, <2>2, <2>4, <2>5, DemosAre DEF CountsInv, SectionsRight
<1>16. SectionsWhole' /\ NothingLost'
  BY <1>1, <1>3, CountsAlone
<1> QED
  BY <1>10, <1>11, <1>12, <1>13, <1>14, <1>15, <1>16 DEF CountsInv
-----------------------------------------------------------------------------
(* consumeXY                                                               *)

LEMMA ConsumerKeeps ==
  ASSUME CountsInv, try_first \/ try_second \/ consumeXY \/ consumeXYUnlock
  PROVE  CountsInv'
<1>0. Typed /\ Free \notin Threads /\ "t3" \in Threads /\ "m1" \in Mutexes /\ "m2" \in Mutexes
  BY DemosAre DEF CountsInv
<1>1. demo = "try_lock_std" /\ Incrementing /\ UNCHANGED <<demo, depth, asleep, tmp, buffer, log>>
  BY DEF try_first, try_second, consumeXY, consumeXYUnlock, consumer, Incrementing
<1>2. \E label : Goto("t3", label)
  BY DEF try_first, try_second, consumeXY, consumeXYUnlock
<1>3. \A s \in {"t1", "t2"} : pc'[s] = pc[s] /\ s \in Threads /\ s # "t3"
  BY <1>0, <1>2, DemosAre DEF Goto, Typed
<1>4. /\ MutexOf("t1") = "m1" /\ MutexOf("t2") = "m2"
      /\ CounterOf("t1") = "X" /\ CounterOf("t2") = "Y"
      /\ MutexOf("t1")' = "m1" /\ MutexOf("t2")' = "m2"
      /\ CounterOf("t1")' = "X" /\ CounterOf("t2")' = "Y"
  BY <1>1 DEF MutexOf, CounterOf
\* What the invariant says of this program.
<1>5. /\ pc["t1"] \in {"read", "write", "unlock"} => owner["m1"] = "t1"
      /\ pc["t2"] \in {"read", "write", "unlock"} => owner["m2"] = "t2"
      /\ pc["t3"] \in {"try", "use", "unlock1"} => owner["m1"] = "t3"
      /\ pc["t3"] \in {"use", "unlock1", "unlock2"} => owner["m2"] = "t3"
  BY <1>0, <1>1, <1>3, <1>4 DEF CountsInv, HoldersRight
<1>6. /\ pc["t3"] \in {"spin", "try", "use", "unlock1", "unlock2", "done"}
      /\ pc["t1"] \in {"lock", "read", "write", "unlock", "done"}
      /\ pc["t2"] \in {"lock", "read", "write", "unlock", "done"}
  BY <1>1 DEF CountsInv, PlacesRight
<1>7. /\ pc["t3"] \in {"spin", "try", "use"} => k["t3"] # 0
      /\ \A s \in {"t1", "t2"} : pc[s] \in {"lock", "read", "write"} => k[s] # 0
      /\ pc["t1"] = "write" => tmp["t1"] = val["X"]
      /\ pc["t2"] = "write" => tmp["t2"] = val["Y"]
  BY <1>0, <1>3, <1>4 DEF CountsInv, CountsRight
\* It is enough that these facts and the types are kept.
<1>8. ASSUME Typed',
             /\ pc'["t1"] \in {"read", "write", "unlock"} => owner'["m1"] = "t1"
             /\ pc'["t2"] \in {"read", "write", "unlock"} => owner'["m2"] = "t2"
             /\ pc'["t3"] \in {"try", "use", "unlock1"} => owner'["m1"] = "t3"
             /\ pc'["t3"] \in {"use", "unlock1", "unlock2"} => owner'["m2"] = "t3",
             pc'["t3"] \in {"spin", "try", "use", "unlock1", "unlock2", "done"},
             /\ pc'["t3"] \in {"spin", "try", "use"} => k'["t3"] # 0
             /\ \A s \in {"t1", "t2"} : k'[s] = k[s]
             /\ pc'["t1"] = "write" => tmp'["t1"] = val'["X"]
             /\ pc'["t2"] = "write" => tmp'["t2"] = val'["Y"],
             total' + val'["X"] + val'["Y"] = Len(log')
      PROVE  CountsInv'
  <2>1. PlacesRight'
    BY <1>1, <1>3, <1>6, <1>8, DemosAre DEF PlacesRight, Pairing
  <2>2. HoldersRight'
    BY <1>1, <1>4, <1>8, DemosAre DEF HoldersRight
  <2>3. CountsRight'
    BY <1>1, <1>3, <1>4, <1>6, <1>7, <1>8, DemosAre DEF CountsRight
  <2>4. DepthRight' /\ SectionsRight' /\ SectionsWhole'
    BY <1>1, DemosAre DEF CountsInv, DepthRight, SectionsRight, SectionsWhole, Whole
  <2>5. NothingLost'
    BY <1>1, <1>8, DemosAre DEF NothingLost
  <2> QED
    BY <1>8, <2>1, <2>2, <2>3, <2>4, <2>5 DEF CountsInv
<1>9. total + val["X"] + val["Y"] = Len(log)
  BY <1>1 DEF CountsInv, NothingLost
\* All but consumeXY change places and mutexes only.
<1>10. ASSUME UNCHANGED <<k, val, total>>, NEW label \in Labels, Goto("t3", label),
              NEW m \in Mutexes, Lock("t3", m) \/ Unlock(m)
       PROVE  Typed' /\ pc'["t3"] = label
  <2>1. owner' \in [Mutexes -> Threads \cup {Free}]
    BY <1>0, <1>10 DEF Typed, Lock, Unlock
  <2>2. pc' \in [Threads -> Labels] /\ pc'["t3"] = label
    BY <1>0, <1>10 DEF Typed, Goto
  <2> QED
    BY <1>0, <1>1, <1>10, <2>1, <2>2 DEF Typed
<1>11. /\ "spin" \in Labels /\ "try" \in Labels /\ "use" \in Labels
       /\ "unlock1" \in Labels /\ "unlock2" \in Labels /\ "done" \in Labels
  BY DEF Labels
<1>12. owner = [m \in Mutexes |-> owner[m]]
  BY <1>0 DEF Typed
<1>13. CASE try_first
  <2>1. /\ pc["t3"] = "spin" /\ Lock("t3", "m1") /\ Goto("t3", "try")
        /\ UNCHANGED <<k, val, total>>
    BY <1>13 DEF try_first
  <2>2. Typed' /\ pc'["t3"] = "try"
    BY <1>0, <1>10, <1>11, <2>1
  <2>3. owner["m1"] = Free /\ owner'["m1"] = "t3" /\ owner'["m2"] = owner["m2"]
    BY <1>0, <1>12, <2>1 DEF Lock
  <2> QED
    BY <1>0, <1>1, <1>3, <1>5, <1>7, <1>8, <1>9, <2>1, <2>2, <2>3
<1>14. CASE try_second
  <2>1. /\ pc["t3"] = "try" /\ UNCHANGED <<k, val, total>>
        /\ \/ Lock("t3", "m2") /\ Goto("t3", "use")
           \/ Unlock("m1") /\ Goto("t3", "spin")
    BY <1>14 DEF try_second
  <2>2. CASE Lock("t3", "m2") /\ Goto("t3", "use")
    <3>1. Typed' /\ pc'["t3"] = "use"
      BY <1>0, <1>10, <1>11, <2>1, <2>2
    <3>2. owner["m2"] = Free /\ owner'["m2"] = "t3" /\ owner'["m1"] = owner["m1"]
      BY <1>0, <1>12, <2>2 DEF Lock
    <3> QED
      BY <1>0, <1>1, <1>3, <1>5, <1>7, <1>8, <1>9, <2>1, <3>1, <3>2
  <2>3. CASE Unlock("m1") /\ Goto("t3", "spin")
    <3>1. Typed' /\ pc'["t3"] = "spin"
      BY <1>0, <1>10, <1>11, <2>1, <2>3
    <3>2. owner["m1"] = "t3" /\ owner'["m2"] = owner["m2"]
      BY <1>0, <1>5, <1>12, <2>1, <2>3 DEF Unlock
    <3> QED
      BY <1>0, <1>1, <1>3, <1>5, <1>7, <1>8, <1>9, <2>1, <3>1, <3>2
  <2> QED
    BY <2>1, <2>2, <2>3
<1>15. CASE consumeXYUnlock
  <2>1. UNCHANGED <<k, val, total>>
    BY <1>15 DEF consumeXYUnlock
  <2>2. CASE pc["t3"] = "unlock1" /\ Unlock("m1") /\ Goto("t3", "unlock2")
    <3>1. Typed' /\ pc'["t3"] = "unlock2"
      BY <1>0, <1>10, <1>11, <2>1, <2>2
    <3>2. owner["m1"] = "t3" /\ owner'["m2"] = owner["m2"]
      BY <1>0, <1>5, <1>12, <2>2 DEF Unlock
    <3> QED
      BY <1>0, <1>1, <1>3, <1>5, <1>7, <1>8, <1>9, <2>1, <2>2, <3>1, <3>2
  <2>3. CASE /\ pc["t3"] = "unlock2" /\ Unlock("m2")
             /\ Goto("t3", IF k["t3"] = 0 THEN "done" ELSE "spin")
    <3> DEFINE label == IF k["t3"] = 0 THEN "done" ELSE "spin"
    <3>1. label \in Labels /\ label \in {"spin", "done"} /\ (label = "spin" => k["t3"] # 0)
      BY <1>11
    <3> HIDE DEF label
    <3>2. Goto("t3", label)
      BY <2>3 DEF label
    <3>3. Typed' /\ pc'["t3"] = label
      BY <1>0, <1>10, <2>1, <2>3, <3>1, <3>2
    <3>4. owner["m2"] = "t3" /\ owner'["m1"] = owner["m1"]
      BY <1>0, <1>5, <1>12, <2>3 DEF Unlock
    <3> QED
      BY <1>0, <1>1, <1>3, <1>5, <1>7, <1>8, <1>9, <2>1, <2>3, <3>1, <3>3, <3>4
  <2> QED
    BY <1>15, <2>2, <2>3 DEF consumeXYUnlock
<1>16. CASE consumeXY
  <2>1. /\ pc["t3"] = "use" /\ Goto("t3", "unlock1") /\ UNCHANGED owner
    BY <1>16 DEF consumeXY
  <2>2. pc' \in [Threads -> Labels] /\ pc'["t3"] = "unlock1"
    BY <1>0, <1>11, <2>1 DEF Typed, Goto
  <2>3. pc["t1"] # "write" /\ pc["t2"] # "write"
    BY <1>5, <2>1
  <2>4. /\ val["X"] \in Nat /\ val["Y"] \in Nat /\ total \in Nat /\ k["t3"] \in Nat
    BY <1>0 DEF Typed
  <2>5. CASE UNCHANGED <<k, total, val>>
    <3>1. Typed'
      BY <1>0, <1>1, <2>1, <2>2, <2>5 DEF Typed
    <3> QED
      BY <1>1, <1>3, <1>5, <1>7, <1>8, <1>9, <2>1, <2>2, <2>3, <2>5, <3>1
  <2>6. CASE /\ k' = [k EXCEPT !["t3"] = @ - 1] /\ val' = [X |-> 0, Y |-> 0]
             /\ total' = total + val["X"] + val["Y"]
    <3>1. k["t3"] # 0
      BY <1>7, <2>1
    <3>2. k' \in [Threads -> Nat] /\ \A s \in {"t1", "t2"} : k'[s] = k[s]
      BY <1>0, <1>3, <2>4, <2>6, <3>1, SMTT(30) DEF Typed
    <3>3. val' \in [{"X", "Y"} -> Nat] /\ val'["X"] = 0 /\ val'["Y"] = 0 /\ total' \in Nat
      BY <2>4, <2>6
    <3>4. Typed'
      BY <1>0, <1>1, <2>1, <2>2, <3>2, <3>3 DEF Typed
    <3>5. total' + val'["X"] + val'["Y"] = Len(log')
      BY <1>1, <1>9, <2>4, <2>6, <3>3
    <3> QED
      BY <1>1, <1>3, <1>5, <1>8, <2>1, <2>2, <2>3, <3>2, <3>4, <3>5
  <2> QED
    BY <1>16, <2>5, <2>6 DEF consumeXY
<1> QED
  BY <1>13, <1>14, <1>15, <1>16
-----------------------------------------------------------------------------
(* The theorems                                                            *)

LEMMA CountsInductive == CountsInv /\ [Next]_vars => CountsInv'
<1> SUFFICES ASSUME CountsInv, [Next]_vars PROVE CountsInv'
  OBVIOUS
<1>1. asleep \subseteq Threads
  BY DEF CountsInv, Typed
<1>2. CASE UNCHANGED vars
  BY <1>1, <1>2, SleepingKeeps DEF vars
<1>3. ASSUME NEW t \in Threads, wakeup(t) PROVE CountsInv'
  BY <1>1, <1>3, SleepingKeeps DEF wakeup
<1>4. ASSUME NEW t \in Threads, Thread(t) PROVE CountsInv'
  <2>1. CASE lock(t) BY <2>1, LockKeeps
  <2>2. CASE timeout(t) BY <2>2, TimeoutKeeps
  <2>3. CASE read(t) BY <2>3, ReadKeeps
  <2>4. CASE write(t) BY <2>4, WriteKeeps
  <2>5. CASE unlock(t) BY <2>5, UnlockKeeps
  <2>6. CASE lock_first(t) \/ lock_second(t) \/ unlock_both(t) BY <2>6, PairingKeeps
  <2>7. CASE producer \/ producer_notify \/ consumer_take \/ consumer_notify
    BY <2>7, ProducerConsumerKeeps
  <2>8. CASE withdrowMoney \/ addMoney BY <2>8, AccountKeeps
  <2>9. CASE try_first \/ try_second \/ consumeXY \/ consumeXYUnlock
    BY <2>9, ConsumerKeeps
  <2> QED
    BY <1>4, <2>1, <2>2, <2>3, <2>4, <2>5, <2>6, <2>7, <2>8, <2>9, Zenon DEF Thread
<1> QED
  BY <1>2, <1>3, <1>4 DEF Next

\* The invariant of the counters, the buffer and the log.
THEOREM CountsInvHolds == Spec => []CountsInv
<1>1. Init => CountsInv
  BY CountsInitially
<1>2. CountsInv /\ [Next]_vars => CountsInv'
  BY CountsInductive
<1> QED
  BY <1>1, <1>2, PTL DEF Spec

\* The types; a thread in its critical section has the mutex, and the recursive
\* mutex is not locked deeper than the recursion goes.
THEOREM ThreadTypesHold == Spec => []TypeOK
<1>1. ASSUME CountsInv PROVE TypeOK
  <2>1. Typed /\ HoldersRight /\ DepthRight
    BY <1>1 DEF CountsInv
  <2>2. depth \in 0 .. Rounds
    <3>1. Rounds \in Nat /\ depth \in Nat /\ \A t \in Threads : k[t] \in Nat
      BY <2>1, DemosAssumption DEF Typed
    <3>2. CASE demo # "recursive_mutex" \/ owner["m1"] = Free
      BY <2>1, <3>1, <3>2 DEF DepthRight
    <3>3. CASE demo = "recursive_mutex" /\ owner["m1"] # Free
      <4>1. PICK t \in {"t1", "t2"} : owner["m1"] = t
        BY <2>1, <3>3, DemosAre DEF DepthRight, Typed
      <4>2. /\ pc[t] \in {"lock", "read", "write", "unlock"}
            /\ pc[t] = "lock" => depth + k[t] = Rounds
            /\ pc[t] \in {"read", "write"} => depth + k[t] = Rounds + 1 /\ k[t] # 0
            /\ pc[t] = "unlock" => depth \in 1 .. Rounds
        BY <1>1, <2>1, <3>3, <4>1, DemosAre DEF DepthRight, CountsInv, CountsRight
      <4>3. k[t] \in Nat
        BY <3>1, <4>1, DemosAre
      <4> QED
        BY <3>1, <4>2, <4>3
    <3> QED
      BY <3>2, <3>3
  <2>3. val \in [{"X", "Y"} -> Int]
    BY <2>1 DEF Typed
  <2> QED
    BY <2>1, <2>2, <2>3 DEF TypeOK, Typed, HoldersRight
<1> QED
  BY <1>1, CountsInvHolds, PTL

\* No increment, item or amount is lost or counted twice, for any order of the
\* threads and any number of rounds (try_lock_mutex.cpp:21, try_lock_std.cpp:36-41,
\* producer_consumer.cpp:17-38, condition_variable.cpp:25-28).
THEOREM NothingLostHolds == Spec => []NothingLost
<1>1. CountsInv => NothingLost
  BY DEF CountsInv
<1> QED
  BY <1>1, CountsInvHolds, PTL

\* The increments made under one hold of a mutex are not mixed with others
\* (lock_guard.cpp:19-24, recursive_mutex.cpp:13-16).
THEOREM SectionsWholeHolds == Spec => []SectionsWhole
<1>1. CountsInv => SectionsWhole
  BY DEF CountsInv
<1> QED
  BY <1>1, CountsInvHolds, PTL

-----------------------------------------------------------------------------
(* The Bloom filter                                                        *)

\* A new filter has no bits and no items (main.go:18-26).
LEMMA BloomInitially == BloomInit => NoFalseNegatives
BY DEF BloomInit, NewBloomFilter, NoFalseNegatives

\* Add sets every bit that Check looks at, and keeps the others (main.go:44-59).
LEMMA BloomInductive ==
  NoFalseNegatives /\ [BloomStep]_bloomVars => NoFalseNegatives'
<1> SUFFICES ASSUME NoFalseNegatives, [BloomStep]_bloomVars
             PROVE  NoFalseNegatives'
  OBVIOUS
<1>1. CASE UNCHANGED bloomVars
  BY <1>1 DEF bloomVars, NoFalseNegatives, Check, Seeds, index, modulus
<1>2. ASSUME NEW item \in Items, Add(item)
      PROVE  NoFalseNegatives'
  <2>1. UNCHANGED <<size, hashes, hash>> BY <1>2 DEF Add
  <2>2. ASSUME NEW j, NEW i
        PROVE  index(j, i)' = index(j, i)
    BY <2>1 DEF index, modulus
  <2>3. Seeds' = Seeds BY <2>1 DEF Seeds
  <2>4. \A j \in added' : Check(j)'
    BY <1>2, <2>2, <2>3 DEF Add, Check, NoFalseNegatives
  <2>5. \A bit \in bits' : \E j \in added', i \in Seeds' : index(j, i)' = bit
    <3>1. SUFFICES ASSUME NEW bit \in bits'
                   PROVE  \E j \in added', i \in Seeds : index(j, i) = bit
      BY <2>2, <2>3
    <3>2. CASE bit \in bits BY <1>2, <3>2 DEF Add, NoFalseNegatives
    <3>3. CASE bit \notin bits BY <1>2, <3>3 DEF Add
    <3> QED BY <3>2, <3>3
  <2> QED BY <2>4, <2>5 DEF NoFalseNegatives
<1> QED BY <1>1, <1>2 DEF BloomStep

\* main.go:83-85: an item that was added is never answered "is DEFINITELY NOT in
\* the set", and every true bit is an added item's.
THEOREM NoFalseNegativesHolds == BloomSpec => []NoFalseNegatives
<1>1. BloomInit => NoFalseNegatives BY BloomInitially
<1>2. NoFalseNegatives /\ [BloomStep]_bloomVars => NoFalseNegatives' BY BloomInductive
<1> QED BY <1>1, <1>2, PTL DEF BloomSpec

-----------------------------------------------------------------------------
(* The Lox scanner: its maps and its characters                            *)

SingleMarks == {"(", ")", LeftBrace, RightBrace, Comma, ".", "-", "+", Semicolon, "*"}

LEMMA SingleNames == \A c \in DOMAIN Single : c \in SingleMarks
BY DEF Single, MapOf, SingleMarks

LEMMA OneOrTwoNames == \A c \in DOMAIN OneOrTwo : c \in {"!", "=", "<", ">"}
BY DEF OneOrTwo, MapOf

\* The kinds of characters that scanToken tells apart exclude each other.
LEMMA Kinds ==
  /\ \A c \in DOMAIN Single : c \notin DOMAIN OneOrTwo \cup Blanks \cup {"/", Newline, Quote}
                                       \cup Digits /\ ~ isAlpha(c)
  /\ \A c \in DOMAIN OneOrTwo : c \notin Blanks \cup {"/", Newline, Quote, "."} \cup Digits
                                /\ ~ isAlpha(c)
  /\ \A c \in Blanks \cup {Newline} : c \notin {"/", Quote, "."} \cup Digits /\ ~ isAlpha(c)
  /\ \A c \in Digits : c \notin {"/", Newline, Quote, "."} /\ ~ isAlpha(c)
  /\ \A c : isAlpha(c) => c \notin {"/", Newline, Quote, "."}
  /\ "/" # Quote /\ "/" # "." /\ Quote # "." /\ "/" # Newline /\ "=" # Newline /\ Newline \notin Blanks
  /\ "." # Newline
<1>1. \A c \in SingleMarks : c \notin {"!", "=", "<", ">"} \cup Blanks \cup {"/", Newline, Quote}
                                       \cup Digits /\ ~ isAlpha(c)
  <2>1. \A c \in SingleMarks : c \notin {"!", "=", "<", ">"} \cup Blanks \cup {"/", Newline, Quote}
    BY ZenonT(60) DEF SingleMarks, LeftBrace, RightBrace, Comma, Semicolon, Blanks, Newline, Quote
  <2>2. \A c \in SingleMarks : c \notin Digits
    BY ZenonT(60) DEF SingleMarks, LeftBrace, RightBrace, Comma, Semicolon, Digits
  <2>3. \A c \in SingleMarks : ~ isAlpha(c)
    BY ZenonT(120) DEF SingleMarks, LeftBrace, RightBrace, Comma, Semicolon, isAlpha
  <2> QED
    BY <2>1, <2>2, <2>3, Zenon
<1>2.  /\ \A c \in {"!", "=", "<", ">"} : c \notin Blanks \cup {"/", Newline, Quote, "."} \cup Digits
                                /\ ~ isAlpha(c)
  BY ZenonT(120) DEF Blanks, Newline, Quote, Digits, isAlpha
<1>3. \A c \in Blanks \cup {Newline} : c \notin {"/", Quote, "."} \cup Digits /\ ~ isAlpha(c)
  BY ZenonT(120) DEF Blanks, Newline, Quote, Digits, isAlpha
<1>4. \A c \in Digits : c \notin {"/", Newline, Quote, "."} /\ ~ isAlpha(c)
  <2>1. \A c \in Digits : c \notin {"/", Newline, Quote, "."}
    BY ZenonT(60) DEF Newline, Quote, Digits
  <2>2. \A c \in {"0", "1", "2", "3", "4"} : ~ isAlpha(c)
    BY ZenonT(120) DEF isAlpha
  <2>3. \A c \in {"5", "6", "7", "8", "9"} : ~ isAlpha(c)
    BY ZenonT(120) DEF isAlpha
  <2> QED
    BY <2>1, <2>2, <2>3, Zenon DEF Digits
<1>5. \A c : isAlpha(c) => c \notin {"/", Newline, Quote, "."}
  BY ZenonT(120) DEF Blanks, Newline, Quote, Digits, isAlpha
<1>6. /\ "/" # Quote /\ "/" # "." /\ Quote # "." /\ "/" # Newline /\ "=" # Newline /\ Newline \notin Blanks
      /\ "." # Newline
  BY ZenonT(120) DEF Blanks, Newline, Quote, Digits, isAlpha
<1>7. \A c \in DOMAIN Single : c \in SingleMarks
  BY SingleNames
<1>8. \A c \in DOMAIN OneOrTwo : c \in {"!", "=", "<", ">"}
  BY OneOrTwoNames
<1>9. \A c \in DOMAIN Single : c \notin DOMAIN OneOrTwo \cup Blanks \cup {"/", Newline, Quote}
                                       \cup Digits /\ ~ isAlpha(c)
  BY <1>1, <1>7, <1>8
<1>10. \A c \in DOMAIN OneOrTwo : c \notin Blanks \cup {"/", Newline, Quote, "."} \cup Digits
                                /\ ~ isAlpha(c)
  BY <1>2, <1>8, Zenon
<1> QED
  BY <1>3, <1>4, <1>5, <1>6, <1>9, <1>10

-----------------------------------------------------------------------------
(* The lexical grammar, in positions of the source                         *)

\* The characters of a piece of the source.
LEMMA WordIs ==
  ASSUME source \in Seq(Chars), NEW p \in Nat, NEW to \in Nat, p < to, to <= length
  PROVE  /\ text(p, to) \in Seq(Chars) /\ Len(text(p, to)) = to - p /\ text(p, to) # <<>>
         /\ \A i \in 1 .. to - p : text(p, to)[i] = source[p + i]
<1>1. \A i \in p + 1 .. to : source[i] \in Chars
  BY DEF length
<1>2. /\ text(p, to) \in Seq(Chars) /\ Len(text(p, to)) = to - p
      /\ \A i \in 1 .. to - p : text(p, to)[i] = source[p + i]
  BY <1>1, SubSeqProperties DEF text
<1> QED
  BY <1>2

\* A word is of a set if each of its characters is.
LEMMA AllElements ==
  ASSUME NEW X, NEW word \in Seq(X), NEW S
  PROVE  All(word, S) <=> \A i \in 1 .. Len(word) : word[i] \in S
BY RangeEquality DEF All

\* ... for a piece of the source, and for a piece without one of its characters.
LEMMA AllIs ==
  ASSUME source \in Seq(Chars), NEW p \in Nat, NEW to \in Nat, p < to, to <= length, NEW S
  PROVE  All(text(p, to), S) <=> \A i \in p + 1 .. to : source[i] \in S
<1> DEFINE word == text(p, to)
<1>0. /\ word \in Seq(Chars) /\ Len(word) = to - p
      /\ \A i \in 1 .. to - p : word[i] = source[p + i]
  BY WordIs
<1>1. All(text(p, to), S) <=> \A i \in 1 .. to - p : source[p + i] \in S
  <2> HIDE DEF word
  <2>1. All(word, S) <=> \A i \in 1 .. Len(word) : word[i] \in S
    BY <1>0, AllElements
  <2> QED
    BY <1>0, <2>1 DEF word
<1>2. ASSUME \A i \in 1 .. to - p : source[p + i] \in S, NEW i \in p + 1 .. to
      PROVE  source[i] \in S
  <2>1. i - p \in 1 .. to - p /\ p + (i - p) = i
    OBVIOUS
  <2> QED
    BY <1>2, <2>1
<1>3. ASSUME \A i \in p + 1 .. to : source[i] \in S, NEW i \in 1 .. to - p
      PROVE  source[p + i] \in S
  <2>1. p + i \in p + 1 .. to
    OBVIOUS
  <2> QED
    BY <1>3, <2>1
<1> QED
  BY <1>1, <1>2, <1>3

LEMMA AllButOne ==
  ASSUME NEW X, NEW word \in Seq(X), NEW n \in 1 .. Len(word), NEW S
  PROVE  All(RemoveAt(word, n), S) <=> \A i \in 1 .. Len(word) : i # n => word[i] \in S
<1> DEFINE a == SubSeq(word, 1, n - 1)
           b == SubSeq(word, n + 1, Len(word))
<1>1. /\ Len(word) \in Nat /\ n \in Nat /\ n >= 1 /\ n <= Len(word)
      /\ \A i \in 1 .. Len(word) : word[i] \in X
  OBVIOUS
<1>2. a \in Seq(X) /\ Len(a) = n - 1 /\ \A i \in 1 .. n - 1 : a[i] = word[i]
  <2>1. \A i \in 1 .. n - 1 : word[i] \in X
    BY <1>1
  <2> QED
    BY <1>1, <2>1, SubSeqProperties
<1>3. b \in Seq(X) /\ Len(b) = Len(word) - n /\ \A i \in 1 .. Len(word) - n : b[i] = word[n + i]
  <2>1. \A i \in n + 1 .. Len(word) : word[i] \in X
    BY <1>1
  <2> QED
    BY <1>1, <2>1, SubSeqProperties
<1>4. RemoveAt(word, n) = a \o b
  BY DEF RemoveAt
<1> HIDE DEF a, b
<1>5. All(RemoveAt(word, n), S) <=> /\ \A i \in 1 .. n - 1 : word[i] \in S
                                    /\ \A i \in 1 .. Len(word) - n : word[n + i] \in S
  <2>1. Range(a \o b) = Range(a) \cup Range(b)
    BY <1>2, <1>3, RangeConcatenation
  <2>2. All(a \o b, S) <=> All(a, S) /\ All(b, S)
    BY <2>1 DEF All
  <2>3. All(a, S) <=> \A i \in 1 .. Len(a) : a[i] \in S
    BY <1>2, AllElements
  <2>4. All(b, S) <=> \A i \in 1 .. Len(b) : b[i] \in S
    BY <1>3, AllElements
  <2>5. (\A i \in 1 .. Len(a) : a[i] \in S) <=> \A i \in 1 .. n - 1 : word[i] \in S
    BY <1>1, <1>2
  <2>6. (\A i \in 1 .. Len(b) : b[i] \in S) <=> \A i \in 1 .. Len(word) - n : word[n + i] \in S
    BY <1>1, <1>3
  <2> QED
    BY <1>4, <2>2, <2>3, <2>4, <2>5, <2>6
<1>6. ASSUME \A i \in 1 .. n - 1 : word[i] \in S, \A i \in 1 .. Len(word) - n : word[n + i] \in S,
             NEW i \in 1 .. Len(word), i # n
      PROVE  word[i] \in S
  <2>1. CASE i < n
    BY <1>1, <1>6, <2>1
  <2>2. CASE i > n
    <3>1. i - n \in 1 .. Len(word) - n /\ n + (i - n) = i
      BY <1>1, <2>2
    <3> QED
      BY <1>6, <3>1
  <2> QED
    BY <1>1, <1>6, <2>1, <2>2
<1>7. ASSUME \A i \in 1 .. Len(word) : i # n => word[i] \in S
      PROVE  /\ \A i \in 1 .. n - 1 : word[i] \in S
             /\ \A i \in 1 .. Len(word) - n : word[n + i] \in S
  <2>1. ASSUME NEW i \in 1 .. n - 1 PROVE word[i] \in S
    BY <1>1, <1>7
  <2>2. ASSUME NEW i \in 1 .. Len(word) - n PROVE word[n + i] \in S
    <3>1. n + i \in 1 .. Len(word) /\ n + i # n
      BY <1>1
    <3> QED
      BY <1>7, <3>1
  <2> QED
    BY <2>1, <2>2
<1> QED
  BY <1>5, <1>6, <1>7

\* What the grammar's words are, said of positions in the source: a number is
\* digits, or digits, a dot and digits;
LEMMA NumberIs ==
  ASSUME source \in Seq(Chars), NEW p \in Nat, NEW to \in Nat, p < to, to <= length
  PROVE  IsNumber(text(p, to)) <=>
           \/ \A i \in p + 1 .. to : source[i] \in Digits
           \/ \E m \in p + 2 .. to - 1 :
                source[m] = "." /\ \A i \in p + 1 .. to : i # m => source[i] \in Digits
<1> DEFINE word == text(p, to)
<1>1. /\ word \in Seq(Chars) /\ Len(word) = to - p /\ word # <<>>
      /\ \A i \in 1 .. to - p : word[i] = source[p + i]
  BY WordIs
<1>2. All(word, Digits) <=> \A i \in p + 1 .. to : source[i] \in Digits
  BY AllIs
<1> HIDE DEF word
<1>3. IsNumber(word) <=>
        \/ All(word, Digits)
        \/ \E n \in 2 .. to - p - 1 :
             source[p + n] = "." /\ \A i \in 1 .. to - p : i # n => source[p + i] \in Digits
  <2>1. \A n \in 2 .. to - p - 1 :
          All(RemoveAt(word, n), Digits) <=> \A i \in 1 .. to - p : i # n => source[p + i] \in Digits
    <3> SUFFICES ASSUME NEW n \in 2 .. to - p - 1
        PROVE All(RemoveAt(word, n), Digits) <=> \A i \in 1 .. to - p : i # n => source[p + i] \in Digits
      OBVIOUS
    <3>1. n \in 1 .. Len(word)
      BY <1>1
    <3>2. All(RemoveAt(word, n), Digits) <=> \A i \in 1 .. Len(word) : i # n => word[i] \in Digits
      BY <1>1, <3>1, AllButOne
    <3> QED
      BY <1>1, <3>2
  <2>2. \A n \in 2 .. to - p - 1 : word[n] = source[p + n]
    BY <1>1
  <2> QED
    BY <1>1, <2>1, <2>2 DEF IsNumber
<1>4. ASSUME NEW n \in 2 .. to - p - 1, source[p + n] = ".",
             \A i \in 1 .. to - p : i # n => source[p + i] \in Digits
      PROVE  \E m \in p + 2 .. to - 1 :
                source[m] = "." /\ \A i \in p + 1 .. to : i # m => source[i] \in Digits
  <2>1. p + n \in p + 2 .. to - 1
    OBVIOUS
  <2>2. ASSUME NEW i \in p + 1 .. to, i # p + n PROVE source[i] \in Digits
    <3>1. i - p \in 1 .. to - p /\ i - p # n /\ p + (i - p) = i
      BY <2>2
    <3> QED
      BY <1>4, <3>1
  <2> QED
    BY <1>4, <2>1, <2>2
<1>5. ASSUME NEW m \in p + 2 .. to - 1, source[m] = ".",
             \A i \in p + 1 .. to : i # m => source[i] \in Digits
      PROVE  \E n \in 2 .. to - p - 1 :
               source[p + n] = "." /\ \A i \in 1 .. to - p : i # n => source[p + i] \in Digits
  <2>1. m - p \in 2 .. to - p - 1 /\ p + (m - p) = m
    OBVIOUS
  <2>2. ASSUME NEW i \in 1 .. to - p, i # m - p PROVE source[p + i] \in Digits
    <3>1. p + i \in p + 1 .. to /\ p + i # m
      BY <2>2
    <3> QED
      BY <1>5, <3>1
  <2> QED
    BY <1>5, <2>1, <2>2
<1> QED
  BY <1>2, <1>3, <1>4, <1>5 DEF word

\* ... an identifier starts with a letter;
LEMMA IdentifierIs ==
  ASSUME source \in Seq(Chars), NEW p \in Nat, NEW to \in Nat, p < to, to <= length
  PROVE  IsIdentifier(text(p, to)) <=>
           source[p + 1] \in Alphas /\ \A i \in p + 1 .. to : source[i] \in Alphas \cup Digits
<1>1. text(p, to) # <<>> /\ text(p, to)[1] = source[p + 1]
  <2>1. 1 \in 1 .. to - p
    OBVIOUS
  <2> QED
    BY <2>1, WordIs
<1>2. All(text(p, to), Alphas \cup Digits) <=>
        \A i \in p + 1 .. to : source[i] \in Alphas \cup Digits
  BY AllIs
<1> QED
  BY <1>1, <1>2, Zenon DEF IsIdentifier

\* ... a comment starts with two slashes and has no newline;
LEMMA CommentIs ==
  ASSUME source \in Seq(Chars), NEW p \in Nat, NEW to \in Nat, p < to, to <= length
  PROVE  IsComment(text(p, to)) <=>
           /\ p + 2 <= to /\ source[p + 1] = "/" /\ source[p + 2] = "/"
           /\ \A i \in p + 1 .. to : source[i] \in Chars \ {Newline}
<1> DEFINE word == text(p, to)
<1>1. /\ word \in Seq(Chars) /\ Len(word) = to - p
      /\ \A i \in 1 .. to - p : word[i] = source[p + i]
  BY WordIs
<1>2. All(word, Chars \ {Newline}) <=>
        \A i \in p + 1 .. to : source[i] \in Chars \ {Newline}
  BY AllIs
<1> HIDE DEF word
<1>3. ASSUME p + 2 <= to
      PROVE  SubSeq(word, 1, 2) = <<"/", "/">> <=> source[p + 1] = "/" /\ source[p + 2] = "/"
  <2>1. 1 \in 1 .. to - p /\ 2 \in 1 .. to - p
    BY <1>3
  <2>2. \A i \in 1 .. 2 : word[i] \in Chars
    BY <1>1, <1>3
  <2>3. /\ Len(SubSeq(word, 1, 2)) = 2 /\ SubSeq(word, 1, 2) \in Seq(Chars)
        /\ \A i \in 1 .. 2 : SubSeq(word, 1, 2)[i] = word[i]
    BY <2>2, SubSeqProperties
  <2>4. SubSeq(word, 1, 2) = <<word[1], word[2]>>
    <3>1. <<word[1], word[2]>> \in Seq(Chars) /\ Len(<<word[1], word[2]>>) = 2
      BY <2>2
    <3>2. \A i \in 1 .. 2 : <<word[1], word[2]>>[i] = word[i]
      OBVIOUS
    <3> QED
      BY <2>3, <3>1, <3>2, SeqEqual, ZenonT(60)
  <2>5. word[1] = source[p + 1] /\ word[2] = source[p + 2]
    BY <1>1, <2>1
  <2> QED
    BY <2>4, <2>5
<1>4. Len(word) >= 2 <=> p + 2 <= to
  BY <1>1
<1> QED
  BY <1>2, <1>3, <1>4 DEF IsComment, word

\* ... a string is between two quotes, with none inside;
LEMMA StringIs ==
  ASSUME source \in Seq(Chars), NEW p \in Nat, NEW to \in Nat, p < to, to <= length
  PROVE  IsString(text(p, to)) <=>
           /\ p + 2 <= to /\ source[p + 1] = Quote /\ source[to] = Quote
           /\ \A i \in p + 2 .. to - 1 : source[i] # Quote
<1> DEFINE word == text(p, to)
           inner == SubSeq(word, 2, Len(word) - 1)
<1>1. /\ word \in Seq(Chars) /\ Len(word) = to - p
      /\ \A i \in 1 .. to - p : word[i] = source[p + i]
  BY WordIs
<1> HIDE DEF word
<1>2. ASSUME p + 2 <= to
      PROVE  Quote \notin Range(inner) <=> \A i \in p + 2 .. to - 1 : source[i] # Quote
  <2>1. \A i \in 2 .. Len(word) - 1 : word[i] \in Chars
    BY <1>1
  <2>2. /\ inner \in Seq(Chars) /\ Len(inner) = to - p - 2
        /\ \A i \in 1 .. to - p - 2 : inner[i] = word[i + 1]
    <3>1. Len(word) - 1 \in Int
      BY <1>1
    <3> QED
      BY <1>1, <1>2, <2>1, <3>1, SubSeqProperties
  <2> HIDE DEF inner
  <2>3. Range(inner) = {inner[i] : i \in 1 .. to - p - 2}
    BY <2>2, RangeEquality
  <2>4. ASSUME NEW i \in 1 .. to - p - 2
        PROVE  p + i + 1 \in p + 2 .. to - 1 /\ inner[i] = source[p + i + 1]
    <3>1. i + 1 \in 1 .. to - p /\ p + (i + 1) = p + i + 1 /\ p + i + 1 \in p + 2 .. to - 1
      BY <1>2
    <3> QED
      BY <1>1, <2>2, <3>1
  <2>5. ASSUME NEW i \in p + 2 .. to - 1
        PROVE  i - p - 1 \in 1 .. to - p - 2 /\ inner[i - p - 1] = source[i]
    <3>1. i - p - 1 \in 1 .. to - p - 2 /\ p + (i - p - 1) + 1 = i
      BY <1>2
    <3> QED
      BY <2>4, <3>1
  <2>6. ASSUME Quote \notin Range(inner), NEW i \in p + 2 .. to - 1 PROVE source[i] # Quote
    BY <2>3, <2>5, <2>6
  <2>7. ASSUME \A i \in p + 2 .. to - 1 : source[i] # Quote PROVE Quote \notin Range(inner)
    BY <2>3, <2>4, <2>7
  <2> QED
    BY <2>6, <2>7
<1>3. Len(word) >= 2 <=> p + 2 <= to
  BY <1>1
<1>4. word[1] = source[p + 1] /\ Last(word) = source[to]
  <2>1. 1 \in 1 .. to - p /\ to - p \in 1 .. to - p /\ p + (to - p) = to
    OBVIOUS
  <2> QED
    BY <1>1, <2>1 DEF Last
<1> QED
  BY <1>2, <1>3, <1>4 DEF IsString, word

\* ... and a mark is one character, or two of which the second is `='.
LEMMA MarkIs ==
  ASSUME source \in Seq(Chars), NEW p \in Nat, NEW to \in Nat, p < to, to <= length
  PROVE  IsMark(text(p, to)) <=>
           \/ to = p + 1 /\ source[p + 1] \in Marks \ {Quote}
           \/ to = p + 2 /\ source[p + 1] \in DOMAIN OneOrTwo /\ source[p + 2] = "="
<1> DEFINE word == text(p, to)
<1>1. /\ Len(word) = to - p
      /\ \A i \in 1 .. to - p : word[i] = source[p + i]
  BY WordIs
<1> HIDE DEF word
<1>2. word[1] = source[p + 1] /\ (to = p + 2 => word[2] = source[p + 2])
  <2>1. 1 \in 1 .. to - p /\ (to = p + 2 => 2 \in 1 .. to - p)
    OBVIOUS
  <2> QED
    BY <1>1, <2>1
<1>3. (Len(word) = 1 <=> to = p + 1) /\ (Len(word) = 2 <=> to = p + 2)
  BY <1>1
<1> QED
  BY <1>2, <1>3, Zenon DEF IsMark, word

\* advance stops at the first character that is not in the set.
LEMMA AdvanceIs ==
  ASSUME source \in Seq(Chars), NEW p \in Nat, p <= length, NEW set
  PROVE  LET to == AdvanceWhile(p, set) IN
         /\ to \in p .. length
         /\ to < length => source[to + 1] \notin set
         /\ \A i \in p + 1 .. to : source[i] \in set
<1> DEFINE Stops == {q \in p .. length : ~ At(q, set)}
           Stop(q) == ~ At(q, set) /\ \A r \in p .. q - 1 : At(r, set)
<1>1. length \in Nat /\ length \in Stops
  BY DEF At, length
<1>2. PICK q \in Stops : \A r \in Stops : ~ r < q
  <2>1. Stops \subseteq Nat /\ Stops # {}
    BY <1>1
  <2> QED
    BY <2>1, SmallestElement
<1>3. q \in p .. length /\ Stop(q)
  BY <1>1, <1>2
<1>4. AdvanceWhile(p, set) \in p .. length /\ Stop(AdvanceWhile(p, set))
  <2> HIDE DEF Stop
  <2>1. AdvanceWhile(p, set) = CHOOSE r \in p .. length : Stop(r)
    BY DEF AdvanceWhile, Stop
  <2> QED
    BY <1>3, <2>1
<1> DEFINE to == AdvanceWhile(p, set)
<1> HIDE DEF to
<1>5. to \in p .. length /\ Stop(to)
  BY <1>4 DEF to
<1>6. to < length => source[to + 1] \notin set
  BY <1>5 DEF At
<1>7. ASSUME NEW i \in p + 1 .. to PROVE source[i] \in set
  <2>1. i - 1 \in p .. to - 1 /\ (i - 1) + 1 = i
    BY <1>5
  <2>2. At(i - 1, set)
    BY <1>5, <2>1
  <2> QED
    BY <2>1, <2>2 DEF At
<1> QED
  BY <1>5, <1>6, <1>7 DEF to

\* What a turn of the loop at position p must have found.
ScannedTo(p, to, type, error) ==
  /\ to \in p + 1 .. length /\ error \in BOOLEAN
  /\ error <=> LexemesAt(p) = {}
  /\ ~ error => to \in LexemesAt(p) /\ \A other \in LexemesAt(p) : other <= to
  /\ error => to = IF source[p + 1] = Quote THEN length ELSE p + 1
  /\ type = TypeOf(text(p, to))
Scanned(p, r) == ScannedTo(p, r.to, r.type, r.error)

\* The first character of a lexeme tells its kind.
LEMMA FirstIs ==
  ASSUME source \in Seq(Chars), NEW p \in Nat, NEW to \in Nat, p < to, to <= length
  PROVE  /\ source[p + 1] \in Chars
         /\ IsNumber(text(p, to)) => source[p + 1] \in Digits
         /\ IsIdentifier(text(p, to)) => isAlpha(source[p + 1])
         /\ IsString(text(p, to)) => source[p + 1] = Quote
         /\ IsComment(text(p, to)) => source[p + 1] = "/"
         /\ IsMark(text(p, to)) => source[p + 1] \in Marks \ {Quote}
<1>1. p + 1 \in p + 1 .. to /\ \A m \in p + 2 .. to - 1 : p + 1 # m
  OBVIOUS
<1>2. source[p + 1] \in Chars
  <2>1. p + 1 \in 1 .. Len(source)
    BY DEF length
  <2> QED
    BY <2>1, ElementOfSeq
<1>3. IsNumber(text(p, to)) => source[p + 1] \in Digits
  BY <1>1, NumberIs
<1>4. IsIdentifier(text(p, to)) => isAlpha(source[p + 1])
  BY IdentifierIs DEF Alphas
<1>5. DOMAIN OneOrTwo \subseteq Marks \ {Quote}
  <2>1. Quote \notin DOMAIN OneOrTwo
    BY Kinds
  <2> QED
    BY <2>1 DEF Marks
<1> QED
  BY <1>2, <1>3, <1>4, <1>5, StringIs, CommentIs, MarkIs

\* The lexemes at a place are of a kind that their first character admits.
LEMMA LexemesAre ==
  ASSUME source \in Seq(Chars), NEW p \in Nat, p < length
  PROVE  \A to : to \in LexemesAt(p) <=>
           /\ to \in Nat /\ p < to /\ to <= length
           /\ \/ IsNumber(text(p, to)) \/ IsIdentifier(text(p, to)) \/ IsString(text(p, to))
              \/ IsComment(text(p, to)) \/ IsMark(text(p, to))
<1>1. length \in Nat
  BY DEF length
<1>2. \A to : to \in p + 1 .. length <=> to \in Nat /\ p < to /\ to <= length
  BY <1>1
<1> QED
  BY <1>2 DEF LexemesAt, IsLexeme

\* What is no lexeme has no token.
LEMMA NoType ==
  ASSUME NEW p \in Nat, NEW to \in p + 1 .. length, LexemesAt(p) = {}
  PROVE  TypeOf(text(p, to)) = "none"
<1>1. ~ IsLexeme(text(p, to))
  BY DEF LexemesAt
<1> QED
  BY <1>1, Zenon DEF IsLexeme, TypeOf

\* The type of a mark.
LEMMA MarkTypeIs ==
  ASSUME source \in Seq(Chars), NEW p \in Nat, NEW to \in Nat, p < to, to <= length,
         IsMark(text(p, to))
  PROVE  LET c == source[p + 1] IN
         /\ c \in DOMAIN Single => TypeOf(text(p, to)) = Single[c]
         /\ c \in DOMAIN OneOrTwo => TypeOf(text(p, to)) = OneOrTwo[c][to - p]
         /\ c = "/" => TypeOf(text(p, to)) = "SLASH"
         /\ c \in Blanks \cup {Newline} => TypeOf(text(p, to)) = "none"
<1> DEFINE c == source[p + 1]
           word == text(p, to)
<1>1. c \in Marks \ {Quote}
  BY FirstIs
<1>2. c \notin Digits /\ ~ isAlpha(c) /\ c # Quote
  BY <1>1, Kinds DEF Marks
<1>3. ~ IsNumber(word) /\ ~ IsString(word) /\ ~ IsIdentifier(word)
  BY <1>2, FirstIs
<1>4. word[1] = c /\ Len(word) = to - p
  <2>1. 1 \in 1 .. to - p /\ p + 1 = p + 1
    OBVIOUS
  <2> QED
    BY <2>1, WordIs
<1>5. IsMark(word)
  OBVIOUS
<1> HIDE DEF c, word
<1>6. TypeOf(word) = MarkType(word)
  BY <1>3, <1>5, Zenon DEF TypeOf
<1>7. MarkType(word) =
        CASE c \in DOMAIN OneOrTwo -> OneOrTwo[c][to - p]
          [] c \in DOMAIN Single -> Single[c]
          [] c = "/" -> "SLASH"
          [] OTHER -> "none"
  BY <1>4, Zenon DEF MarkType
<1>8. /\ c \in DOMAIN Single => c \notin DOMAIN OneOrTwo /\ c # "/"
      /\ c \in DOMAIN OneOrTwo => c \notin DOMAIN Single /\ c # "/"
      /\ c = "/" => c \notin DOMAIN Single /\ c \notin DOMAIN OneOrTwo
      /\ c \in Blanks \cup {Newline} =>
           c \notin DOMAIN Single /\ c \notin DOMAIN OneOrTwo /\ c # "/"
  BY Kinds
<1>9. /\ c \in DOMAIN Single => TypeOf(word) = Single[c]
      /\ c \in DOMAIN OneOrTwo => TypeOf(word) = OneOrTwo[c][to - p]
      /\ c = "/" => TypeOf(word) = "SLASH"
      /\ c \in Blanks \cup {Newline} => TypeOf(word) = "none"
  BY <1>6, <1>7, <1>8
<1> QED
  BY <1>9 DEF c, word

\* A mark of one character.
LEMMA OneMark ==
  ASSUME source \in Seq(Chars), NEW p \in Nat, p < length,
         source[p + 1] \in Marks \ {Quote},
         source[p + 1] \notin DOMAIN OneOrTwo \/ ~ At(p + 1, {"="}),
         source[p + 1] # "/" \/ ~ At(p + 1, {"/"})
  PROVE  ScannedTo(p, p + 1, TypeOf(text(p, p + 1)), FALSE) /\ IsMark(text(p, p + 1))
<1> DEFINE c == source[p + 1]
<1>1. c \notin Digits /\ ~ isAlpha(c) /\ c # Quote
  BY Kinds DEF Marks
<1>2. length \in Nat /\ p + 1 \in Nat /\ p < p + 1 /\ p + 1 <= length
  BY DEF length
<1>3. IsMark(text(p, p + 1))
  BY <1>2, MarkIs
<1>4. ASSUME NEW to \in LexemesAt(p) PROVE to = p + 1
  <2>1. to \in Nat /\ p < to /\ to <= length /\ (IsComment(text(p, to)) \/ IsMark(text(p, to)))
    BY <1>1, <1>4, LexemesAre, FirstIs
  <2>2. ~ IsComment(text(p, to))
    <3> SUFFICES ASSUME IsComment(text(p, to)) PROVE FALSE
      OBVIOUS
    <3>1. p + 2 <= to /\ c = "/" /\ source[p + 2] = "/"
      BY <2>1, CommentIs
    <3>2. (p + 1) + 1 = p + 2 /\ p + 1 < length
      BY <1>2, <2>1, <3>1
    <3> QED
      BY <3>1, <3>2 DEF At
  <2>3. ASSUME to = p + 2 PROVE ~ (c \in DOMAIN OneOrTwo /\ source[p + 2] = "=")
    <3>1. (p + 1) + 1 = p + 2 /\ p + 1 < length
      BY <1>2, <2>1, <2>3
    <3> QED
      BY <3>1 DEF At
  <2> QED
    BY <2>1, <2>2, <2>3, MarkIs
<1>5. p + 1 \in LexemesAt(p)
  BY <1>2, <1>3, LexemesAre
<1>6. p + 1 \in p + 1 .. length /\ p + 1 <= p + 1
  BY <1>2
<1> QED
  BY <1>3, <1>4, <1>5, <1>6 DEF ScannedTo

\* A mark of two characters.
LEMMA TwoMarks ==
  ASSUME source \in Seq(Chars), NEW p \in Nat, p < length,
         source[p + 1] \in DOMAIN OneOrTwo, At(p + 1, {"="})
  PROVE  ScannedTo(p, p + 2, TypeOf(text(p, p + 2)), FALSE) /\ IsMark(text(p, p + 2))
<1> DEFINE c == source[p + 1]
<1>1. c \notin Digits /\ ~ isAlpha(c) /\ c # Quote /\ c # "/"
  BY Kinds
<1>2. /\ length \in Nat /\ p + 2 \in Nat /\ p < p + 2 /\ p + 2 <= length
      /\ source[p + 2] = "="
  <2>1. (p + 1) + 1 = p + 2 /\ length \in Nat
    BY DEF length
  <2> QED
    BY <2>1 DEF At
<1>3. IsMark(text(p, p + 2))
  BY <1>2, MarkIs
<1>4. ASSUME NEW to \in LexemesAt(p) PROVE to <= p + 2
  <2>1. to \in Nat /\ p < to /\ to <= length /\ IsMark(text(p, to))
    BY <1>1, <1>4, LexemesAre, FirstIs
  <2>2. to = p + 1 \/ to = p + 2
    BY <2>1, MarkIs
  <2> QED
    BY <2>2
<1>5. p + 2 \in LexemesAt(p)
  BY <1>2, <1>3, LexemesAre
<1>6. p + 2 \in p + 1 .. length
  BY <1>2
<1> QED
  BY <1>3, <1>4, <1>5, <1>6 DEF ScannedTo

\* Behind two slashes the line is skipped, behind one nothing is.
LEMMA Comments ==
  ASSUME source \in Seq(Chars), NEW p \in Nat, p < length,
         source[p + 1] = "/", At(p + 1, {"/"})
  PROVE  ScannedTo(p, AdvanceWhile(p + 2, Chars \ {Newline}), "none", FALSE)
<1> DEFINE to == AdvanceWhile(p + 2, Chars \ {Newline})
<1>1. "/" \notin Digits /\ ~ isAlpha("/") /\ "/" # Quote /\ "/" # Newline
      /\ "/" \notin DOMAIN OneOrTwo
  BY Kinds
<1>2. /\ length \in Nat /\ p + 2 \in Nat /\ p + 2 <= length
      /\ source[p + 2] = "/"
  <2>1. (p + 1) + 1 = p + 2 /\ length \in Nat
    BY DEF length
  <2> QED
    BY <2>1 DEF At
<1>3. /\ to \in p + 2 .. length /\ to \in Nat /\ p < to
      /\ to < length => source[to + 1] \notin Chars \ {Newline}
      /\ \A i \in p + 2 + 1 .. to : source[i] \in Chars \ {Newline}
  BY <1>2, AdvanceIs
<1> HIDE DEF to
<1>4. IsComment(text(p, to))
  <2>1. ASSUME NEW i \in p + 1 .. to PROVE source[i] \in Chars \ {Newline}
    <3>1. CASE i \in {p + 1, p + 2}
      <4>1. i \in 1 .. length
        BY <1>2, <3>1
      <4>2. source[i] \in Chars
        BY <4>1, ElementOfSeq DEF length
      <4> QED
        BY <1>1, <1>2, <3>1, <4>2
    <3>2. CASE i \in p + 2 + 1 .. to
      BY <1>3, <3>2
    <3> QED
      BY <1>3, <2>1, <3>1, <3>2
  <2> QED
    BY <1>2, <1>3, <2>1, CommentIs
<1>5. ASSUME NEW other \in LexemesAt(p) PROVE other <= to
  <2>1. /\ other \in Nat /\ p < other /\ other <= length
        /\ IsComment(text(p, other)) \/ IsMark(text(p, other))
    BY <1>1, LexemesAre, FirstIs
  <2>2. CASE IsMark(text(p, other))
    <3>1. other = p + 1
      BY <1>1, <2>1, <2>2, MarkIs
    <3> QED
      BY <1>3, <3>1
  <2>3. CASE IsComment(text(p, other))
    <3>1. \A i \in p + 1 .. other : source[i] \in Chars \ {Newline}
      BY <2>1, <2>3, CommentIs
    <3>2. ASSUME to < other PROVE FALSE
      <4>1. to < length /\ to + 1 \in p + 1 .. other
        BY <1>2, <1>3, <2>1, <3>2
      <4> QED
        BY <1>3, <3>1, <4>1
    <3> QED
      BY <1>3, <2>1, <3>2
  <2> QED
    BY <2>1, <2>2, <2>3
<1>6. to \in LexemesAt(p) /\ to \in p + 1 .. length
  <2>1. to <= length
    BY <1>2, <1>3
  <2> QED
    BY <1>2, <1>3, <1>4, <2>1, LexemesAre
<1>7. TypeOf(text(p, to)) = "none"
  <2>1. ~ IsNumber(text(p, to)) /\ ~ IsIdentifier(text(p, to)) /\ ~ IsString(text(p, to))
    BY <1>1, <1>2, <1>3, FirstIs
  <2>2. ~ IsMark(text(p, to))
    <3>1. to # p + 1
      BY <1>3
    <3> QED
      BY <1>1, <1>2, <1>3, <3>1, MarkIs
  <2> QED
    BY <2>1, <2>2, Zenon DEF TypeOf
<1>8. ScannedTo(p, to, "none", FALSE)
  BY <1>5, <1>6, <1>7 DEF ScannedTo
<1> QED
  BY <1>8 DEF to

\* A quote takes everything up to the next one, or the whole rest.
LEMMA Strings ==
  ASSUME source \in Seq(Chars), NEW p \in Nat, p < length, source[p + 1] = Quote
  PROVE  Scanned(p, string(p))
<1> DEFINE to == AdvanceWhile(p + 1, Chars \ {Quote})
<1>1. Quote \notin Digits /\ ~ isAlpha(Quote) /\ Quote # "/"
  BY Kinds
<1>2. length \in Nat /\ p + 1 \in Nat /\ p + 1 <= length
  BY DEF length
<1>3. /\ to \in p + 1 .. length /\ to \in Nat
      /\ to < length => source[to + 1] \notin Chars \ {Quote}
      /\ \A i \in p + 1 + 1 .. to : source[i] \in Chars \ {Quote}
  BY <1>2, AdvanceIs
<1>4. string(p) = IF to = length THEN Error(to) ELSE Piece(to + 1, "STRING")
  BY DEF string
<1> HIDE DEF to
<1>5. ASSUME NEW other \in LexemesAt(p)
      PROVE  /\ other \in Nat /\ other <= length /\ IsString(text(p, other))
             /\ p + 2 <= other /\ source[other] = Quote
             /\ \A i \in p + 2 .. other - 1 : source[i] # Quote
  <2>1. other \in Nat /\ p < other /\ other <= length /\ IsString(text(p, other))
    BY <1>1, LexemesAre, FirstIs
  <2> QED
    BY <2>1, StringIs
<1>6. \A other \in LexemesAt(p) : to < other
  <2> SUFFICES ASSUME NEW other \in LexemesAt(p), other <= to PROVE FALSE
    BY <1>3, <1>5
  <2>1. other \in p + 1 + 1 .. to /\ source[other] = Quote
    BY <1>3, <1>5
  <2> QED
    BY <1>3, <2>1
<1>7. CASE to = length
  <2>1. LexemesAt(p) = {}
    BY <1>2, <1>5, <1>6, <1>7
  <2>2. string(p).to = to /\ string(p).type = "none" /\ string(p).error = TRUE
    BY <1>4, <1>7 DEF Error
  <2>3. ScannedTo(p, to, "none", TRUE)
    BY <1>2, <1>3, <1>7, <2>1, NoType DEF ScannedTo
  <2> QED
    BY <2>2, <2>3 DEF Scanned
<1>8. CASE to # length
  <2>1. string(p).to = to + 1 /\ string(p).type = "STRING" /\ string(p).error = FALSE
    BY <1>4, <1>8 DEF Piece
  <2>2. /\ to + 1 \in Nat /\ to + 1 <= length /\ p + 2 <= to + 1 /\ p < to + 1
        /\ source[to + 1] = Quote
    <3>1. to < length /\ to + 1 \in 1 .. length
      BY <1>2, <1>3, <1>8
    <3>2. source[to + 1] \in Chars
      BY <3>1, ElementOfSeq DEF length
    <3> QED
      BY <1>2, <1>3, <3>1, <3>2
  <2>3. IsString(text(p, to + 1))
    <3>1. \A i \in p + 2 .. (to + 1) - 1 : source[i] # Quote
      BY <1>3
    <3> QED
      BY <2>2, <3>1, StringIs
  <2>4. to + 1 \in LexemesAt(p) /\ to + 1 \in p + 1 .. length
    BY <1>2, <2>2, <2>3, LexemesAre
  <2>5. \A other \in LexemesAt(p) : other <= to + 1
    <3> SUFFICES ASSUME NEW other \in LexemesAt(p), to + 1 < other PROVE FALSE
      BY <1>5, <2>2
    <3>1. to + 1 \in p + 2 .. other - 1
      BY <1>5, <2>2
    <3> QED
      BY <1>5, <2>2, <3>1
  <2>6. TypeOf(text(p, to + 1)) = "STRING"
    <3>1. ~ IsNumber(text(p, to + 1)) /\ ~ IsIdentifier(text(p, to + 1))
          /\ ~ IsMark(text(p, to + 1))
      BY <1>1, <2>2, FirstIs
    <3> QED
      BY <2>3, <3>1, Zenon DEF TypeOf
  <2>7. ScannedTo(p, to + 1, "STRING", FALSE)
    BY <2>4, <2>5, <2>6 DEF ScannedTo
  <2> QED
    BY <2>1, <2>7 DEF Scanned
<1> QED
  BY <1>7, <1>8

\* A character that is not a mark.
LEMMA NoMark ==
  /\ \A c \in Digits : c \notin Marks
  /\ \A c : isAlpha(c) => c \notin Marks
BY Kinds DEF Marks

\* A digit takes the digits behind it, and a dot only with a digit behind it.
LEMMA Numbers ==
  ASSUME source \in Seq(Chars), NEW p \in Nat, p < length, source[p + 1] \in Digits
  PROVE  Scanned(p, number(p))
<1> DEFINE whole == AdvanceWhile(p + 1, Digits)
           Dotted == whole + 1 < length /\ source[whole + 1] = "." /\ source[whole + 2] \in Digits
           to == IF At(whole, {"."}) /\ At(whole + 1, Digits) THEN AdvanceWhile(whole + 1, Digits) ELSE whole
<1>1. /\ source[p + 1] # "/" /\ source[p + 1] # Quote /\ ~ isAlpha(source[p + 1])
      /\ source[p + 1] \notin Marks /\ "." \notin Digits
  BY Kinds, NoMark
<1>2. length \in Nat /\ p + 1 \in Nat /\ p + 1 <= length
  BY DEF length
<1>3. /\ whole \in p + 1 .. length /\ whole \in Nat
      /\ whole < length => source[whole + 1] \notin Digits
      /\ \A i \in p + 1 .. whole : source[i] \in Digits
  <2>1. /\ whole \in p + 1 .. length
        /\ whole < length => source[whole + 1] \notin Digits
        /\ \A i \in p + 1 + 1 .. whole : source[i] \in Digits
    BY <1>2, AdvanceIs
  <2> HIDE DEF whole
  <2>2. ASSUME NEW i \in p + 1 .. whole PROVE source[i] \in Digits
    BY <1>2, <2>1
  <2> QED
    BY <1>2, <2>1, <2>2
<1>4. number(p) = Piece(to, "NUMBER")
  BY DEF number
<1>5. Dotted <=> At(whole, {"."}) /\ At(whole + 1, Digits)
  <2>1. (whole + 1) + 1 = whole + 2
    BY <1>3
  <2> HIDE DEF whole
  <2> QED
    BY <1>2, <1>3, <2>1 DEF At
<1>6. ASSUME Dotted
      PROVE  /\ to \in whole + 2 .. length
             /\ to < length => source[to + 1] \notin Digits
             /\ \A i \in whole + 2 .. to : source[i] \in Digits
  <2>1. to = AdvanceWhile(whole + 1, Digits)
    BY <1>5, <1>6
  <2> HIDE DEF whole
  <2>2. whole + 1 \in Nat /\ whole + 1 <= length
    BY <1>2, <1>3, <1>6
  <2>3. /\ AdvanceWhile(whole + 1, Digits) \in whole + 1 .. length
        /\ AdvanceWhile(whole + 1, Digits) < length
             => source[AdvanceWhile(whole + 1, Digits) + 1] \notin Digits
        /\ \A i \in whole + 1 + 1 .. AdvanceWhile(whole + 1, Digits) : source[i] \in Digits
    BY <2>2, AdvanceIs
  <2> HIDE DEF to
  <2>4. to # whole + 1
    <3> SUFFICES ASSUME to = whole + 1 PROVE FALSE
      OBVIOUS
    <3>1. to < length /\ to + 1 = whole + 2
      BY <1>3, <1>5, <1>6
    <3> QED
      BY <1>5, <1>6, <2>1, <2>3, <3>1
  <2> QED
    BY <1>2, <1>3, <2>1, <2>3, <2>4
<1>7. ~ Dotted => to = whole
  BY <1>5
<1> HIDE DEF to, whole
<1>8. /\ to \in Nat /\ p < to /\ to <= length /\ whole <= to
      /\ Dotted => whole + 2 <= to
  <2>1. CASE Dotted
    <3>1. to \in whole + 2 .. length
      BY <1>6, <2>1
    <3> QED
      BY <1>2, <1>3, <3>1
  <2>2. CASE ~ Dotted
    BY <1>2, <1>3, <1>7, <2>2
  <2> QED
    BY <2>1, <2>2
<1>9. IsNumber(text(p, to))
  <2>1. CASE ~ Dotted
    <3>1. \A i \in p + 1 .. to : source[i] \in Digits
      BY <1>3, <1>7, <2>1
    <3> QED
      BY <1>8, <3>1, NumberIs
  <2>2. CASE Dotted
    <3>1. whole + 1 \in p + 2 .. to - 1 /\ source[whole + 1] = "."
      BY <1>2, <1>3, <1>8, <2>2
    <3>2. ASSUME NEW i \in p + 1 .. to, i # whole + 1 PROVE source[i] \in Digits
      <4>1. i \in p + 1 .. whole \/ i \in whole + 2 .. to
        BY <1>3, <1>8, <3>2
      <4> QED
        BY <1>3, <1>6, <2>2, <4>1
    <3> QED
      BY <1>8, <3>1, <3>2, NumberIs
  <2> QED
    BY <2>1, <2>2
<1>10. ASSUME NEW other \in LexemesAt(p) PROVE other <= to
  <2>1. other \in Nat /\ p < other /\ other <= length /\ IsNumber(text(p, other))
    BY <1>1, LexemesAre, FirstIs
  <2> SUFFICES ASSUME to < other PROVE FALSE
    BY <1>8, <2>1
  <2>2. whole < length /\ whole + 1 \in p + 1 .. other /\ source[whole + 1] \notin Digits
    BY <1>2, <1>3, <1>8, <2>1
  <2>3. PICK m \in p + 2 .. other - 1 :
          source[m] = "." /\ \A i \in p + 1 .. other : i # m => source[i] \in Digits
    BY <2>1, <2>2, NumberIs
  <2>4. m = whole + 1
    BY <2>2, <2>3
  <2>5. whole + 2 \in p + 1 .. other /\ whole + 2 # m /\ whole + 1 < length
    BY <1>2, <1>3, <2>1, <2>3, <2>4
  <2>6. Dotted
    BY <2>3, <2>4, <2>5
  <2>7. to + 1 \in p + 1 .. other /\ to + 1 # m /\ to < length
    BY <1>2, <1>3, <1>8, <2>1, <2>4, <2>6
  <2>8. source[to + 1] \notin Digits
    BY <1>6, <2>6, <2>7
  <2> QED
    BY <2>3, <2>7, <2>8
<1>11. to \in LexemesAt(p) /\ to \in p + 1 .. length
  BY <1>2, <1>8, <1>9, LexemesAre
<1>12. TypeOf(text(p, to)) = "NUMBER"
  <2>1. ~ IsString(text(p, to)) /\ ~ IsIdentifier(text(p, to)) /\ ~ IsMark(text(p, to))
    BY <1>1, <1>8, FirstIs
  <2> QED
    BY <1>9, <2>1, Zenon DEF TypeOf
<1>13. ScannedTo(p, to, "NUMBER", FALSE)
  BY <1>10, <1>11, <1>12 DEF ScannedTo
<1>14. number(p).to = to /\ number(p).type = "NUMBER" /\ number(p).error = FALSE
  BY <1>4 DEF Piece
<1> QED
  BY <1>13, <1>14 DEF Scanned

\* A letter takes all letters and digits behind it, whether it is a keyword or not.
LEMMA Identifiers ==
  ASSUME source \in Seq(Chars), NEW p \in Nat, p < length, isAlpha(source[p + 1])
  PROVE  Scanned(p, identifier(p))
<1> DEFINE to == AdvanceWhile(p + 1, Alphas \cup Digits)
           word == text(p, to)
           type == IF word \in DOMAIN keywords THEN keywords[word] ELSE "IDENTIFIER"
<1>1. /\ source[p + 1] # "/" /\ source[p + 1] # Quote /\ source[p + 1] \notin Digits
      /\ source[p + 1] \notin Marks
  BY Kinds, NoMark
<1>2. length \in Nat /\ p + 1 \in Nat /\ p + 1 <= length
  BY DEF length
<1>3. source[p + 1] \in Alphas
  <2>1. p + 1 \in 1 .. Len(source)
    BY <1>2 DEF length
  <2> QED
    BY <2>1, ElementOfSeq DEF Alphas
<1>4. /\ to \in p + 1 .. length
      /\ to < length => source[to + 1] \notin Alphas \cup Digits
      /\ \A i \in p + 1 + 1 .. to : source[i] \in Alphas \cup Digits
  BY <1>2, AdvanceIs
<1>5. identifier(p) = Piece(to, type)
  BY DEF identifier
<1> HIDE DEF to
<1>7. to \in Nat /\ p < to /\ to <= length
  BY <1>2, <1>4
<1>8. IsIdentifier(word)
  <2>1. ASSUME NEW i \in p + 1 .. to PROVE source[i] \in Alphas \cup Digits
    BY <1>2, <1>3, <1>4
  <2> QED
    BY <1>3, <1>7, <2>1, IdentifierIs
<1>9. ASSUME NEW other \in LexemesAt(p) PROVE other <= to
  <2>1. other \in Nat /\ p < other /\ other <= length /\ IsIdentifier(text(p, other))
    BY <1>1, LexemesAre, FirstIs
  <2> SUFFICES ASSUME to < other PROVE FALSE
    BY <1>7, <2>1
  <2>2. to < length /\ to + 1 \in p + 1 .. other
    BY <1>2, <1>7, <2>1
  <2> QED
    BY <1>4, <2>1, <2>2, IdentifierIs
<1>10. to \in LexemesAt(p) /\ to \in p + 1 .. length
  BY <1>2, <1>7, <1>8, LexemesAre
<1>11. ~ IsString(word) /\ ~ IsNumber(word) /\ ~ IsMark(word)
  BY <1>1, <1>7, FirstIs
<1>12. identifier(p).to = to /\ identifier(p).type = type /\ identifier(p).error = FALSE
  BY <1>5 DEF Piece
<1>13. TypeOf(word) = type
  BY <1>8, <1>11, Zenon DEF TypeOf
<1>14. ScannedTo(p, to, type, FALSE)
  BY <1>9, <1>10, <1>13 DEF ScannedTo
<1> QED
  BY <1>12, <1>14 DEF Scanned

\* No lexeme starts with another character.
LEMMA NoLexeme ==
  ASSUME source \in Seq(Chars), NEW p \in Nat, p < length,
         source[p + 1] \notin Marks, source[p + 1] \notin Digits, ~ isAlpha(source[p + 1])
  PROVE  ScannedTo(p, p + 1, "none", TRUE)
<1>1. source[p + 1] # "/" /\ source[p + 1] # Quote
  BY DEF Marks
<1>2. p + 1 \in p + 1 .. length
  BY DEF length
<1>3. LexemesAt(p) = {}
  BY <1>1, LexemesAre, FirstIs
<1> QED
  BY <1>1, <1>2, <1>3, NoType DEF ScannedTo

\* What the three results of a turn are.
LEMMA PiecesScanned ==
  ASSUME NEW p, NEW to, NEW type
  PROVE  /\ ScannedTo(p, to, type, FALSE) => Scanned(p, Piece(to, type))
         /\ ScannedTo(p, to, "none", FALSE) => Scanned(p, Skipped(to))
         /\ ScannedTo(p, to, "none", TRUE) => Scanned(p, Error(to))
<1>1. Piece(to, type).to = to /\ Piece(to, type).type = type /\ Piece(to, type).error = FALSE
  BY DEF Piece
<1>2. Skipped(to).to = to /\ Skipped(to).type = "none" /\ Skipped(to).error = FALSE
  BY DEF Skipped, Piece
<1>3. Error(to).to = to /\ Error(to).type = "none" /\ Error(to).error = TRUE
  BY DEF Error
<1> QED
  BY <1>1, <1>2, <1>3, Zenon DEF Scanned

\* Which lines of scanToken a character takes.
LEMMA ScanTokenIs ==
  ASSUME NEW p, NEW c, c = source[p + 1]
  PROVE  /\ c \in DOMAIN Single => scanToken(p) = Piece(p + 1, Single[c])
         /\ c \in DOMAIN OneOrTwo =>
              scanToken(p) = IF At(p + 1, {"="}) THEN Piece(p + 2, OneOrTwo[c][2])
                             ELSE Piece(p + 1, OneOrTwo[c][1])
         /\ c = "/" => scanToken(p) = IF At(p + 1, {"/"})
                                      THEN Skipped(AdvanceWhile(p + 2, Chars \ {Newline}))
                                      ELSE Piece(p + 1, "SLASH")
         /\ c \in Blanks \cup {Newline} => scanToken(p) = Skipped(p + 1)
         /\ c = Quote => scanToken(p) = string(p)
         /\ c \in Digits => scanToken(p) = number(p)
         /\ isAlpha(c) => scanToken(p) = identifier(p)
         /\ c \notin Marks /\ c \notin Digits /\ ~ isAlpha(c) => scanToken(p) = Error(p + 1)
<1> DEFINE Rest(d) == d \notin Digits /\ ~ isAlpha(d)
<1>1. /\ c \in DOMAIN Single => c \notin DOMAIN OneOrTwo /\ c # "/"
           /\ c \notin Blanks \cup {Newline} /\ c # Quote /\ Rest(c)
      /\ c \in DOMAIN OneOrTwo => c \notin DOMAIN Single /\ c # "/"
           /\ c \notin Blanks \cup {Newline} /\ c # Quote /\ Rest(c)
  BY Kinds
<1>2. /\ c = "/" => c \notin DOMAIN Single /\ c \notin DOMAIN OneOrTwo
           /\ c \notin Blanks \cup {Newline} /\ c # Quote /\ Rest(c)
      /\ c \in Blanks \cup {Newline} => c \notin DOMAIN Single /\ c \notin DOMAIN OneOrTwo
           /\ c # "/" /\ c # Quote /\ Rest(c)
  BY Kinds
<1>3. /\ c = Quote => c \notin DOMAIN Single /\ c \notin DOMAIN OneOrTwo /\ c # "/"
           /\ c \notin Blanks \cup {Newline} /\ Rest(c)
      /\ c \in Digits => c \notin DOMAIN Single /\ c \notin DOMAIN OneOrTwo /\ c # "/"
           /\ c \notin Blanks \cup {Newline} /\ c # Quote /\ ~ isAlpha(c)
  BY Kinds
<1>4. /\ isAlpha(c) => c \notin DOMAIN Single /\ c \notin DOMAIN OneOrTwo /\ c # "/"
           /\ c \notin Blanks \cup {Newline} /\ c # Quote /\ c \notin Digits
      /\ c \notin Marks => c \notin DOMAIN Single /\ c \notin DOMAIN OneOrTwo /\ c # "/"
           /\ c \notin Blanks \cup {Newline} /\ c # Quote
  BY Kinds DEF Marks
<1>5. scanToken(p) =
        CASE c \in DOMAIN Single -> Piece(p + 1, Single[c])
          [] c \in DOMAIN OneOrTwo ->
               IF At(p + 1, {"="}) THEN Piece(p + 2, OneOrTwo[c][2])
               ELSE Piece(p + 1, OneOrTwo[c][1])
          [] c = "/" -> IF At(p + 1, {"/"})
                        THEN Skipped(AdvanceWhile(p + 2, Chars \ {Newline}))
                        ELSE Piece(p + 1, "SLASH")
          [] c \in Blanks \cup {Newline} -> Skipped(p + 1)
          [] c = Quote -> string(p)
          [] c \in Digits -> number(p)
          [] isAlpha(c) -> identifier(p)
          [] OTHER -> Error(p + 1)
  BY Zenon DEF scanToken, isDigit
<1> QED
  BY <1>1, <1>2, <1>3, <1>4, <1>5

\* scanToken, at any place of any source: the longest lexeme, or an error.
LEMMA ScansRight ==
  ASSUME source \in Seq(Chars), NEW p \in Nat, p < length
  PROVE  Scanned(p, scanToken(p))
<1> DEFINE c == source[p + 1]
<1>0. length \in Nat /\ p + 1 \in Nat /\ p < p + 1 /\ p + 1 <= length
  BY DEF length
<1>1. CASE c \in DOMAIN Single
  <2>1. c \notin DOMAIN OneOrTwo /\ c # "/" /\ c \in Marks \ {Quote}
    BY <1>1, Kinds DEF Marks
  <2>2. ScannedTo(p, p + 1, TypeOf(text(p, p + 1)), FALSE) /\ IsMark(text(p, p + 1))
    BY <2>1, OneMark
  <2>3. ScannedTo(p, p + 1, Single[c], FALSE)
    BY <1>0, <1>1, <2>2, MarkTypeIs
  <2> QED
    BY <1>1, <2>3, ScanTokenIs, PiecesScanned, Zenon
<1>2. CASE c \in DOMAIN OneOrTwo
  <2>1. c # "/" /\ c \in Marks \ {Quote}
    BY <1>2, Kinds DEF Marks
  <2>3. CASE At(p + 1, {"="})
    <3>1. ScannedTo(p, p + 2, TypeOf(text(p, p + 2)), FALSE) /\ IsMark(text(p, p + 2))
      BY <1>2, <2>3, TwoMarks
    <3>2. p + 2 \in Nat /\ p < p + 2 /\ p + 2 <= length /\ (p + 2) - p = 2
      BY <1>0, <3>1 DEF ScannedTo
    <3>3. ScannedTo(p, p + 2, OneOrTwo[c][2], FALSE)
      BY <1>2, <3>1, <3>2, MarkTypeIs
    <3> QED
      BY <1>2, <2>3, <3>3, ScanTokenIs, PiecesScanned, Zenon
  <2>4. CASE ~ At(p + 1, {"="})
    <3>2. ScannedTo(p, p + 1, TypeOf(text(p, p + 1)), FALSE) /\ IsMark(text(p, p + 1))
      BY <2>1, <2>4, OneMark
    <3>3. (p + 1) - p = 1
      OBVIOUS
    <3>1. ScannedTo(p, p + 1, OneOrTwo[c][1], FALSE)
      BY <1>0, <1>2, <3>2, <3>3, MarkTypeIs
    <3> QED
      BY <1>2, <2>4, <3>1, ScanTokenIs, PiecesScanned, Zenon
  <2> QED
    BY <2>3, <2>4
<1>3. CASE c = "/"
  <2>1. c \notin DOMAIN OneOrTwo /\ c \in Marks \ {Quote}
    BY <1>3, Kinds DEF Marks
  <2>2. CASE At(p + 1, {"/"})
    <3>1. ScannedTo(p, AdvanceWhile(p + 2, Chars \ {Newline}), "none", FALSE)
      BY <1>3, <2>2, Comments
    <3> QED
      BY <1>3, <2>2, <3>1, ScanTokenIs, PiecesScanned, Zenon
  <2>3. CASE ~ At(p + 1, {"/"})
    <3>2. ScannedTo(p, p + 1, TypeOf(text(p, p + 1)), FALSE) /\ IsMark(text(p, p + 1))
      BY <2>1, <2>3, OneMark
    <3>1. ScannedTo(p, p + 1, "SLASH", FALSE)
      BY <1>0, <1>3, <3>2, MarkTypeIs
    <3> QED
      BY <1>3, <2>3, <3>1, ScanTokenIs, PiecesScanned, Zenon
  <2> QED
    BY <2>2, <2>3
<1>4. CASE c \in Blanks \cup {Newline}
  <2>1. c \notin DOMAIN OneOrTwo /\ c # "/" /\ c \in Marks \ {Quote}
    BY <1>4, Kinds DEF Marks
  <2>3. ScannedTo(p, p + 1, TypeOf(text(p, p + 1)), FALSE) /\ IsMark(text(p, p + 1))
    BY <2>1, OneMark
  <2>2. ScannedTo(p, p + 1, "none", FALSE)
    BY <1>0, <1>4, <2>3, MarkTypeIs
  <2> QED
    BY <1>4, <2>2, ScanTokenIs, PiecesScanned, Zenon
<1>5. CASE c = Quote
  <2>1. Scanned(p, string(p))
    BY <1>5, Strings
  <2> QED
    BY <1>5, <2>1, ScanTokenIs, Zenon
<1>6. CASE c \in Digits
  <2>1. Scanned(p, number(p))
    BY <1>6, Numbers
  <2> QED
    BY <1>6, <2>1, ScanTokenIs, Zenon
<1>7. CASE isAlpha(c)
  <2>1. Scanned(p, identifier(p))
    BY <1>7, Identifiers
  <2> QED
    BY <1>7, <2>1, ScanTokenIs, Zenon
<1>8. CASE c \notin Marks /\ c \notin Digits /\ ~ isAlpha(c)
  <2>1. ScannedTo(p, p + 1, "none", TRUE)
    BY <1>8, NoLexeme
  <2> QED
    BY <1>8, <2>1, ScanTokenIs, PiecesScanned, Zenon
<1> QED
  BY <1>1, <1>2, <1>3, <1>4, <1>5, <1>6, <1>7, <1>8 DEF Marks

Newlines(to) == {p \in 1 .. to : source[p] = Newline}

LoxTyped ==
  /\ source \in Seq(Chars) /\ current \in 0 .. length /\ line \in Int
  /\ hadError \in BOOLEAN
  /\ \E X : tokens \in Seq(X)
  /\ \E X : pieces \in Seq(X)

\* The loop goes on where the last turn stopped.
GoesOn == current = IF Len(pieces) = 0 THEN 0 ELSE pieces[Len(pieces)].to

PieceRight(n) ==
  /\ pieces[n].from = IF n = 1 THEN 0 ELSE pieces[n - 1].to
  /\ ~ NoLexemeAt(n) => pieces[n].to = Max(LexemesAt(pieces[n].from))
  /\ NoLexemeAt(n) =>
       /\ exitCode # PROMPT => hadError
       /\ pieces[n].to = IF source[pieces[n].from + 1] = Quote THEN length
                         ELSE pieces[n].from + 1
PiecesRight == \A n \in 1 .. Len(pieces) : PieceRight(n)

\* The tokens are those of the pieces, in their order, and behind the last turn
\* there is none.
Tokened == {t \in TokensOfPieces : t.type # "none"}
TokensAre == Range(tokens) = Tokened \cup Ended
InOrder ==
  \A j, m \in 1 .. Len(tokens) : j < m => tokens[j].from < tokens[m].from
Behind ==
  exitCode = RUNNING =>
    \A m \in 1 .. Len(tokens) : tokens[m].from \in Nat /\ tokens[m].from < current

\* An error is reported only where there is no lexeme.
ErrorsRight == hadError => \E n \in 1 .. Len(pieces) : NoLexemeAt(n)
EndRight ==
  /\ exitCode = 65 => \E n \in 1 .. Len(pieces) : NoLexemeAt(n)
  /\ exitCode = 0 => ~ hadError
  /\ exitCode # RUNNING => current = length

LoxInv ==
  /\ LoxTyped /\ GoesOn /\ PiecesRight /\ TokensAre /\ InOrder /\ Behind
  /\ ErrorsRight /\ EndRight /\ line = LineAt(current)

\* The positions of a sequence.
LEMMA DomainIs ==
  ASSUME NEW s, \E X : s \in Seq(X)
  PROVE  DOMAIN s = 1 .. Len(s) /\ Len(s) \in Nat
BY LenProperties

\* The invariant is at least the property.
LEMMA LoxInvIsRight == LoxInv => TokensRight
<1> SUFFICES ASSUME LoxInv PROVE TokensRight
  OBVIOUS
<1>1. /\ DOMAIN pieces = 1 .. Len(pieces) /\ DOMAIN tokens = 1 .. Len(tokens)
      /\ Len(pieces) \in Nat
  BY DomainIs DEF LoxInv, LoxTyped
<1>2. \A n \in DOMAIN pieces : PieceRight(n)
  BY <1>1 DEF LoxInv, PiecesRight
<1>3. exitCode # RUNNING => length = IF pieces = <<>> THEN 0 ELSE Last(pieces).to
  <2>1. pieces = <<>> <=> Len(pieces) = 0
    BY DEF LoxInv, LoxTyped
  <2> QED
    BY <2>1 DEF LoxInv, EndRight, GoesOn, Last
<1>4. exitCode \in {0, 65} => (exitCode = 65 <=> \E n \in DOMAIN pieces : NoLexemeAt(n))
  <2>1. exitCode = 65 => \E n \in DOMAIN pieces : NoLexemeAt(n)
    BY <1>1 DEF LoxInv, EndRight
  <2>2. ASSUME exitCode = 0, NEW n \in DOMAIN pieces, NoLexemeAt(n) PROVE FALSE
    <3>1. exitCode # PROMPT
      BY <2>2 DEF PROMPT
    <3> QED
      BY <1>2, <2>2, <3>1, Zenon DEF PieceRight, LoxInv, EndRight
  <2> QED
    BY <2>1, <2>2
<1>5. LongestLexemes
  BY <1>2, <1>3, <1>4, Zenon DEF LongestLexemes, PieceRight
<1>6. OneTokenEach
  BY <1>1, Zenon DEF LoxInv, TokensAre, Tokened, InOrder, OneTokenEach
<1> QED
  BY <1>5, <1>6 DEF TokensRight

\* The maximum of a set of numbers that has one.
LEMMA MaxIs ==
  ASSUME NEW S, S \subseteq Nat, NEW m \in S, \A n \in S : n <= m
  PROVE  Max(S) = m
<1>1. m \in S /\ \A n \in S : m >= n
  OBVIOUS
<1> DEFINE x == Max(S)
<1>2. x \in S /\ \A n \in S : x >= n
  BY <1>1, Zenon DEF Max
<1> HIDE DEF x
<1>3. x \in Nat /\ m \in Nat /\ x >= m /\ x <= m
  BY <1>1, <1>2
<1>4. x = m
  BY <1>3
<1> QED
  BY <1>4 DEF x

\* Newlines are counted, and the count goes on from place to place.
LEMMA NewlinesFinite ==
  ASSUME NEW to \in Nat
  PROVE  IsFiniteSet(Newlines(to)) /\ Cardinality(Newlines(to)) \in Nat
<1>1. IsFiniteSet(1 .. to)
  BY FS_Interval
<1>2. Newlines(to) \in SUBSET (1 .. to)
  BY DEF Newlines
<1> QED
  BY <1>1, <1>2, FS_Subset, FS_CardinalityType

LEMMA LinesAdd ==
  ASSUME NEW from \in Nat, NEW to \in Nat, from <= to
  PROVE  linesOf(from, to) \in Nat
         /\ Cardinality(Newlines(to)) = Cardinality(Newlines(from)) + linesOf(from, to)
<1> DEFINE S == Newlines(from)
           T == {n \in from + 1 .. to : source[n] = Newline}
<1>1. IsFiniteSet(S) /\ Cardinality(S) \in Nat
  BY NewlinesFinite
<1>2. IsFiniteSet(T) /\ Cardinality(T) \in Nat
  <2>1. IsFiniteSet(from + 1 .. to)
    BY FS_Interval
  <2>2. T \in SUBSET (from + 1 .. to)
    OBVIOUS
  <2> HIDE DEF T
  <2> QED
    BY <2>1, <2>2, FS_Subset, FS_CardinalityType
<1>3. S \cup T = Newlines(to) /\ S \cap T = {}
  BY DEF Newlines
<1>4. linesOf(from, to) = Cardinality(T)
  BY DEF linesOf
<1> HIDE DEF S, T
<1>5. Cardinality(S \cup T) = Cardinality(S) + Cardinality(T) - Cardinality(S \cap T)
  BY <1>1, <1>2, FS_Union
<1>6. Cardinality(S \cap T) = 0
  BY <1>3, FS_EmptySet
<1>7. Cardinality(Newlines(to)) = Cardinality(S) + Cardinality(T)
  <2>1. Cardinality(Newlines(to)) = Cardinality(S) + Cardinality(T) - 0
    BY <1>3, <1>5, <1>6, Zenon
  <2> QED
    BY <1>1, <1>2, <2>1
<1> QED
  BY <1>2, <1>4, <1>7 DEF S

\* Nothing is scanned before the first turn.
LEMMA LoxInitially == LoxInit => LoxInv
<1> SUFFICES ASSUME LoxInit PROVE LoxInv
  OBVIOUS
<1>1. PICK text0 \in SeqOf(Chars, MaxSource) : LoxStart(text0)
  BY DEF LoxInit
<1>2. source \in Seq(Chars)
  <2>1. PICK m \in 0 .. MaxSource : source \in [1 .. m -> Chars]
    BY <1>1 DEF SeqOf, LoxStart
  <2>2. m \in Nat
    BY LoxAssumption
  <2> QED
    BY <2>1, <2>2, SeqDef
<1>3. current = 0 /\ line = 1 /\ tokens = <<>> /\ hadError = FALSE /\ exitCode = RUNNING
      /\ pieces = <<>>
  BY <1>1 DEF LoxStart
<1>4. length \in Nat /\ <<>> \in Seq({}) /\ Len(<<>>) = 0
  BY <1>2 DEF length
<1>5. LoxTyped
  <2>1. (\E X : tokens \in Seq(X)) /\ \E X : pieces \in Seq(X)
    BY <1>3, <1>4, Zenon
  <2>2. current \in 0 .. length /\ line \in Int
    BY <1>3, <1>4
  <2>3. hadError \in BOOLEAN
    BY <1>3, Zenon
  <2> QED
    BY <1>2, <2>1, <2>2, <2>3, Zenon DEF LoxTyped
<1>6. Cardinality(Newlines(0)) = 0
  <2>1. Newlines(0) = {}
    BY DEF Newlines
  <2> QED
    BY <2>1, FS_EmptySet
<1>7. GoesOn /\ PiecesRight /\ InOrder /\ Behind /\ ErrorsRight
  BY <1>3, <1>4 DEF GoesOn, PiecesRight, InOrder, Behind, ErrorsRight
<1>8. EndRight
  BY <1>3 DEF EndRight, RUNNING
<1>9. TokensAre
  <2>1. DOMAIN pieces = {} /\ DOMAIN tokens = {}
    BY <1>3
  <2>2. Range(tokens) = {} /\ TokensOfPieces = {} /\ Ended = {}
    BY <1>3, <2>1 DEF Range, TokensOfPieces, Ended
  <2> QED
    BY <2>2 DEF TokensAre, Tokened
<1>10. line = LineAt(current)
  BY <1>3, <1>6 DEF LineAt, Newlines
<1> QED
  BY <1>5, <1>7, <1>8, <1>9, <1>10 DEF LoxInv

\* The sequence r is s and one element more.
IsAppended(s, e, r) ==
  /\ \E X : r \in Seq(X)
  /\ Len(s) \in Nat /\ Len(r) = Len(s) + 1
  /\ \A i \in 1 .. Len(s) : r[i] = s[i]
  /\ r[Len(s) + 1] = e /\ Last(r) = e

\* Append, of a sequence over any set.
LEMMA AppendIs ==
  ASSUME NEW s, \E X : s \in Seq(X), NEW e
  PROVE  IsAppended(s, e, Append(s, e))
<1>1. PICK X : s \in Seq(X)
  OBVIOUS
<1> DEFINE Y == X \cup {e}
           r == Append(s, e)
<1>2. s \in Seq(Y) /\ e \in Y
  BY <1>1, SeqMonotonic
<1>3. /\ r \in Seq(Y) /\ Len(s) \in Nat /\ Len(r) = Len(s) + 1
      /\ \A i \in 1 .. Len(s) : r[i] = s[i]
      /\ r[Len(s) + 1] = e
  <2> HIDE DEF Y
  <2> QED
    BY <1>2, AppendProperties
<1>4. \E Z : r \in Seq(Z)
  BY <1>3, Zenon
<1> HIDE DEF r
<1> QED
  BY <1>3, <1>4 DEF IsAppended, Last, r

\* While the source is the same, its lexemes, words and lines are.
LEMMA SameSource ==
  ASSUME source' = source
  PROVE  /\ length' = length
         /\ \A p : LexemesAt(p)' = LexemesAt(p)
         /\ \A p, to : text(p, to)' = text(p, to)
         /\ \A to : Newlines(to)' = Newlines(to)
         /\ \A to : LineAt(to)' = LineAt(to)
         /\ \A piece : TokenOf(piece)' = TokenOf(piece)
<1>1. length' = length
  BY DEF length
<1>2. \A p, to : text(p, to)' = text(p, to)
  BY DEF text
<1>3. \A p : LexemesAt(p)' = LexemesAt(p)
  BY <1>1, <1>2 DEF LexemesAt
<1>4. \A to : Newlines(to)' = Newlines(to)
  BY DEF Newlines
<1>5. \A to : LineAt(to)' = LineAt(to)
  BY DEF LineAt
<1>6. \A piece : TokenOf(piece)' = TokenOf(piece)
  BY <1>2, <1>5, Zenon DEF TokenOf
<1> QED
  BY <1>1, <1>2, <1>3, <1>4, <1>5, <1>6

\* The fields of a token.
LEMMA TokenIs ==
  ASSUME NEW type, NEW from, NEW to, NEW at
  PROVE  LET t == Token(type, from, to, at) IN
         t.type = type /\ t.from = from /\ t.to = to /\ t.line = at
BY DEF Token

\* One element more in a sequence is one more in its range.
LEMMA AppendedRange ==
  ASSUME NEW s, \E X : s \in Seq(X), NEW e, NEW r, IsAppended(s, e, r)
  PROVE  Range(r) = Range(s) \cup {e}
<1>1. /\ DOMAIN s = 1 .. Len(s) /\ Len(s) \in Nat /\ DOMAIN r = 1 .. Len(r)
      /\ Len(r) = Len(s) + 1 /\ r[Len(s) + 1] = e
      /\ \A i \in 1 .. Len(s) : r[i] = s[i]
  BY DomainIs, Zenon DEF IsAppended
<1>2. DOMAIN r = DOMAIN s \cup {Len(s) + 1}
  BY <1>1
<1>3. \A i \in DOMAIN s : r[i] = s[i]
  BY <1>1
<1>4. r[Len(s) + 1] = e /\ Len(s) + 1 \in DOMAIN r
  BY <1>1, <1>2
<1>5. \A x \in Range(r) : x \in Range(s) \/ x = e
  BY <1>2, <1>3, <1>4 DEF Range
<1>6. \A x \in Range(s) : x \in Range(r)
  BY <1>2, <1>3 DEF Range
<1>7. e \in Range(r)
  BY <1>4 DEF Range
<1> QED
  BY <1>5, <1>6, <1>7

\* A token that starts behind all others keeps their order.
LEMMA OrderKept ==
  ASSUME LoxTyped, InOrder, NEW t, IsAppended(tokens, t, tokens'),
         \A m \in 1 .. Len(tokens) : tokens[m].from < t.from
  PROVE  InOrder'
<1>1. /\ Len(tokens) \in Nat /\ Len(tokens') = Len(tokens) + 1
      /\ tokens'[Len(tokens) + 1] = t
      /\ \A m \in 1 .. Len(tokens) : tokens'[m] = tokens[m]
  BY Zenon DEF IsAppended
<1> SUFFICES ASSUME NEW j \in 1 .. Len(tokens'), NEW m \in 1 .. Len(tokens'), j < m
             PROVE  tokens'[j].from < tokens'[m].from
  BY DEF InOrder
<1>2. j \in 1 .. Len(tokens) /\ (m \in 1 .. Len(tokens) \/ m = Len(tokens) + 1)
  BY <1>1
<1> QED
  BY <1>1, <1>2 DEF InOrder

\* A turn of scanTokens' loop keeps the invariant.
LEMMA ScanKeeps == LoxInv /\ scanTokens => LoxInv'
<1> SUFFICES ASSUME LoxInv, scanTokens PROVE LoxInv'
  OBVIOUS
<1> DEFINE r == scanToken(current)
           t == Token(r.type, current, r.to, line')
           piece == [from |-> current, to |-> r.to]
<1>1. /\ exitCode = RUNNING /\ current < length
      /\ current' = r.to /\ line' = line + linesOf(current, r.to)
      /\ tokens' = IF r.type = "none" THEN tokens ELSE Append(tokens, t)
      /\ hadError' = (hadError \/ r.error)
      /\ pieces' = Append(pieces, piece)
      /\ UNCHANGED <<source, exitCode>>
  BY DEF scanTokens
<1>2. /\ source \in Seq(Chars) /\ current \in Nat /\ length \in Nat /\ line \in Int
      /\ hadError \in BOOLEAN /\ (\E X : tokens \in Seq(X)) /\ (\E X : pieces \in Seq(X))
  BY DEF LoxInv, LoxTyped, length
<1>3. ScannedTo(current, r.to, r.type, r.error)
  BY <1>1, <1>2, ScansRight DEF Scanned
<1> HIDE DEF r
<1>4. r.to \in current + 1 .. length /\ r.to \in Nat /\ current <= r.to
  BY <1>2, <1>3 DEF ScannedTo
<1>5. IsAppended(pieces, piece, pieces')
  BY <1>1, <1>2, AppendIs, Zenon
<1>6. /\ (\E X : pieces' \in Seq(X)) /\ Len(pieces) \in Nat
      /\ Len(pieces') = Len(pieces) + 1
      /\ \A n \in 1 .. Len(pieces) : pieces'[n] = pieces[n]
      /\ pieces'[Len(pieces) + 1] = piece
  BY <1>5, Zenon DEF IsAppended
<1>7. PICK last \in Nat : last = Len(pieces) + 1
  BY <1>6
<1>8. piece.from = current /\ piece.to = r.to
  OBVIOUS
<1> HIDE DEF piece
<1>9. t.type = r.type /\ t.from = current /\ t.to = r.to /\ t.line = line'
  BY TokenIs
<1> HIDE DEF t
<1>10. \/ r.type = "none" /\ tokens' = tokens
       \/ r.type # "none" /\ IsAppended(tokens, t, tokens')
  <2>1. CASE r.type = "none"
    BY <1>1, <2>1
  <2>2. CASE r.type # "none"
    <3>1. tokens' = Append(tokens, t)
      BY <1>1, <2>2
    <3> QED
      BY <1>2, <2>2, <3>1, AppendIs, Zenon
  <2> QED
    BY <2>1, <2>2
<1>11. LoxTyped'
  <2>1. \E X : tokens' \in Seq(X)
    BY <1>2, <1>10, Zenon DEF IsAppended
  <2>2. current' \in 0 .. length /\ line' \in Int
    <3>1. linesOf(current, r.to) \in Nat
      BY <1>2, <1>4, LinesAdd
    <3> QED
      BY <1>1, <1>2, <1>4, <3>1
  <2>3. hadError' \in BOOLEAN
    BY <1>1, Zenon
  <2>4. source' \in Seq(Chars) /\ length' = length
    BY <1>1, <1>2, SameSource
  <2> QED
    BY <1>6, <2>1, <2>2, <2>3, <2>4, Zenon DEF LoxTyped
<1>12. line' = LineAt(r.to) /\ line' = LineAt(current)'
  <2>1. line = 1 + Cardinality(Newlines(current)) /\ Cardinality(Newlines(current)) \in Nat
    BY <1>2, NewlinesFinite DEF LoxInv, LineAt, Newlines
  <2>2. /\ linesOf(current, r.to) \in Nat
        /\ Cardinality(Newlines(r.to)) = Cardinality(Newlines(current)) + linesOf(current, r.to)
    BY <1>2, <1>4, LinesAdd
  <2>3. line' = LineAt(r.to)
    BY <1>1, <2>1, <2>2 DEF LineAt, Newlines
  <2> QED
    BY <1>1, <2>3, SameSource
<1>13. GoesOn'
  BY <1>1, <1>6, <1>8 DEF GoesOn
<1>14. \A n \in 1 .. Len(pieces) : NoLexemeAt(n)' <=> NoLexemeAt(n)
  BY <1>1, <1>6, SameSource DEF NoLexemeAt
<1>15. pieces'[last].from = current /\ pieces'[last].to = r.to
  <2>1. pieces'[last] = piece
    BY <1>6, <1>7, Zenon
  <2> QED
    BY <1>8, <2>1, Zenon
<1>16. NoLexemeAt(last)' <=> LexemesAt(current) = {}
  BY <1>1, <1>15 DEF NoLexemeAt, LexemesAt, text, length
<1>17. r.error <=> LexemesAt(current) = {}
  BY <1>3, Zenon DEF ScannedTo
<1>18. PiecesRight'
  <2>1. ASSUME NEW n \in 1 .. Len(pieces) PROVE PieceRight(n)'
    <3>1. PieceRight(n)
      BY DEF LoxInv, PiecesRight
    <3>2. pieces'[n] = pieces[n] /\ (n # 1 => pieces'[n - 1] = pieces[n - 1])
      <4>1. n # 1 => n - 1 \in 1 .. Len(pieces)
        BY <1>6
      <4> QED
        BY <1>6, <4>1
    <3>3. /\ pieces'[n].from = IF n = 1 THEN 0 ELSE pieces'[n - 1].to
          /\ ~ NoLexemeAt(n)' => pieces'[n].to = Max(LexemesAt(pieces[n].from)')
      <4>1. LexemesAt(pieces[n].from)' = LexemesAt(pieces[n].from)
        BY <1>1, <3>2 DEF LexemesAt, text, length
      <4> QED
        BY <1>14, <3>1, <3>2, <4>1 DEF PieceRight
    <3>4. ASSUME NoLexemeAt(n)'
          PROVE  /\ exitCode' # PROMPT => hadError'
                 /\ pieces'[n].to = IF source[pieces'[n].from + 1] = Quote THEN length
                                    ELSE pieces'[n].from + 1
      <4>1. NoLexemeAt(n)
        BY <1>14, <3>4
      <4>2. exitCode # PROMPT => hadError
        BY <3>1, <4>1, Zenon DEF PieceRight
      <4>3. exitCode' # PROMPT => hadError'
        BY <1>1, <4>2, Zenon
      <4>4. pieces[n].to = IF source[pieces[n].from + 1] = Quote THEN length
                           ELSE pieces[n].from + 1
        BY <3>1, <4>1, Zenon DEF PieceRight
      <4> QED
        BY <3>2, <4>3, <4>4, Zenon
    <3>5. length' = length /\ source' = source
      BY <1>1, SameSource
    <3> QED
      BY <3>3, <3>4, <3>5, Zenon DEF PieceRight
  <2>2. PieceRight(last)'
    <3>1. pieces'[last].from = current /\ pieces'[last].to = r.to
      BY <1>15
    <3>2. pieces'[last].from = IF last = 1 THEN 0 ELSE pieces'[last - 1].to
      <4>1. last # 1 => last - 1 \in 1 .. Len(pieces) /\ last - 1 = Len(pieces)
        BY <1>6, <1>7
      <4>2. last = 1 => Len(pieces) = 0
        BY <1>6, <1>7
      <4>3. last # 1 => pieces'[last - 1] = pieces[Len(pieces)] /\ Len(pieces) # 0
        BY <1>6, <1>7, <4>1
      <4>4. current = IF Len(pieces) = 0 THEN 0 ELSE pieces[Len(pieces)].to
        BY DEF LoxInv, GoesOn
      <4> QED
        BY <3>1, <4>2, <4>3, <4>4
    <3>3. LexemesAt(pieces[last].from)' = LexemesAt(current)
      BY <1>1, <3>1 DEF LexemesAt, text, length
    <3>4. ASSUME ~ NoLexemeAt(last)' PROVE pieces'[last].to = Max(LexemesAt(pieces[last].from)')
      <4>1. r.to \in LexemesAt(current) /\ \A other \in LexemesAt(current) : other <= r.to
        BY <1>3, <1>16, <1>17, <3>4, Zenon DEF ScannedTo
      <4>2. LexemesAt(current) \subseteq Nat
        BY <1>2 DEF LexemesAt
      <4>3. Max(LexemesAt(current)) = r.to
        BY <4>1, <4>2, MaxIs
      <4> QED
        BY <3>1, <3>3, <4>3
    <3>5. ASSUME NoLexemeAt(last)'
          PROVE  /\ exitCode' # PROMPT => hadError'
                 /\ pieces'[last].to = IF source[pieces'[last].from + 1] = Quote THEN length
                                    ELSE pieces'[last].from + 1
      <4>1. r.error
        BY <1>16, <1>17, <3>5, Zenon
      <4>2. r.to = IF source[current + 1] = Quote THEN length ELSE current + 1
        BY <1>3, <4>1, Zenon DEF ScannedTo
      <4>3. hadError'
        BY <1>1, <4>1, Zenon
      <4> QED
        BY <3>1, <4>2, <4>3, Zenon
    <3>6. length' = length /\ source' = source
      BY <1>1, SameSource
    <3> QED
      BY <3>2, <3>4, <3>5, <3>6, Zenon DEF PieceRight
  <2>3. \A n \in 1 .. Len(pieces') : n \in 1 .. Len(pieces) \/ n = last
    BY <1>6, <1>7
  <2> QED
    BY <2>1, <2>2, <2>3, Zenon DEF PiecesRight
<1>19. TokenOf(piece) = t
  <2>1. t = Token(r.type, current, r.to, line') /\ r.type = TypeOf(text(current, r.to))
    BY <1>3, Zenon DEF t, ScannedTo
  <2> QED
    BY <1>8, <1>12, <2>1, Zenon DEF TokenOf
<1>20. TokensOfPieces' = TokensOfPieces \cup {t}
  <2>1. /\ DOMAIN pieces = 1 .. Len(pieces)
        /\ DOMAIN pieces' = 1 .. Len(pieces')
    BY <1>2, <1>6, DomainIs, Zenon
  <2>2. DOMAIN pieces' = DOMAIN pieces \cup {last}
    BY <1>6, <1>7, <2>1
  <2>3. pieces'[last] = piece /\ \A n \in DOMAIN pieces : pieces'[n] = pieces[n]
    BY <1>6, <1>7, <2>1, Zenon
  <2>4. \A any : TokenOf(any)' = TokenOf(any)
    BY <1>1, SameSource
  <2>5. TokensOfPieces' = {TokenOf(pieces'[n]) : n \in DOMAIN pieces'}
    BY <2>4, Zenon DEF TokensOfPieces
  <2> QED
    BY <1>19, <2>2, <2>3, <2>5, Zenon DEF TokensOfPieces
<1>21. Ended = {} /\ Ended' = {}
  BY <1>1 DEF Ended
<1>22. TokensAre'
  <2>1. Range(tokens) = Tokened
    BY <1>21 DEF LoxInv, TokensAre
  <2>2. CASE r.type = "none"
    <3>1. Tokened' = Tokened /\ tokens' = tokens
      BY <1>9, <1>10, <1>20, <2>2 DEF Tokened
    <3> QED
      BY <1>21, <2>1, <3>1 DEF TokensAre
  <2>3. CASE r.type # "none"
    <3>1. Tokened' = Tokened \cup {t}
      BY <1>9, <1>20, <2>3 DEF Tokened
    <3>2. Range(tokens') = Range(tokens) \cup {t}
      BY <1>2, <1>10, <2>3, AppendedRange, Zenon
    <3> QED
      BY <1>21, <2>1, <3>1, <3>2 DEF TokensAre
  <2> QED
    BY <2>2, <2>3
<1>23. \A m \in 1 .. Len(tokens) : tokens[m].from \in Nat /\ tokens[m].from < current
  BY <1>1 DEF LoxInv, Behind
<1>24. InOrder' /\ Behind'
  <2>1. CASE r.type = "none"
    <3>1. tokens' = tokens
      BY <1>10, <2>1
    <3>2. InOrder'
      BY <3>1 DEF LoxInv, InOrder
    <3> QED
      BY <1>1, <1>2, <1>4, <1>23, <3>1, <3>2 DEF Behind
  <2>2. CASE r.type # "none"
    <3>1. IsAppended(tokens, t, tokens')
      BY <1>10, <2>2
    <3>2. InOrder'
      BY <1>9, <1>23, <3>1, OrderKept DEF LoxInv
    <3>3. /\ Len(tokens) \in Nat /\ Len(tokens') = Len(tokens) + 1
          /\ tokens'[Len(tokens) + 1] = t
          /\ \A m \in 1 .. Len(tokens) : tokens'[m] = tokens[m]
      BY <3>1, Zenon DEF IsAppended
    <3>4. \A m \in 1 .. Len(tokens') : tokens'[m].from \in Nat /\ tokens'[m].from <= current
      BY <1>2, <1>9, <1>23, <3>3
    <3>5. current < current' /\ current' \in Nat
      BY <1>1, <1>2, <1>4
    <3> QED
      BY <1>2, <3>2, <3>4, <3>5 DEF Behind
  <2> QED
    BY <2>1, <2>2
<1>25. ErrorsRight'
  <2> SUFFICES ASSUME hadError' PROVE \E n \in 1 .. Len(pieces') : NoLexemeAt(n)'
    BY Zenon DEF ErrorsRight
  <2>1. 1 .. Len(pieces') = (1 .. Len(pieces)) \cup {last}
    BY <1>6, <1>7
  <2>2. CASE hadError
    <3>1. PICK n \in 1 .. Len(pieces) : NoLexemeAt(n)
      BY <2>2, Zenon DEF LoxInv, ErrorsRight
    <3> QED
      BY <1>14, <2>1, <3>1
  <2>3. CASE r.error
    <3>1. NoLexemeAt(last)'
      BY <1>16, <1>17, <2>3, Zenon
    <3> QED
      BY <2>1, <3>1
  <2> QED
    BY <1>1, <2>2, <2>3, Zenon
<1>26. EndRight'
  BY <1>1 DEF EndRight, RUNNING
<1> QED
  BY <1>11, <1>12, <1>13, <1>18, <1>22, <1>24, <1>25, <1>26, Zenon DEF LoxInv, LineAt

\* The end of a source: EOF behind the tokens, and an exit code.
LEMMA EndKeeps ==
  ASSUME LoxInv, current >= length,
         tokens' = Append(tokens, Token("EOF", length, length, line)),
         UNCHANGED <<source, current, line, pieces>>,
         exitCode = RUNNING, exitCode' # RUNNING,
         hadError' \in BOOLEAN, hadError' => hadError,
         exitCode' # PROMPT /\ hadError => hadError',
         exitCode' = 65 => hadError, exitCode' = 0 => ~ hadError'
  PROVE  LoxInv'
<1> DEFINE t == Token("EOF", length, length, line)
<1>1. /\ source' = source /\ current' = current /\ line' = line /\ pieces' = pieces
      /\ tokens' = Append(tokens, t)
  OBVIOUS
<1>2. /\ source \in Seq(Chars) /\ current \in 0 .. length /\ length \in Nat /\ line \in Int
      /\ (\E X : tokens \in Seq(X)) /\ (\E X : pieces \in Seq(X))
  BY DEF LoxInv, LoxTyped, length
<1>3. current = length
  BY <1>2
<1>4. t.from = length /\ t = Token("EOF", length, length, LineAt(length))
  BY <1>3, TokenIs DEF LoxInv
<1> HIDE DEF t
<1>5. IsAppended(tokens, t, tokens')
  BY <1>1, <1>2, AppendIs, Zenon
<1>6. \E X : tokens' \in Seq(X)
  BY <1>5, Zenon DEF IsAppended
<1>7. LoxTyped'
  <2>1. current' \in 0 .. length /\ line' \in Int /\ source' \in Seq(Chars) /\ length' = length
    BY <1>1, <1>2, SameSource
  <2>2. \E X : pieces' \in Seq(X)
    BY <1>1, <1>2, Zenon
  <2> QED
    BY <1>6, <2>1, <2>2, Zenon DEF LoxTyped
<1>8. GoesOn'
  BY <1>1 DEF LoxInv, GoesOn
<1>9. ASSUME NEW n PROVE NoLexemeAt(n)' <=> NoLexemeAt(n)
  BY <1>1 DEF NoLexemeAt, LexemesAt, text, length
<1>10. PiecesRight'
  <2> SUFFICES ASSUME NEW n \in 1 .. Len(pieces') PROVE PieceRight(n)'
    BY DEF PiecesRight
  <2>1. PieceRight(n)
    BY <1>1 DEF LoxInv, PiecesRight
  <2>2. length' = length /\ LexemesAt(pieces[n].from)' = LexemesAt(pieces[n].from)
    BY <1>1 DEF LexemesAt, text, length
  <2>3. NoLexemeAt(n)' => (exitCode' # PROMPT => hadError')
    <3>1. exitCode # PROMPT
      BY DEF RUNNING, PROMPT
    <3>2. NoLexemeAt(n)' => hadError
      BY <1>9, <2>1, <3>1, Zenon DEF PieceRight
    <3> QED
      BY <3>2, Zenon
  <2>4. /\ pieces'[n].from = IF n = 1 THEN 0 ELSE pieces'[n - 1].to
        /\ ~ NoLexemeAt(n)' => pieces'[n].to = Max(LexemesAt(pieces[n].from)')
    BY <1>1, <1>9, <2>1, <2>2 DEF PieceRight
  <2>5. NoLexemeAt(n)' => pieces'[n].to = IF source'[pieces'[n].from + 1] = Quote THEN length'
                                          ELSE pieces'[n].from + 1
    BY <1>1, <1>9, <2>1, <2>2, Zenon DEF PieceRight
  <2> QED
    BY <2>3, <2>4, <2>5, Zenon DEF PieceRight
<1>11. TokensAre'
  <2>1. Tokened' = Tokened
    <3>1. \A piece : TokenOf(piece)' = TokenOf(piece)
      BY <1>1, SameSource
    <3>2. TokensOfPieces' = TokensOfPieces
      BY <1>1, <3>1, Zenon DEF TokensOfPieces
    <3> QED
      BY <3>2 DEF Tokened
  <2>2. Ended = {} /\ Ended' = {t}
    <3>1. length' = length /\ LineAt(length)' = LineAt(length)
      BY <1>1, SameSource DEF LineAt
    <3> QED
      BY <1>4, <3>1, Zenon DEF Ended
  <2>3. Range(tokens') = Range(tokens) \cup {t}
    BY <1>2, <1>5, AppendedRange, Zenon
  <2> QED
    BY <2>1, <2>2, <2>3 DEF LoxInv, TokensAre
<1>12. InOrder' /\ Behind'
  <2>1. \A m \in 1 .. Len(tokens) : tokens[m].from < t.from
    BY <1>3, <1>4 DEF LoxInv, Behind
  <2> QED
    BY <1>5, <2>1, OrderKept, Zenon DEF LoxInv, Behind
<1>13. hadError => \E n \in 1 .. Len(pieces') : NoLexemeAt(n)'
  BY <1>1, <1>9 DEF LoxInv, ErrorsRight
<1>14. ErrorsRight'
  BY <1>13, Zenon DEF ErrorsRight
<1>15. EndRight'
  <2>1. current' = length'
    BY <1>1, <1>3, SameSource
  <2> QED
    BY <1>13, <2>1, Zenon DEF EndRight
<1>16. line' = LineAt(current)'
  BY <1>1 DEF LoxInv, LineAt
<1> QED
  BY <1>7, <1>8, <1>10, <1>11, <1>12, <1>14, <1>15, <1>16, Zenon DEF LoxInv

\* So does every step.
LEMMA LoxInductive == LoxInv /\ [LoxStep]_loxVars => LoxInv'
<1> SUFFICES ASSUME LoxInv, [LoxStep]_loxVars PROVE LoxInv'
  OBVIOUS
<1>1. hadError \in BOOLEAN
  BY DEF LoxInv, LoxTyped
<1>2. CASE scanTokens
  BY <1>2, ScanKeeps
<1>3. CASE runFile
  <2>1. /\ exitCode' = 65 => hadError
        /\ exitCode' = 0 => ~ hadError'
        /\ exitCode' # RUNNING
    BY <1>3 DEF runFile, RUNNING
  <2>2. hadError' \in BOOLEAN /\ (hadError' => hadError) /\ (hadError => hadError')
    BY <1>1, <1>3 DEF runFile
  <2> QED
    BY <1>3, <2>1, <2>2, EndKeeps, Zenon DEF runFile
<1>4. CASE runPrompt
  <2>1. exitCode' = PROMPT /\ exitCode' # 65 /\ exitCode' # 0 /\ exitCode' # RUNNING
        /\ hadError' = FALSE
    BY <1>4 DEF runPrompt, PROMPT, RUNNING
  <2> QED
    BY <1>1, <1>4, <2>1, EndKeeps, Zenon DEF runPrompt
<1>5. CASE UNCHANGED loxVars
  <2>1. /\ source' = source /\ current' = current /\ line' = line /\ tokens' = tokens
        /\ hadError' = hadError /\ exitCode' = exitCode /\ pieces' = pieces
    BY <1>5 DEF loxVars
  <2>2. LoxTyped' /\ GoesOn' /\ line' = LineAt(current)'
    BY <2>1 DEF LoxInv, LoxTyped, GoesOn, LineAt, length
  <2>3. PiecesRight'
    <3> SUFFICES ASSUME NEW n \in 1 .. Len(pieces) PROVE PieceRight(n)'
      BY <2>1 DEF PiecesRight
    <3>1. PieceRight(n)
      BY DEF LoxInv, PiecesRight
    <3>2. length' = length /\ LexemesAt(pieces[n].from)' = LexemesAt(pieces[n].from)
      BY <2>1 DEF LexemesAt, text, length
    <3> QED
      BY <2>1, <3>1, <3>2 DEF PieceRight, NoLexemeAt
  <2>4. TokensAre' /\ InOrder' /\ Behind'
    <3>1. \A piece : TokenOf(piece)' = TokenOf(piece)
      BY <2>1, SameSource
    <3>2. TokensOfPieces' = TokensOfPieces
      BY <2>1, <3>1, Zenon DEF TokensOfPieces
    <3>3. Ended' = Ended
      BY <2>1 DEF Ended, LineAt, length
    <3>4. TokensAre'
      BY <2>1, <3>2, <3>3 DEF LoxInv, TokensAre, Tokened
    <3> QED
      BY <2>1, <3>4 DEF LoxInv, InOrder, Behind
  <2>5. ErrorsRight' /\ EndRight'
    BY <2>1 DEF LoxInv, ErrorsRight, EndRight, NoLexemeAt, LexemesAt, text, length
  <2> QED
    BY <2>2, <2>3, <2>4, <2>5, Zenon DEF LoxInv
<1> QED
  BY <1>2, <1>3, <1>4, <1>5 DEF LoxStep

\* Scanner.java, lines 42-205, with Lox.java: of every source of any length, what has
\* been scanned at any moment is cut without gaps into the longest lexemes; each but
\* blanks and comments has one token, in their order, with its type and its line; a
\* file exits with an error if and only if at some place there is no lexeme; and a run
\* that ends has scanned everything, up to one EOF.
THEOREM TokensRightHolds == LoxSpec => []TokensRight
<1>1. LoxInit => LoxInv
  BY LoxInitially
<1>2. LoxInv /\ [LoxStep]_loxVars => LoxInv'
  BY LoxInductive
<1>3. LoxInv => TokensRight
  BY LoxInvIsRight
<1> QED
  BY <1>1, <1>2, <1>3, PTL DEF LoxSpec
=============================================================================
