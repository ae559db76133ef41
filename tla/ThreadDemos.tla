------------------------------ MODULE ThreadDemos ------------------------------
(***************************************************************************)
(* The programs of cpp/multi_threading that synchronise their threads.     *)
(* Which of them runs is chosen at the start.  Threads t1, t2 and t3 are   *)
(* those that main starts; join is their being "done".                     *)
(*                                                                         *)
(* Counters are incremented in two steps, a read and a write.  A critical  *)
(* section that only waits on its condition variable is one step.          *)
(***************************************************************************)
EXTENDS Integers, Sequences, FiniteSets, SequencesExt, Subsequences

CONSTANTS
  Rounds,          \* iterations of the loops, recursion depth, items produced
  useCountStart,   \* consumeXY's initial useCount
  maxBufferSize

ASSUME DemosAssumption ==
  /\ Rounds \in Nat \ {0} /\ useCountStart \in Nat \ {0}
  /\ maxBufferSize \in Nat \ {0}

VARIABLES
  demo,     \* the program that runs
  pc,       \* where each thread is; "off" if the program does not have it
  owner,    \* the thread that holds each mutex
  depth,    \* how many times the recursive mutex is held
  asleep,   \* threads that wait on the condition variable
  k,        \* each thread's loop counter or argument
  tmp,      \* what each thread has read of its counter
  val,      \* the counters X (also balance, myAmount, count, buffer) and Y
  buffer,   \* the deque of producer_consumer.cpp
  total,    \* consumeXY's XplusY
  log       \* history: increments by their threads, or items consumed

vars == <<demo, pc, owner, depth, asleep, k, tmp, val, buffer, total, log>>

Threads == {"t1", "t2", "t3"}
Mutexes == {"m1", "m2"}
LockInLoop == {"try_lock_mutex", "mutex", "thread_sync"}
LockAroundLoop == {"lock_guard", "unique_lock"}
Counting == LockInLoop \cup LockAroundLoop \cup {"recursive_mutex", "timed_mutex"}
Demos == Counting \cup {"try_lock_std", "dead_lock", "lock_in_cpp",
                        "producer_consumer", "condition_variable"}
Free == "none"

\* The places in the programs.
Labels == {"lock", "read", "write", "unlock", "done", "off", "spin", "try", "use",
           "unlock1", "unlock2", "first", "second", "produce", "consume", "notify",
           "withdraw", "add"}

Goto(t, label) == pc' = [pc EXCEPT ![t] = label]
Lock(t, m) == owner[m] = Free /\ owner' = [owner EXCEPT ![m] = t]
Unlock(m) == owner' = [owner EXCEPT ![m] = Free]

\* The locks and counters of incrementXY's two threads are two.
MutexOf(t) == IF demo = "try_lock_std" /\ t = "t2" THEN "m2" ELSE "m1"
CounterOf(t) == IF demo = "try_lock_std" /\ t = "t2" THEN "Y" ELSE "X"
AmountOf(t) ==
  CASE demo = "thread_sync" /\ t = "t1" -> 100
    [] demo = "thread_sync" /\ t = "t2" -> 200
    [] OTHER -> 1

-----------------------------------------------------------------------------
(* Counters under a mutex: lock and unlock in each iteration, once around  *)
(* the loop (lock_guard.cpp, unique_lock.cpp), once more for each call     *)
(* (recursive_mutex.cpp), or if the lock comes in time (timed_mutex.cpp).  *)

Increments(t) == demo \in Counting \/ (demo = "try_lock_std" /\ t # "t3")

skip_lock(t) ==   \* mutant: the section is entered without the mutex
  /\ Increments(t) /\ pc[t] = "lock"
  /\ depth' = depth + 1 /\ Goto(t, "read")
  /\ UNCHANGED <<demo, owner, asleep, k, tmp, val, buffer, total, log>>

lock(t) ==
  /\ Increments(t) /\ pc[t] = "lock"
  /\ \/ Lock(t, MutexOf(t))
     \/ demo = "recursive_mutex" /\ owner["m1"] = t /\ UNCHANGED owner
  /\ depth' = IF demo = "recursive_mutex" THEN depth + 1 ELSE depth
  /\ Goto(t, "read")
  /\ UNCHANGED <<demo, asleep, k, tmp, val, buffer, total, log>>

\* try_lock_for's second has passed.
timeout(t) ==
  /\ demo = "timed_mutex" /\ pc[t] = "lock" /\ owner["m1"] # Free
  /\ Goto(t, "done")
  /\ UNCHANGED <<demo, owner, depth, asleep, k, tmp, val, buffer, total, log>>

read(t) ==
  /\ pc[t] = "read"
  /\ tmp' = [tmp EXCEPT ![t] = val[CounterOf(t)]] /\ Goto(t, "write")
  /\ UNCHANGED <<demo, owner, depth, asleep, k, val, buffer, total, log>>

writeAndUnlock(t) ==   \* mutant: lock_guard inside the loop
  /\ pc[t] = "write"
  /\ val' = [val EXCEPT ![CounterOf(t)] = tmp[t] + AmountOf(t)]
  /\ k' = [k EXCEPT ![t] = @ - 1] /\ log' = Append(log, t) /\ Goto(t, "unlock")
  /\ UNCHANGED <<demo, owner, depth, asleep, tmp, buffer, total>>

write(t) ==
  /\ pc[t] = "write"
  /\ val' = [val EXCEPT ![CounterOf(t)] = tmp[t] + AmountOf(t)]
  /\ k' = [k EXCEPT ![t] = @ - 1] /\ log' = Append(log, t)
  /\ Goto(t, CASE k'[t] > 0 /\ demo \in LockAroundLoop -> "read"
               [] k'[t] > 0 /\ demo = "recursive_mutex" -> "lock"
               [] OTHER -> "unlock")
  /\ UNCHANGED <<demo, owner, depth, asleep, tmp, buffer, total>>

unlock(t) ==
  /\ Increments(t) /\ pc[t] = "unlock"
  /\ depth' = IF depth > 0 THEN depth - 1 ELSE 0
  /\ IF depth' = 0 THEN Unlock(MutexOf(t)) ELSE UNCHANGED owner
  /\ Goto(t, CASE depth' > 0 -> "unlock" [] k[t] > 0 -> "lock" [] OTHER -> "done")
  /\ UNCHANGED <<demo, asleep, k, tmp, val, buffer, total, log>>

-----------------------------------------------------------------------------
(* consumeXY of try_lock_std.cpp: std::try_lock tries m1, then m2, and     *)
(* gives m1 back if m2 is taken.                                           *)

consumer == demo = "try_lock_std"

try_first ==
  /\ consumer /\ pc["t3"] = "spin" /\ Lock("t3", "m1") /\ Goto("t3", "try")
  /\ UNCHANGED <<demo, depth, asleep, k, tmp, val, buffer, total, log>>

try_secondNever ==   \* mutant: only m1 is taken
  /\ consumer /\ pc["t3"] = "try" /\ Goto("t3", "use")
  /\ UNCHANGED <<demo, owner, depth, asleep, k, tmp, val, buffer, total, log>>

try_second ==
  /\ consumer /\ pc["t3"] = "try"
  /\ \/ Lock("t3", "m2") /\ Goto("t3", "use")
     \/ owner["m2"] # Free /\ Unlock("m1") /\ Goto("t3", "spin")
  /\ UNCHANGED <<demo, depth, asleep, k, tmp, val, buffer, total, log>>

consumeXY ==
  /\ consumer /\ pc["t3"] = "use" /\ Goto("t3", "unlock1")
  /\ IF val["X"] # 0 /\ val["Y"] # 0
     THEN /\ k' = [k EXCEPT !["t3"] = @ - 1]
          /\ total' = total + val["X"] + val["Y"]
          /\ val' = [X |-> 0, Y |-> 0]
     ELSE UNCHANGED <<k, total, val>>
  /\ UNCHANGED <<demo, owner, depth, asleep, tmp, buffer, log>>

consumeXYUnlock ==
  /\ consumer
  /\ \/ pc["t3"] = "unlock1" /\ Unlock("m1") /\ Goto("t3", "unlock2")
     \/ /\ pc["t3"] = "unlock2" /\ Unlock("m2")
        /\ Goto("t3", IF k["t3"] = 0 THEN "done" ELSE "spin")
  /\ UNCHANGED <<demo, depth, asleep, k, tmp, val, buffer, total, log>>

-----------------------------------------------------------------------------
(* Two mutexes at a time: dead_lock.cpp and lock_in_cpp.cpp                *)

Pairing == demo \in {"dead_lock", "lock_in_cpp"}

SwappedOrder(t) == IF t = "t2" THEN <<"m2", "m1">> ELSE <<"m1", "m2">>   \* mutant

\* The order of the locks; only std::lock is called with m2 first.
LockOrder(t) ==
  IF demo = "lock_in_cpp" /\ t = "t2" THEN <<"m2", "m1">> ELSE <<"m1", "m2">>

UnlockOrder(t) == IF t = "t2" THEN <<"m2", "m1">> ELSE <<"m1", "m2">>

lock_first(t) ==
  /\ Pairing /\ pc[t] = "first"
  /\ Lock(t, LockOrder(t)[1]) /\ Goto(t, "second")
  /\ UNCHANGED <<demo, depth, asleep, k, tmp, val, buffer, total, log>>

\* std::lock gives the first mutex back if the second is taken.
lock_second(t) ==
  /\ Pairing /\ pc[t] = "second"
  /\ \/ Lock(t, LockOrder(t)[2]) /\ Goto(t, "unlock1")
     \/ /\ demo = "lock_in_cpp" /\ owner[LockOrder(t)[2]] # Free
        /\ Unlock(LockOrder(t)[1]) /\ Goto(t, "first")
  /\ UNCHANGED <<demo, depth, asleep, k, tmp, val, buffer, total, log>>

unlock_both(t) ==
  /\ Pairing
  /\ \/ pc[t] = "unlock1" /\ Unlock(UnlockOrder(t)[1]) /\ Goto(t, "unlock2")
     \/ /\ pc[t] = "unlock2" /\ Unlock(UnlockOrder(t)[2])
        /\ Goto(t, IF demo = "dead_lock" THEN "done" ELSE "first")
  /\ UNCHANGED <<demo, depth, asleep, k, tmp, val, buffer, total, log>>

-----------------------------------------------------------------------------
(* Condition variables: producer_consumer.cpp, condition_variable.cpp      *)

Wakes(sleepers) ==   \* notify_one
  \/ \E t \in sleepers : asleep' = sleepers \ {t}
  \/ sleepers = {} /\ asleep' = {}

\* wait returns to test its condition, for no reason too.
wakeup(t) ==
  /\ t \in asleep /\ asleep' = asleep \ {t}
  /\ UNCHANGED <<demo, pc, owner, depth, k, tmp, val, buffer, total, log>>

\* wait, with the condition that it waits for.
Sleep(t, condition) ==
  /\ ~ condition /\ asleep' = asleep \cup {t}
  /\ UNCHANGED <<demo, pc, owner, depth, k, tmp, val, buffer, total, log>>

Running(t, label) == t \notin asleep /\ pc[t] = label

producer ==
  /\ Running("t1", "produce") /\ k["t1"] > 0
  /\ \/ Sleep("t1", Len(buffer) < maxBufferSize)
     \/ /\ Len(buffer) < maxBufferSize
        /\ buffer' = Append(buffer, k["t1"]) /\ k' = [k EXCEPT !["t1"] = @ - 1]
        /\ Goto("t1", "notify")
        /\ UNCHANGED <<demo, owner, depth, asleep, tmp, val, total, log>>

consumer_take ==
  /\ Running("t2", "consume")
  /\ \/ Sleep("t2", Len(buffer) > 0)
     \/ /\ Len(buffer) > 0
        /\ log' = Append(log, Last(buffer)) /\ buffer' = Front(buffer)
        /\ Goto("t2", "notify")
        /\ UNCHANGED <<demo, owner, depth, asleep, k, tmp, val, total>>

consumer_notifyNot ==   \* mutant: the consumer wakes nobody
  /\ pc["t2"] = "notify" /\ Goto("t2", "consume")
  /\ UNCHANGED <<demo, owner, depth, asleep, k, tmp, val, buffer, total, log>>

consumer_notify ==
  /\ pc["t2"] = "notify" /\ Wakes(asleep) /\ Goto("t2", "consume")
  /\ UNCHANGED <<demo, owner, depth, k, tmp, val, buffer, total, log>>

producer_notify ==
  /\ pc["t1"] = "notify" /\ Wakes(asleep)
  /\ Goto("t1", IF k["t1"] = 0 THEN "done" ELSE "produce")
  /\ UNCHANGED <<demo, owner, depth, k, tmp, val, buffer, total, log>>

withdrowMoney ==
  /\ Running("t1", "withdraw")
  /\ \/ Sleep("t1", val["X"] # 0)
     \/ /\ val["X"] # 0
        /\ val' = [val EXCEPT !["X"] = IF @ >= k["t1"] THEN @ - k["t1"] ELSE @]
        /\ Goto("t1", "done")
        /\ UNCHANGED <<demo, owner, depth, asleep, k, tmp, buffer, total, log>>

addMoney ==
  /\ Running("t2", "add")
  /\ val' = [val EXCEPT !["X"] = @ + k["t2"]] /\ Wakes(asleep) /\ Goto("t2", "done")
  /\ UNCHANGED <<demo, owner, depth, k, tmp, buffer, total, log>>

-----------------------------------------------------------------------------
Each(first, second, third) ==
  [t \in Threads |-> IF t = "t1" THEN first ELSE IF t = "t2" THEN second ELSE third]
Start(first, second, third) == pc = Each(first, second, third)
Args(first, second, third) == k = Each(first, second, third)

\* The programs: what their main starts, and with which arguments.
mutex == demo = "mutex" /\ Start("lock", "lock", "off") /\ Args(1, 1, 0)
thread_sync == demo = "thread_sync" /\ Start("lock", "lock", "off") /\ Args(1, 1, 0)
timed_mutex == demo = "timed_mutex" /\ Start("lock", "lock", "off") /\ Args(1, 1, 0)
try_lock_mutex ==
  demo = "try_lock_mutex" /\ Start("lock", "lock", "off") /\ Args(Rounds, Rounds, 0)
lock_guard ==
  demo = "lock_guard" /\ Start("lock", "lock", "off") /\ Args(Rounds, Rounds, 0)
unique_lock ==
  demo = "unique_lock" /\ Start("lock", "lock", "off") /\ Args(Rounds, Rounds, 0)
recursive_mutex ==
  demo = "recursive_mutex" /\ Start("lock", "lock", "off") /\ Args(Rounds, Rounds, 0)
try_lock_std ==
  /\ demo = "try_lock_std" /\ Start("lock", "lock", "spin")
  /\ Args(Rounds, Rounds, useCountStart)
dead_lock == demo = "dead_lock" /\ Start("first", "first", "off") /\ Args(0, 0, 0)
lock_in_cpp == demo = "lock_in_cpp" /\ Start("first", "first", "off") /\ Args(0, 0, 0)
producer_consumer ==
  demo = "producer_consumer" /\ Start("produce", "consume", "off") /\ Args(Rounds, 0, 0)
condition_variable ==
  demo = "condition_variable" /\ Start("withdraw", "add", "off") /\ Args(600, 500, 0)

Init ==
  /\ \/ mutex \/ thread_sync \/ timed_mutex \/ try_lock_mutex \/ lock_guard
     \/ unique_lock \/ recursive_mutex \/ try_lock_std \/ dead_lock \/ lock_in_cpp
     \/ producer_consumer \/ condition_variable
  /\ owner = [m \in Mutexes |-> Free] /\ depth = 0 /\ asleep = {}
  /\ tmp = [t \in Threads |-> 0] /\ val = [X |-> 0, Y |-> 0]
  /\ buffer = <<>> /\ total = 0 /\ log = <<>>

Thread(t) ==
  \/ lock(t) \/ timeout(t) \/ read(t) \/ write(t) \/ unlock(t)
  \/ lock_first(t) \/ lock_second(t) \/ unlock_both(t)
  \/ t = "t1" /\ (producer \/ producer_notify \/ withdrowMoney)
  \/ t = "t2" /\ (consumer_take \/ consumer_notify \/ addMoney)
  \/ t = "t3" /\ (try_first \/ try_second \/ consumeXY \/ consumeXYUnlock)

Next == \E t \in Threads : Thread(t) \/ wakeup(t)

Spec == Init /\ [][Next]_vars

\* Each thread that can run does; a thread need not wake for no reason.
FairSpec == Spec /\ \A t \in Threads : WF_vars(Thread(t))

-----------------------------------------------------------------------------
(* Properties                                                              *)

\* The types; and a thread that is in its critical section holds the mutex.
TypeOK ==
  /\ demo \in Demos /\ pc \in [Threads -> Labels]
  /\ owner \in [Mutexes -> Threads \cup {Free}] /\ depth \in 0 .. Rounds
  /\ asleep \subseteq Threads /\ k \in [Threads -> Nat] /\ val \in [{"X", "Y"} -> Int]
  /\ Len(buffer) <= maxBufferSize /\ total \in Nat
  /\ \A t \in Threads : pc[t] \in {"read", "write", "unlock"} => owner[MutexOf(t)] = t

Times(t) == Len(Keep(log, {t}))

\* No increment, item or amount is lost or counted twice, whatever the order of
\* the threads: try_lock_mutex.cpp:21 ("the same result every single time"),
\* try_lock_std.cpp:36-41, producer_consumer.cpp:17-24 and 32-38, and
\* condition_variable.cpp:25-28, whose balance does not go below zero.
NothingLost ==
  /\ demo \in Counting =>
       val["X"] = AmountOf("t1") * Times("t1") + AmountOf("t2") * Times("t2")
  /\ demo = "try_lock_std" => total + val["X"] + val["Y"] = Len(log)
  /\ demo = "producer_consumer" =>
       /\ Range(buffer) \cup Range(log) = k["t1"] + 1 .. Rounds
       /\ Len(buffer) + Len(log) = Rounds - k["t1"]
  /\ demo = "condition_variable" =>
       val["X"] = (IF pc["t2"] = "done" THEN 500 ELSE 0)

\* The increments of a thread that holds the mutex around them all are not
\* mixed with the other's (lock_guard.cpp:19-24, recursive_mutex.cpp:13-16).
SectionsWhole ==
  demo \in LockAroundLoop \cup {"recursive_mutex"} =>
    \A first, last \in DOMAIN log : log[first] = log[last] =>
      \A n \in first .. last : log[n] = log[first]

\* The mutex for which t blocks: try_lock, and std::lock's second, do not block.
BlocksOn(t) ==
  {m \in Mutexes :
     \/ Increments(t) /\ pc[t] = "lock" /\ m = MutexOf(t)
     \/ Pairing /\ pc[t] = "first" /\ m = LockOrder(t)[1]
     \/ demo = "dead_lock" /\ pc[t] = "second" /\ m = LockOrder(t)[2]}

WaitsFor(t, other) == t # other /\ \E m \in BlocksOn(t) : owner[m] = other

\* dead_lock.cpp:6 and lock_in_cpp.cpp:5: no two threads wait for each other.
NoCircularWait ==
  \A t, other \in Threads : ~ (WaitsFor(t, other) /\ WaitsFor(other, t))

\* The joins of main return; of producer_consumer.cpp the producer's, and all
\* that was produced is consumed.  lock_in_cpp.cpp never ends, and consumeXY
\* need not: it spins for good when two increments of X meet one of Y.
ThreadsEnd ==
  /\ demo \in Counting \cup {"dead_lock", "condition_variable"} =>
       <>(pc["t1"] = "done" /\ pc["t2"] = "done")
  /\ demo = "producer_consumer" => <>(pc["t1"] = "done" /\ Len(log) = Rounds)
=============================================================================
