--------------------------- MODULE ChatServerProofs ---------------------------
(***************************************************************************)
(* Proofs about ChatServer, for any connections, users, descriptors, size  *)
(* of the send buffer and number of requests: the tables match the sockets *)
(* and what is sent under the mutex arrives where it was meant to.         *)
(***************************************************************************)
EXTENDS ChatServer, SubsequencesProofs, FiniteSetTheorems

Part == [fd : Fds \cup {stdin}, for : Conns \cup {NoConn},
         part : {"length", "body"}]

\* TypeOK, and: which labels are main()'s and which the connections', and a
\* thread looks for a receiver or logs in with a name in its hand.
RestTyped ==
  /\ running \in BOOLEAN
  /\ sock \in [Fds -> Conns \cup {NoConn}]
  /\ fd \in [Conns -> Fds \cup {Absent}]
  /\ clients \in Seq(Fds)
  /\ client_mapp \in [Users -> Fds \cup {stdin, Absent}]
  /\ client_mutex \in Threads \cup {Free} /\ interrupted \in Threads \cup {Free}
  /\ accepted \in Conns \cup {NoConn}
  /\ peer \in [Conns -> {"away", "connected", "gone"}]
  /\ unread \in [Conns -> 0 .. Buffer]
  /\ requests \in 0 .. MaxRequests
  /\ names \in [Conns -> SUBSET Users] /\ halfway \in [Conns -> SUBSET Conns]

PlacesTyped ==
  /\ pc \in [Threads -> Labels \cup {"accept", "push", "pushing"}]
  /\ pc[Main] \in {"accept", "push", "pushing"}
  /\ user \in [Conns -> Users \cup {Absent}]
  /\ \A c \in Conns :
       pc[c] \in Labels /\ (pc[c] \in {"login", "find", "index"} => user[c] \in Users)

SendsTyped == todo \in [Conns -> Seq(Part)]

Typed == RestTyped /\ PlacesTyped /\ SendsTyped

\* Whoever is in a block under the mutex holds it, and nobody else.
MutexRight ==
  /\ \A c \in Conns :
       pc[c] \in {"listing", "locked", "cleanup"} <=> client_mutex = c
  /\ pc[Main] = "pushing" <=> client_mutex = Main

\* main() has a connection between its accept() and its push_back, and that
\* one has a socket and no thread.
AcceptedRight ==
  /\ accepted # NoConn <=> pc[Main] \in {"push", "pushing"}
  /\ accepted # NoConn =>
       pc[accepted] = "idle" /\ fd[accepted] \in Fds /\ sock[fd[accepted]] = accepted

\* A thread has its socket until it ends, and no connection has another.
SocketsRight ==
  /\ \A c \in Conns :
       pc[c] \notin {"idle", "done"} => fd[c] \in Fds /\ sock[fd[c]] = c
  /\ \A n \in Fds : \A c \in Conns : sock[n] = c =>
       fd[c] = n /\ pc[c] # "done" /\ (pc[c] = "idle" => accepted = c)

ClientsRight ==
  /\ Elements(clients) = {fd[c] : c \in {d \in Conns : Registered(d)}}
  /\ Distinct(clients)

MapRight ==
  \A u \in Users : client_mapp[u] \in Fds =>
    \E c \in Conns : fd[c] = client_mapp[u] /\ Registered(c) /\ u \in names[c]

\* What is sent under the mutex goes to descriptors in `clients', and a
\* goodbye to the thread's own socket; it is still the one it was made for.
SendsRight ==
  \A c \in Conns : \A i \in 1 .. Len(todo[c]) :
    /\ pc[c] = "locked" =>
         /\ todo[c][i].fd \in Elements(clients)
         /\ todo[c][i].for = sock[todo[c][i].fd]
    /\ pc[c] = "goodbye" => todo[c][i].fd = fd[c] /\ todo[c][i].for = c

ChatInv == /\ Typed /\ MutexRight /\ AcceptedRight /\ SocketsRight
           /\ ClientsRight /\ MapRight /\ SendsRight

USE DEF Runs, Goto, Lock, Say, sockets, tables, threads, net, history, vars

-----------------------------------------------------------------------------
(* The operators                                                           *)

\* Each part of a message goes to a descriptor it was made for, and is marked
\* with the connection that has that descriptor (lines 44-55).
LEMMA MessagesRight ==
  ASSUME Typed, NEW to \in Seq(Fds \cup {stdin})
  PROVE  /\ Messages(to) \in Seq(Part)
         /\ \A i \in 1 .. Len(Messages(to)) :
              /\ Messages(to)[i].fd \in Elements(to)
              /\ Messages(to)[i].for = Owner(Messages(to)[i].fd)
<1> DEFINE n == 2 * Len(to)
           At(i) == (i + 1) \div 2
           Message(i) == [fd |-> to[At(i)], for |-> Owner(to[At(i)]),
                          part |-> IF i % 2 = 1 THEN "length" ELSE "body"]
<1>1. n \in Nat /\ Len(to) \in Nat
  OBVIOUS
<1>2. \A i \in 1 .. n : At(i) \in 1 .. Len(to)
  OBVIOUS
<1>3. \A i \in 1 .. n : to[At(i)] \in Fds \cup {stdin} /\ to[At(i)] \in Elements(to)
  BY <1>2 DEF Elements
<1>4. \A m \in Fds \cup {stdin} : Owner(m) \in Conns \cup {NoConn}
  BY DEF Owner, Typed, RestTyped
<1> HIDE DEF At
<1>5. \A i \in 1 .. n : Message(i) \in Part
  BY <1>3, <1>4 DEF Part
<1>6. Messages(to) = [i \in 1 .. n |-> Message(i)]
  BY DEF Messages, At
<1> HIDE DEF n
<1>7. Messages(to) \in Seq(Part) /\ Len(Messages(to)) = n
  <2> HIDE DEF Message
  <2>1. Messages(to) \in [1 .. n -> Part]
    BY <1>5, <1>6
  <2> QED
    BY <1>1, <2>1
<1>8. \A i \in 1 .. n : Messages(to)[i] = Message(i)
  <2> HIDE DEF Message
  <2> QED
    BY <1>6
<1>9. ASSUME NEW i \in 1 .. n
      PROVE  /\ Messages(to)[i].fd = to[At(i)]
             /\ Messages(to)[i].for = Owner(to[At(i)])
  <2>1. Messages(to)[i] = Message(i)
    BY <1>8
  <2>2. Message(i).fd = to[At(i)] /\ Message(i).for = Owner(to[At(i)])
    OBVIOUS
  <2> QED
    BY <2>1, <2>2
<1> QED
  BY <1>3, <1>7, <1>9

-----------------------------------------------------------------------------
(* Types                                                                   *)

\* A thread moves on.
LEMMA GotoType ==
  ASSUME Typed, NEW c \in Conns, NEW l \in Labels, pc' = [pc EXCEPT ![c] = l]
  PROVE  /\ pc' \in [Threads -> Labels \cup {"accept", "push", "pushing"}]
         /\ pc'[Main] \in {"accept", "push", "pushing"}
         /\ \A d \in Conns : pc'[d] \in Labels
         /\ pc'[c] = l /\ \A t \in Threads : t # c => pc'[t] = pc[t]
<1>1. c \in Threads /\ Main \in Threads /\ c # Main /\ Conns \subseteq Threads
  BY ChatAssumption DEF Threads
<1> HIDE DEF Threads
<1> QED
  BY <1>1 DEF Typed, PlacesTyped

\* A thread has a message to send, and moves on.
LEMMA SayType ==
  ASSUME Typed, NEW c \in Conns, NEW l \in Labels,
         NEW to \in Seq(Fds \cup {stdin}), Say(c, to, l)
  PROVE  /\ todo' \in [Conns -> Seq(Part)]
         /\ todo'[c] = Messages(to) /\ \A d \in Conns : d # c => todo'[d] = todo[d]
<1>1. Messages(to) \in Seq(Part)
  BY MessagesRight
<1> QED
  BY <1>1 DEF Typed, SendsTyped

\* One of a connection's descriptors, and those of the others.
LEMMA OthersType ==
  ASSUME Typed, NEW c \in Conns
  PROVE  /\ Others(c) \in Seq(Fds)
         /\ Elements(Others(c)) = Elements(clients) \ {fd[c]}
         /\ Distinct(clients) => Distinct(Others(c))
<1>1. clients \in Seq(Fds)
  BY DEF Typed, RestTyped
<1>2. Elements(clients) \subseteq Fds
  BY <1>1 DEF Elements
<1> QED
  BY <1>1, <1>2, KeepElements DEF Others

LEMMA TypedImpliesTypeOK == Typed => TypeOK
<1> SUFFICES ASSUME Typed PROVE TypeOK
  OBVIOUS
<1>1. \A c \in Conns : todo[c] \in Seq(Part)
  BY DEF Typed, SendsTyped
<1>2. RestTyped /\ PlacesTyped
  BY DEF Typed
<1> QED
  BY <1>1, <1>2 DEF TypeOK, RestTyped, PlacesTyped, Part

\* A step that moves one thread to a label at which it needs no name, or has one.
LEMMA PlaceStep ==
  ASSUME Typed, NEW c \in Conns, NEW l \in Labels, pc' = [pc EXCEPT ![c] = l],
         user' \in [Conns -> Users \cup {Absent}],
         \A d \in Conns : d # c => user'[d] = user[d],
         l \in {"login", "find", "index"} => user'[c] \in Users
  PROVE  PlacesTyped'
<1>1. /\ pc' \in [Threads -> Labels \cup {"accept", "push", "pushing"}]
      /\ pc'[Main] \in {"accept", "push", "pushing"}
      /\ \A d \in Conns : pc'[d] \in Labels
      /\ pc'[c] = l /\ \A d \in Conns : d # c => pc'[d] = pc[d]
  BY GotoType DEF Threads
<1> QED
  BY <1>1 DEF Typed, PlacesTyped

\* The steps of a handler.
LEMMA HandlerTypes ==
  ASSUME Typed, NEW c \in Conns, fd[c] \in Fds,
         \/ handleLoginClient(c) \/ FindReceiver(c) \/ IndexReceiver(c)
         \/ broadcastMessage(c) \/ LockUsers(c) \/ ListUsers(c)
         \/ LockLogout(c) \/ Cleanup(c)
  PROVE  Typed'
<1> USE DEF Typed
<1>0. /\ <<fd[c]>> \in Seq(Fds \cup {stdin}) /\ c \in Threads
      /\ user \in [Conns -> Users \cup {Absent}]
      /\ {"index", "reply", "locked", "listing", "cleanup", "goodbye"} \subseteq Labels
  BY DEF PlacesTyped, Threads, Labels
<1>1. CASE handleLoginClient(c)
  <2>1. user[c] \in Users
    BY <1>1 DEF handleLoginClient, PlacesTyped
  <2>2. RestTyped'
    BY <1>1, <2>1 DEF handleLoginClient, RestTyped
  <2>3. SendsTyped'
    BY <1>0, <1>1, SayType DEF handleLoginClient, SendsTyped
  <2>4. PlacesTyped'
    BY <1>0, <1>1, PlaceStep DEF handleLoginClient
  <2> QED
    BY <2>2, <2>3, <2>4
<1>2. CASE FindReceiver(c)
  <2>1. RestTyped'
    BY <1>2 DEF FindReceiver, RestTyped
  <2>2. SendsTyped'
    BY <1>0, <1>2, SayType DEF FindReceiver, SendsTyped
  <2>3. PlacesTyped'
    <3>1. user[c] \in Users /\ UNCHANGED user
      BY <1>2 DEF FindReceiver, PlacesTyped
    <3>2. \/ pc' = [pc EXCEPT ![c] = "reply"]
          \/ pc' = [pc EXCEPT ![c] = "index"]
      BY <1>2 DEF FindReceiver
    <3> QED
      BY <1>0, <3>1, <3>2, PlaceStep
  <2> QED
    BY <2>1, <2>2, <2>3
<1>3. CASE IndexReceiver(c)
  <2> DEFINE n == IF client_mapp[user[c]] = Absent THEN stdin
                  ELSE client_mapp[user[c]]
  <2>1. user[c] \in Users
    BY <1>3 DEF IndexReceiver, PlacesTyped
  <2>2. n \in Fds \cup {stdin}
    BY <2>1 DEF RestTyped
  <2>3. <<n, fd[c]>> \in Seq(Fds \cup {stdin})
    BY <2>2
  <2>4. /\ client_mapp' = [client_mapp EXCEPT ![user[c]] = n]
        /\ Say(c, <<n, fd[c]>>, "reply")
    BY <1>3 DEF IndexReceiver
  <2> HIDE DEF n
  <2>5. RestTyped'
    BY <1>3, <2>1, <2>2, <2>4 DEF IndexReceiver, RestTyped
  <2>6. SendsTyped'
    BY <1>0, <2>3, <2>4, SayType DEF SendsTyped
  <2>7. PlacesTyped'
    BY <1>0, <1>3, PlaceStep DEF IndexReceiver
  <2> QED
    BY <2>5, <2>6, <2>7
<1>4. CASE broadcastMessage(c)
  <2>1. Others(c) \o <<fd[c]>> \in Seq(Fds \cup {stdin})
    <3>1. Others(c) \in Seq(Fds)
      BY OthersType
    <3> QED
      BY <3>1
  <2>2. RestTyped'
    BY <1>0, <1>4 DEF broadcastMessage, RestTyped
  <2>3. SendsTyped'
    BY <1>0, <1>4, <2>1, SayType DEF broadcastMessage, SendsTyped
  <2>4. PlacesTyped'
    BY <1>0, <1>4, PlaceStep DEF broadcastMessage
  <2> QED
    BY <2>2, <2>3, <2>4
<1>5. CASE LockUsers(c) \/ LockLogout(c)
  <2>1. RestTyped' /\ SendsTyped'
    BY <1>0, <1>5 DEF LockUsers, LockLogout, RestTyped, SendsTyped
  <2>2. PlacesTyped'
    BY <1>0, <1>5, PlaceStep DEF LockUsers, LockLogout
  <2> QED
    BY <2>1, <2>2
<1>6. CASE ListUsers(c)
  <2>1. RestTyped'
    BY <1>6 DEF ListUsers, RestTyped
  <2>2. SendsTyped'
    BY <1>0, <1>6, SayType DEF ListUsers, SendsTyped
  <2>3. PlacesTyped'
    BY <1>0, <1>6, PlaceStep DEF ListUsers
  <2> QED
    BY <2>1, <2>2, <2>3
<1>7. CASE Cleanup(c)
  <2>1. RestTyped'
    BY <1>7, OthersType DEF Cleanup, RestTyped
  <2>2. SendsTyped'
    BY <1>0, <1>7, SayType DEF Cleanup, SendsTyped
  <2>3. PlacesTyped'
    BY <1>0, <1>7, PlaceStep DEF Cleanup
  <2> QED
    BY <2>1, <2>2, <2>3
<1> QED
  BY <1>1, <1>2, <1>3, <1>4, <1>5, <1>6, <1>7

\* The rest of what a connection's thread does.
LEMMA ThreadTypes ==
  ASSUME Typed, NEW c \in Conns, pc[c] = "recv" => fd[c] \in Fds,
         \/ Disconnected(c) \/ Close(c) \/ Send(c) \/ SendInVain(c) \/ Finish(c)
         \/ Receive(c)
  PROVE  Typed'
<1> USE DEF Typed
<1>0. /\ c \in Threads /\ todo[c] \in Seq(Part)
      /\ user \in [Conns -> Users \cup {Absent}]
      /\ {"recv", "logout", "reply", "broadcast", "users", "login", "find",
          "done"} \subseteq Labels
  BY DEF PlacesTyped, SendsTyped, Threads, Labels
<1>1. CASE Disconnected(c)
  <2>1. RestTyped' /\ SendsTyped'
    BY <1>1 DEF Disconnected, RestTyped, SendsTyped
  <2>2. PlacesTyped'
    BY <1>0, <1>1, PlaceStep DEF Disconnected
  <2> QED
    BY <2>1, <2>2
<1>2. CASE Close(c)
  <2>1. RestTyped' /\ SendsTyped'
    BY <1>2 DEF Close, RestTyped, SendsTyped
  <2>2. PlacesTyped'
    BY <1>0, <1>2, PlaceStep DEF Close
  <2> QED
    BY <2>1, <2>2
<1>3. CASE Send(c)
  <2> DEFINE s == Head(todo[c])
             d == Owner(s.fd)
  <2>1. s \in Part /\ Tail(todo[c]) \in Seq(Part)
    BY <1>0, <1>3 DEF Send
  <2>2. d \in Conns
    BY <1>3, <2>1 DEF Send, Owner, RestTyped, Part
  <2>3. /\ unread[d] < Buffer
        /\ unread' = [unread EXCEPT ![d] = @ + 1]
        /\ halfway' = [halfway EXCEPT ![d] = IF s.part = "length" THEN @ \cup {c}
                                             ELSE @ \ {c}]
        /\ todo' = [todo EXCEPT ![c] = Tail(@)]
        /\ UNCHANGED <<running, sock, fd, clients, client_mapp, client_mutex, pc,
                       user, accepted, interrupted, peer, requests, names>>
    BY <1>3 DEF Send
  <2> HIDE DEF s, d
  <2>4. unread' \in [Conns -> 0 .. Buffer]
    BY <2>2, <2>3, ChatAssumption DEF RestTyped
  <2>5. halfway' \in [Conns -> SUBSET Conns]
    BY <2>2, <2>3 DEF RestTyped
  <2>6. RestTyped'
    BY <2>3, <2>4, <2>5 DEF RestTyped
  <2>7. SendsTyped' /\ PlacesTyped'
    BY <2>1, <2>3 DEF SendsTyped, PlacesTyped
  <2> QED
    BY <2>6, <2>7
<1>4. CASE SendInVain(c)
  <2>1. Tail(todo[c]) \in Seq(Part)
    BY <1>0, <1>4 DEF SendInVain
  <2> QED
    BY <1>4, <2>1 DEF SendInVain, RestTyped, PlacesTyped, SendsTyped
<1>5. CASE Finish(c)
  <2>1. RestTyped' /\ SendsTyped'
    BY <1>5 DEF Finish, RestTyped, SendsTyped
  <2>2. user' \in [Conns -> Users \cup {Absent}]
        /\ \A d \in Conns : d # c => user'[d] = user[d]
    BY <1>0, <1>5 DEF Finish
  <2>3. pc' = [pc EXCEPT ![c] = "recv"]
    BY <1>5 DEF Finish
  <2>4. PlacesTyped'
    BY <1>0, <2>2, <2>3, PlaceStep
  <2> QED
    BY <2>1, <2>4
<1>6. CASE Invalid(c)
  <2>1. <<fd[c]>> \in Seq(Fds \cup {stdin})
    BY <1>6 DEF Invalid
  <2>2. RestTyped'
    BY <1>6, ChatAssumption DEF Invalid, RestTyped
  <2>3. SendsTyped'
    BY <1>0, <1>6, <2>1, SayType DEF Invalid, SendsTyped
  <2>4. PlacesTyped'
    BY <1>0, <1>6, PlaceStep DEF Invalid
  <2> QED
    BY <2>2, <2>3, <2>4
<1>7. ASSUME NEW next \in {"broadcast", "users", "logout", "login", "find"},
             NEW u \in Users \cup {Absent},
             next \in {"login", "find"} => u \in Users, Request(c, next, u)
      PROVE  Typed'
  <2>1. RestTyped' /\ SendsTyped'
    BY <1>7, ChatAssumption DEF Request, RestTyped, SendsTyped
  <2>2. /\ user' \in [Conns -> Users \cup {Absent}] /\ user'[c] = u
        /\ \A d \in Conns : d # c => user'[d] = user[d]
    BY <1>0, <1>7 DEF Request
  <2>3. pc' = [pc EXCEPT ![c] = next] /\ next \in Labels
    BY <1>0, <1>7 DEF Request
  <2>4. PlacesTyped'
    BY <1>7, <2>2, <2>3, PlaceStep
  <2> QED
    BY <2>1, <2>4
<1> QED
  BY <1>1, <1>2, <1>3, <1>4, <1>5, <1>6, <1>7 DEF Receive

\* main(), signals, races and clients.
LEMMA OutsideTypes ==
  ASSUME Typed, AcceptedRight,
         \/ main \/ shutdownServer
         \/ \E t \in Threads : Interrupt(t)
         \/ \E c \in Conns : BrokenPipe(c) \/ Client(c)
         \/ \E c, d \in Conns : Race(c, d)
  PROVE  Typed'
<1> USE DEF Typed
<1>0. Main \in Threads /\ Conns \subseteq Threads /\ Main \notin Conns
  BY ChatAssumption DEF Threads
<1>1. ASSUME NEW c \in Conns, Accept(c) PROVE Typed'
  <2>1. RestTyped'
    BY <1>1 DEF Accept, RestTyped
  <2>2. PlacesTyped' /\ SendsTyped'
    BY <1>0, <1>1 DEF Accept, PlacesTyped, SendsTyped
  <2> QED
    BY <2>1, <2>2
<1>2. CASE LockPush
  <2>1. RestTyped'
    BY <1>0, <1>2 DEF LockPush, RestTyped
  <2>2. PlacesTyped' /\ SendsTyped'
    BY <1>0, <1>2 DEF LockPush, PlacesTyped, SendsTyped
  <2> QED
    BY <2>1, <2>2
<1>3. CASE Push
  <2>1. accepted \in Conns /\ fd[accepted] \in Fds
    BY <1>3 DEF Push, AcceptedRight, RestTyped
  <2>2. RestTyped'
    BY <1>3, <2>1 DEF Push, RestTyped
  <2>3. PlacesTyped' /\ SendsTyped'
    BY <1>0, <1>3, <2>1 DEF Push, PlacesTyped, SendsTyped, Labels
  <2> QED
    BY <2>2, <2>3
<1>4. CASE \/ shutdownServer
           \/ \E t \in Threads : Interrupt(t)
           \/ \E c \in Conns : BrokenPipe(c)
           \/ \E c, d \in Conns : Race(c, d)
  BY <1>4 DEF shutdownServer, Interrupt, BrokenPipe, Race, RestTyped, PlacesTyped,
              SendsTyped
<1>5. ASSUME NEW c \in Conns, Client(c) PROVE Typed'
  <2>1. unread[c] \in 0 .. Buffer /\ Buffer \in Nat
    BY ChatAssumption DEF RestTyped
  <2>2. RestTyped'
    <3>1. CASE Connect(c)
      BY <3>1 DEF Connect, RestTyped
    <3>2. CASE receiveMessages(c)
      BY <2>1, <3>2 DEF receiveMessages, RestTyped
    <3>3. CASE Leave(c)
      BY <2>1, <3>3 DEF Leave, RestTyped
    <3> QED
      BY <1>5, <3>1, <3>2, <3>3 DEF Client
  <2>3. PlacesTyped' /\ SendsTyped'
    BY <1>5 DEF Client, Connect, receiveMessages, Leave, PlacesTyped, SendsTyped
  <2> QED
    BY <2>2, <2>3
<1> QED
  BY <1>1, <1>2, <1>3, <1>4, <1>5 DEF main

LEMMA TypedStep == ChatInv /\ [Next]_vars => Typed'
<1> SUFFICES ASSUME ChatInv, [Next]_vars PROVE Typed'
  OBVIOUS
<1>1. ASSUME NEW c \in Conns, Handle(c) \/ Receive(c) PROVE Typed'
  <2>1. pc[c] \notin {"idle", "done"} => fd[c] \in Fds
    BY DEF ChatInv, SocketsRight
  <2>2. CASE \/ handleLoginClient(c) \/ FindReceiver(c) \/ IndexReceiver(c)
             \/ broadcastMessage(c) \/ LockUsers(c) \/ ListUsers(c)
             \/ LockLogout(c) \/ Cleanup(c)
    <3>1. pc[c] \notin {"idle", "done"}
      BY <2>2 DEF handleLoginClient, FindReceiver, IndexReceiver,
                  broadcastMessage, LockUsers, ListUsers, LockLogout, Cleanup
    <3> QED
      BY <2>1, <2>2, <3>1, HandlerTypes DEF ChatInv
  <2>3. CASE \/ Disconnected(c) \/ Close(c) \/ Send(c) \/ SendInVain(c)
             \/ Finish(c) \/ Receive(c)
    BY <2>1, <2>3, ThreadTypes DEF ChatInv
  <2> QED
    BY <1>1, <2>2, <2>3 DEF Handle
<1>2. CASE \/ main \/ shutdownServer
           \/ \E t \in Threads : Interrupt(t)
           \/ \E c \in Conns : BrokenPipe(c) \/ Client(c)
           \/ \E c, d \in Conns : Race(c, d)
  BY <1>2, OutsideTypes DEF ChatInv
<1>3. CASE UNCHANGED vars
  BY <1>3 DEF ChatInv, Typed, RestTyped, PlacesTyped, SendsTyped
<1> QED
  BY <1>1, <1>2, <1>3 DEF Next

-----------------------------------------------------------------------------
(* The mutex                                                               *)

\* A thread moves on, in or out of a block under the mutex.
LEMMA MutexMoves ==
  ASSUME ChatInv, NEW c \in Conns, NEW l \in Labels, Goto(c, l),
         \/ /\ l \notin {"listing", "locked", "cleanup"}
            /\ \/ pc[c] \notin {"listing", "locked", "cleanup"} /\ UNCHANGED client_mutex
               \/ pc[c] \in {"listing", "locked", "cleanup"} /\ client_mutex' = Free
         \/ /\ l \in {"listing", "locked", "cleanup"}
            /\ \/ client_mutex = Free /\ client_mutex' = c
               \/ pc[c] \in {"listing", "locked", "cleanup"} /\ UNCHANGED client_mutex
  PROVE  MutexRight'
<1>1. /\ pc'[c] = l /\ \A d \in Conns : d # c => pc'[d] = pc[d]
      /\ pc'[Main] = pc[Main] /\ Main # c
  BY GotoType, ChatAssumption DEF ChatInv, Threads
<1>2. Free # c /\ Free # Main /\ Free \notin Conns
  BY ChatAssumption DEF Threads
<1> QED
  BY <1>1, <1>2 DEF ChatInv, MutexRight

LEMMA MutexStep == ChatInv /\ [Next]_vars => MutexRight'
<1> SUFFICES ASSUME ChatInv, [Next]_vars PROVE MutexRight'
  OBVIOUS
<1>0. /\ {"recv", "logout", "reply", "broadcast", "users", "login", "find", "index",
          "locked", "listing", "cleanup", "goodbye", "done"} \subseteq Labels
      /\ Main \notin Conns /\ Free \notin Conns \cup {Main}
      /\ pc \in [Threads -> Labels \cup {"accept", "push", "pushing"}]
      /\ Conns \subseteq Threads /\ Main \in Threads
  BY ChatAssumption DEF Labels, Threads, ChatInv, Typed, PlacesTyped
<1>1. ASSUME NEW c \in Conns, Handle(c) \/ Receive(c) PROVE MutexRight'
  <2>1. CASE Disconnected(c)
    BY <1>0, <2>1, MutexMoves DEF Disconnected
  <2>2. CASE handleLoginClient(c)
    BY <1>0, <2>2, MutexMoves DEF handleLoginClient
  <2>3. CASE FindReceiver(c)
    BY <1>0, <2>3, MutexMoves DEF FindReceiver
  <2>4. CASE IndexReceiver(c)
    BY <1>0, <2>4, MutexMoves DEF IndexReceiver
  <2>5. CASE broadcastMessage(c)
    BY <1>0, <2>5, MutexMoves DEF broadcastMessage
  <2>6. CASE LockUsers(c) \/ LockLogout(c)
    BY <1>0, <2>6, MutexMoves DEF LockUsers, LockLogout
  <2>7. CASE ListUsers(c)
    BY <1>0, <2>7, MutexMoves DEF ListUsers
  <2>8. CASE Cleanup(c)
    BY <1>0, <2>8, MutexMoves DEF Cleanup
  <2>9. CASE Close(c)
    BY <1>0, <2>9, MutexMoves DEF Close
  <2>10. CASE Finish(c)
    BY <1>0, <2>10, MutexMoves DEF Finish
  <2>11. CASE Invalid(c)
    BY <1>0, <2>11, MutexMoves DEF Invalid
  <2>12. ASSUME NEW next \in {"broadcast", "users", "logout", "login", "find"},
                NEW u, Request(c, next, u)
         PROVE  MutexRight'
    BY <1>0, <2>12, MutexMoves DEF Request
  <2>13. CASE Send(c) \/ SendInVain(c)
    BY <2>13 DEF Send, SendInVain, ChatInv, MutexRight
  <2> QED
    BY <1>1, <2>1, <2>2, <2>3, <2>4, <2>5, <2>6, <2>7, <2>8, <2>9, <2>10, <2>11,
       <2>12, <2>13 DEF Handle, Receive
<1>2. ASSUME NEW c \in Conns, Accept(c) PROVE MutexRight'
  BY <1>0, <1>2 DEF Accept, ChatInv, MutexRight
<1>3. CASE LockPush
  BY <1>0, <1>3 DEF LockPush, ChatInv, MutexRight
<1>4. CASE Push
  <2>1. accepted \in Conns /\ pc[accepted] = "idle"
    BY <1>4 DEF Push, ChatInv, AcceptedRight, Typed, RestTyped
  <2> QED
    BY <1>0, <1>4, <2>1 DEF Push, ChatInv, MutexRight
<1>5. CASE UNCHANGED <<pc, client_mutex>>
  BY <1>5 DEF ChatInv, MutexRight
<1>6. CASE \/ shutdownServer
           \/ \E t \in Threads : Interrupt(t)
           \/ \E c \in Conns : BrokenPipe(c) \/ Client(c)
           \/ \E c, d \in Conns : Race(c, d)
           \/ UNCHANGED vars
  BY <1>5, <1>6 DEF shutdownServer, Interrupt, BrokenPipe, Race, Client, Connect,
                    receiveMessages, Leave
<1> QED
  BY <1>1, <1>2, <1>3, <1>4, <1>6 DEF Next, main

-----------------------------------------------------------------------------
(* Sockets and the vector of clients                                       *)

TablesRight == AcceptedRight /\ SocketsRight /\ ClientsRight

\* Between its push_back and its logout a thread changes none of the two.
LEMMA ServedTables ==
  ASSUME ChatInv, NEW c \in Conns, NEW l \in Labels \ {"idle", "goodbye", "done"},
         pc[c] \notin {"idle", "goodbye", "done"}, Goto(c, l),
         UNCHANGED <<sock, fd, clients, accepted>>
  PROVE  TablesRight'
<1>1. /\ pc'[c] = l /\ \A d \in Conns : d # c => pc'[d] = pc[d]
      /\ pc'[Main] = pc[Main]
  BY GotoType, ChatAssumption DEF ChatInv, Threads
<1>2. \A d \in Conns : Registered(d)' <=> Registered(d)
  BY <1>1 DEF Registered
<1>3. AcceptedRight'
  BY <1>1 DEF ChatInv, AcceptedRight
<1>4. SocketsRight'
  BY <1>1 DEF ChatInv, SocketsRight
<1>5. ClientsRight'
  <2>1. {d \in Conns : Registered(d)}' = {d \in Conns : Registered(d)}
    BY <1>2
  <2> QED
    BY <2>1 DEF ChatInv, ClientsRight
<1> QED
  BY <1>3, <1>4, <1>5 DEF TablesRight

LEMMA QuietTables ==
  ASSUME ChatInv, UNCHANGED <<pc, sock, fd, clients, accepted>>
  PROVE  TablesRight'
BY DEF ChatInv, AcceptedRight, SocketsRight, ClientsRight, Registered, TablesRight

\* Two connections with a socket have two descriptors.
LEMMA OwnDescriptor ==
  ASSUME ChatInv, NEW c \in Conns, NEW d \in Conns, c # d,
         pc[c] \notin {"idle", "done"}, pc[d] \notin {"idle", "done"}
  PROVE  fd[c] # fd[d]
BY DEF ChatInv, SocketsRight

\* A logout under the mutex (lines 68-76).
LEMMA CleanupTables ==
  ASSUME ChatInv, NEW c \in Conns, Cleanup(c)
  PROVE  TablesRight'
<1>1. /\ pc'[c] = "goodbye" /\ \A d \in Conns : d # c => pc'[d] = pc[d]
      /\ pc'[Main] = pc[Main] /\ pc[c] = "cleanup"
      /\ UNCHANGED <<sock, fd, accepted>> /\ clients' = Others(c)
  BY GotoType, ChatAssumption DEF ChatInv, Threads, Cleanup, Labels
<1>2. AcceptedRight'
  BY <1>1 DEF ChatInv, AcceptedRight, Typed, RestTyped
<1>3. SocketsRight'
  BY <1>1 DEF ChatInv, SocketsRight
<1>4. ClientsRight'
  <2>1. \A d \in Conns : Registered(d)' <=> Registered(d) /\ d # c
    BY <1>1 DEF Registered
  <2>2. \A d \in Conns : Registered(d) /\ d # c => fd[d] # fd[c]
    BY <1>1, OwnDescriptor DEF Registered
  <2>3. {fd[d] : d \in {e \in Conns : Registered(e)}} \ {fd[c]}
          = {fd[d] : d \in {e \in Conns : Registered(e) /\ e # c}}
    BY <2>2
  <2>4. {e \in Conns : Registered(e)}' = {e \in Conns : Registered(e) /\ e # c}
    BY <2>1
  <2>5. /\ Elements(clients') = Elements(clients) \ {fd[c]}
        /\ Distinct(clients) => Distinct(clients')
    BY <1>1, OthersType DEF ChatInv
  <2> QED
    BY <1>1, <2>3, <2>4, <2>5 DEF ChatInv, ClientsRight
<1> QED
  BY <1>2, <1>3, <1>4 DEF TablesRight

\* close() (line 81).
LEMMA CloseTables ==
  ASSUME ChatInv, NEW c \in Conns, Close(c)
  PROVE  TablesRight'
<1>1. /\ pc'[c] = "done" /\ \A d \in Conns : d # c => pc'[d] = pc[d]
      /\ pc'[Main] = pc[Main] /\ pc[c] = "goodbye"
      /\ UNCHANGED <<fd, accepted, clients>> /\ sock' = [sock EXCEPT ![fd[c]] = NoConn]
  BY GotoType, ChatAssumption DEF ChatInv, Threads, Close, Labels
<1>2. /\ fd[c] \in Fds /\ sock[fd[c]] = c /\ NoConn \notin Conns
      /\ sock \in [Fds -> Conns \cup {NoConn}]
      /\ accepted \in Conns \cup {NoConn}
  BY <1>1, ChatAssumption DEF ChatInv, SocketsRight, Typed, RestTyped
<1>3. /\ sock'[fd[c]] = NoConn
      /\ \A n \in Fds : n # fd[c] => sock'[n] = sock[n]
  BY <1>1, <1>2
<1>4. AcceptedRight'
  BY <1>1, <1>2, <1>3 DEF ChatInv, AcceptedRight
<1>5. SocketsRight'
  BY <1>1, <1>2, <1>3 DEF ChatInv, SocketsRight
<1>6. ClientsRight'
  <2>1. {d \in Conns : Registered(d)}' = {d \in Conns : Registered(d)}
    BY <1>1 DEF Registered
  <2> QED
    BY <1>1, <2>1 DEF ChatInv, ClientsRight
<1> QED
  BY <1>4, <1>5, <1>6 DEF TablesRight

\* accept() returns a descriptor that no connection has (line 211).
LEMMA AcceptTables ==
  ASSUME ChatInv, NEW c \in Conns, Accept(c)
  PROVE  TablesRight'
<1>1. PICK n \in Fds : /\ sock[n] = NoConn /\ sock' = [sock EXCEPT ![n] = c]
                       /\ fd' = [fd EXCEPT ![c] = n]
  BY DEF Accept
<1>2. /\ pc[Main] = "accept" /\ pc[c] = "idle" /\ accepted' = c /\ clients' = clients
      /\ pc' = [pc EXCEPT ![Main] = "push"]
  BY DEF Accept
<1>3. /\ Main \notin Conns /\ NoConn \notin Conns /\ accepted = NoConn
      /\ pc'[Main] = "push" /\ \A d \in Conns : pc'[d] = pc[d]
  BY <1>2, ChatAssumption DEF ChatInv, AcceptedRight, Typed, PlacesTyped, Threads
<1>4. /\ sock'[n] = c /\ \A m \in Fds : m # n => sock'[m] = sock[m]
      /\ fd'[c] = n /\ \A d \in Conns : d # c => fd'[d] = fd[d]
  BY <1>1 DEF ChatInv, Typed, RestTyped
<1>5. AcceptedRight'
  BY <1>1, <1>2, <1>3, <1>4 DEF AcceptedRight
<1>6. SocketsRight'
  BY <1>1, <1>2, <1>3, <1>4 DEF ChatInv, SocketsRight
<1>7. ClientsRight'
  <2>1. {d \in Conns : Registered(d)}' = {d \in Conns : Registered(d)}
    BY <1>3 DEF Registered
  <2>2. \A d \in Conns : Registered(d) => fd'[d] = fd[d]
    BY <1>2, <1>4 DEF Registered
  <2>3. {fd'[d] : d \in {e \in Conns : Registered(e)}}
          = {fd[d] : d \in {e \in Conns : Registered(e)}}
    BY <2>2
  <2> QED
    BY <1>2, <2>1, <2>3 DEF ChatInv, ClientsRight
<1> QED
  BY <1>5, <1>6, <1>7 DEF TablesRight

\* push_back and the start of the thread (lines 226-233).
LEMMA PushTables ==
  ASSUME ChatInv, Push
  PROVE  TablesRight'
<1> DEFINE c == accepted
<1>1. /\ c \in Conns /\ pc[c] = "idle" /\ fd[c] \in Fds /\ sock[fd[c]] = c
      /\ c # Main /\ Main \notin Conns /\ NoConn \notin Conns
  BY ChatAssumption DEF Push, ChatInv, AcceptedRight, Typed, RestTyped
<1>2. /\ clients' = Append(clients, fd[c])
      /\ UNCHANGED <<sock, fd>> /\ accepted' = NoConn
      /\ pc' = [pc EXCEPT ![Main] = "accept", ![c] = "recv"]
  BY DEF Push
<1>3. /\ pc'[Main] = "accept" /\ pc'[c] = "recv"
      /\ \A d \in Conns : d # c => pc'[d] = pc[d]
  BY <1>1, <1>2 DEF ChatInv, Typed, PlacesTyped, Threads
<1> HIDE DEF c
<1>4. AcceptedRight'
  BY <1>2, <1>3 DEF AcceptedRight
<1>5. SocketsRight'
  BY <1>1, <1>2, <1>3 DEF ChatInv, SocketsRight, c
<1>6. fd[c] \notin Elements(clients)
  <2>1. \A d \in Conns : Registered(d) => d # c /\ fd[d] # fd[c]
    BY <1>1 DEF Registered, ChatInv, SocketsRight
  <2> QED
    BY <2>1 DEF ChatInv, ClientsRight
<1>7. ClientsRight'
  <2>1. clients \in Seq(Fds)
    BY DEF ChatInv, Typed, RestTyped
  <2>2. \A d \in Conns : Registered(d)' <=> Registered(d) \/ d = c
    BY <1>1, <1>3 DEF Registered
  <2>3. {d \in Conns : Registered(d)}' = {d \in Conns : Registered(d)} \cup {c}
    BY <1>1, <2>2
  <2>4. {fd[d] : d \in {e \in Conns : Registered(e)} \cup {c}}
          = {fd[d] : d \in {e \in Conns : Registered(e)}} \cup {fd[c]}
    OBVIOUS
  <2>5. /\ Elements(clients') = Elements(clients) \cup {fd[c]}
        /\ Distinct(clients) => Distinct(clients')
    BY <1>1, <1>2, <1>6, <2>1, AppendElements
  <2> QED
    BY <1>2, <2>3, <2>4, <2>5 DEF ChatInv, ClientsRight
<1> QED
  BY <1>4, <1>5, <1>7 DEF TablesRight

LEMMA TablesStep == ChatInv /\ [Next]_vars => TablesRight'
<1> SUFFICES ASSUME ChatInv, [Next]_vars PROVE TablesRight'
  OBVIOUS
<1>0. {"recv", "logout", "reply", "broadcast", "users", "login", "find", "index",
       "locked", "listing", "cleanup"} \subseteq Labels \ {"idle", "goodbye", "done"}
  BY DEF Labels
<1>1. ASSUME NEW c \in Conns, Handle(c) \/ Receive(c) PROVE TablesRight'
  <2>1. CASE Disconnected(c) \/ Finish(c)
    BY <1>0, <2>1, ServedTables DEF Disconnected, Finish
  <2>2. CASE handleLoginClient(c)
    BY <1>0, <2>2, ServedTables DEF handleLoginClient
  <2>3. CASE FindReceiver(c)
    BY <1>0, <2>3, ServedTables DEF FindReceiver
  <2>4. CASE IndexReceiver(c)
    BY <1>0, <2>4, ServedTables DEF IndexReceiver
  <2>5. CASE broadcastMessage(c)
    BY <1>0, <2>5, ServedTables DEF broadcastMessage
  <2>6. CASE LockUsers(c) \/ LockLogout(c) \/ ListUsers(c)
    BY <1>0, <2>6, ServedTables DEF LockUsers, LockLogout, ListUsers
  <2>7. CASE Invalid(c)
    BY <1>0, <2>7, ServedTables DEF Invalid
  <2>8. ASSUME NEW next \in {"broadcast", "users", "logout", "login", "find"},
               NEW u, Request(c, next, u)
        PROVE  TablesRight'
    BY <1>0, <2>8, ServedTables DEF Request
  <2>9. CASE Send(c) \/ SendInVain(c)
    BY <2>9, QuietTables DEF Send, SendInVain
  <2> QED
    BY <1>1, <2>1, <2>2, <2>3, <2>4, <2>5, <2>6, <2>7, <2>8, <2>9, CleanupTables,
       CloseTables DEF Handle, Receive
<1>2. CASE LockPush
  <2>1. /\ Main \notin Conns /\ Main \in Threads /\ Conns \subseteq Threads
        /\ pc \in [Threads -> Labels \cup {"accept", "push", "pushing"}]
    BY ChatAssumption DEF Threads, ChatInv, Typed, PlacesTyped
  <2>2. /\ pc[Main] = "push" /\ pc'[Main] = "pushing"
        /\ \A d \in Conns : pc'[d] = pc[d]
        /\ UNCHANGED <<sock, fd, clients, accepted>>
    BY <1>2, <2>1 DEF LockPush
  <2>3. AcceptedRight'
    BY <2>2 DEF ChatInv, AcceptedRight, Typed, RestTyped
  <2>4. SocketsRight'
    BY <2>2 DEF ChatInv, SocketsRight
  <2>5. {d \in Conns : Registered(d)}' = {d \in Conns : Registered(d)}
    BY <2>2 DEF Registered
  <2>6. ClientsRight'
    BY <2>2, <2>5 DEF ChatInv, ClientsRight
  <2> QED
    BY <2>3, <2>4, <2>6 DEF TablesRight
<1>3. CASE \/ shutdownServer
           \/ \E t \in Threads : Interrupt(t)
           \/ \E c \in Conns : BrokenPipe(c) \/ Client(c)
           \/ \E c, d \in Conns : Race(c, d)
           \/ UNCHANGED vars
  BY <1>3, QuietTables DEF shutdownServer, Interrupt, BrokenPipe, Race, Client,
                           Connect, receiveMessages, Leave
<1> QED
  BY <1>1, <1>2, <1>3, AcceptTables, PushTables DEF Next, main

-----------------------------------------------------------------------------
(* The map of names                                                        *)

\* A step that enters no descriptor in client_mapp and logs nobody out.
LEMMA MapStays ==
  ASSUME MapRight,
         \A c \in Conns : Registered(c) =>
           Registered(c)' /\ fd'[c] = fd[c] /\ names[c] \subseteq names'[c],
         \A u \in Users : client_mapp'[u] \in Fds => client_mapp'[u] = client_mapp[u]
  PROVE  MapRight'
<1> SUFFICES ASSUME NEW u \in Users, client_mapp'[u] \in Fds
             PROVE  \E c \in Conns : /\ fd'[c] = client_mapp'[u]
                                    /\ Registered(c)' /\ u \in names'[c]
  BY DEF MapRight
<1>1. PICK c \in Conns : fd[c] = client_mapp[u] /\ Registered(c) /\ u \in names[c]
  BY DEF MapRight
<1> QED
  BY <1>1

\* A thread that is served and stays so.
LEMMA ServedMap ==
  ASSUME ChatInv, NEW c \in Conns, NEW l \in Labels \ {"idle", "goodbye", "done"},
         Goto(c, l), UNCHANGED <<fd, names>>,
         \A u \in Users : client_mapp'[u] \in Fds => client_mapp'[u] = client_mapp[u]
  PROVE  MapRight'
<1>1. pc'[c] = l /\ \A d \in Conns : d # c => pc'[d] = pc[d]
  BY GotoType, ChatAssumption DEF ChatInv, Threads
<1>2. \A d \in Conns : Registered(d) => Registered(d)'
  BY <1>1 DEF Registered
<1> QED
  BY <1>2, MapStays DEF ChatInv

LEMMA MapStep == ChatInv /\ [Next]_vars => MapRight'
<1> SUFFICES ASSUME ChatInv, [Next]_vars PROVE MapRight'
  OBVIOUS
<1>0. /\ {"recv", "logout", "reply", "broadcast", "users", "login", "find", "index",
          "locked", "listing", "cleanup"} \subseteq Labels \ {"idle", "goodbye", "done"}
      /\ {"goodbye", "done"} \subseteq Labels
  BY DEF Labels
<1>1. ASSUME NEW c \in Conns, Handle(c) \/ Receive(c) PROVE MapRight'
  <2>1. CASE Disconnected(c) \/ Finish(c)
    BY <1>0, <2>1, ServedMap DEF Disconnected, Finish
  <2>2. CASE handleLoginClient(c)
    <3>1. /\ pc'[c] = "reply" /\ \A d \in Conns : d # c => pc'[d] = pc[d]
          /\ pc[c] = "login" /\ user[c] \in Users /\ UNCHANGED fd
      BY <1>0, <2>2, GotoType DEF handleLoginClient, ChatInv, Typed, PlacesTyped, Threads
    <3>2. /\ client_mapp'[user[c]] = fd[c] /\ user[c] \in names'[c]
          /\ \A u \in Users : u # user[c] => client_mapp'[u] = client_mapp[u]
          /\ \A d \in Conns : names[d] \subseteq names'[d]
      BY <2>2, <3>1 DEF handleLoginClient, ChatInv, Typed, RestTyped
    <3>3. \A d \in Conns : Registered(d)' <=> Registered(d)
      BY <3>1 DEF Registered
    <3>4. Registered(c)
      BY <3>1 DEF Registered
    <3> QED
      BY <3>1, <3>2, <3>3, <3>4 DEF ChatInv, MapRight
  <2>3. CASE FindReceiver(c)
    BY <1>0, <2>3, ServedMap DEF FindReceiver
  <2>4. CASE IndexReceiver(c)
    <3>1. /\ user[c] \in Users /\ Goto(c, "reply") /\ UNCHANGED <<fd, names>>
          /\ \/ client_mapp[user[c]] = Absent
                /\ client_mapp' = [client_mapp EXCEPT ![user[c]] = stdin]
             \/ client_mapp' = [client_mapp EXCEPT ![user[c]] = client_mapp[user[c]]]
      BY <2>4 DEF IndexReceiver, ChatInv, Typed, PlacesTyped
    <3>2. stdin \notin Fds /\ client_mapp \in [Users -> Fds \cup {stdin, Absent}]
      BY ChatAssumption DEF ChatInv, Typed, RestTyped
    <3>3. \A u \in Users : client_mapp'[u] \in Fds => client_mapp'[u] = client_mapp[u]
      BY <3>1, <3>2
    <3> QED
      BY <1>0, <3>1, <3>3, ServedMap
  <2>5. CASE broadcastMessage(c)
    BY <1>0, <2>5, ServedMap DEF broadcastMessage
  <2>6. CASE LockUsers(c) \/ LockLogout(c) \/ ListUsers(c)
    BY <1>0, <2>6, ServedMap DEF LockUsers, LockLogout, ListUsers
  <2>7. CASE Invalid(c)
    BY <1>0, <2>7, ServedMap DEF Invalid
  <2>8. ASSUME NEW next \in {"broadcast", "users", "logout", "login", "find"},
               NEW u, Request(c, next, u)
        PROVE  MapRight'
    BY <1>0, <2>8, ServedMap DEF Request
  <2>9. CASE Cleanup(c)
    <3>1. /\ pc'[c] = "goodbye" /\ \A d \in Conns : d # c => pc'[d] = pc[d]
          /\ UNCHANGED <<fd, names>>
          /\ client_mapp' = [u \in Users |-> IF client_mapp[u] = fd[c] THEN Absent
                                             ELSE client_mapp[u]]
      BY <1>0, <2>9, GotoType DEF Cleanup, ChatInv, Threads
    <3>2. Absent \notin Fds
      BY ChatAssumption
    <3>3. ASSUME NEW u \in Users, client_mapp'[u] \in Fds
          PROVE  \E d \in Conns : /\ fd'[d] = client_mapp'[u]
                                 /\ Registered(d)' /\ u \in names'[d]
      <4>1. client_mapp'[u] = client_mapp[u] /\ client_mapp[u] # fd[c]
        BY <3>1, <3>2, <3>3
      <4>2. PICK d \in Conns : fd[d] = client_mapp[u] /\ Registered(d) /\ u \in names[d]
        BY <3>3, <4>1 DEF ChatInv, MapRight
      <4>3. Registered(d)'
        BY <3>1, <4>1, <4>2 DEF Registered
      <4> QED
        BY <3>1, <4>1, <4>2, <4>3
    <3> QED
      BY <3>3 DEF MapRight
  <2>10. CASE Close(c)
    <3>1. /\ pc[c] = "goodbye" /\ \A d \in Conns : d # c => pc'[d] = pc[d]
          /\ UNCHANGED <<fd, names, client_mapp>>
      BY <1>0, <2>10, GotoType DEF Close, ChatInv, Threads
    <3>2. \A d \in Conns : Registered(d) => Registered(d)'
      BY <3>1 DEF Registered
    <3> QED
      BY <3>1, <3>2, MapStays DEF ChatInv
  <2>11. CASE Send(c) \/ SendInVain(c)
    BY <2>11, MapStays DEF Send, SendInVain, Registered, ChatInv
  <2> QED
    BY <1>1, <2>1, <2>2, <2>3, <2>4, <2>5, <2>6, <2>7, <2>8, <2>9, <2>10, <2>11
       DEF Handle, Receive
<1>2. CASE main
  <2>1. Main \notin Conns /\ pc \in [Threads -> Labels \cup {"accept", "push", "pushing"}]
    BY ChatAssumption DEF ChatInv, Typed, PlacesTyped
  <2>2. /\ UNCHANGED <<client_mapp, names>>
        /\ \A d \in Conns : pc'[d] = pc[d] \/ (pc[d] = "idle" /\ pc'[d] = "recv")
        /\ \A d \in Conns : fd'[d] = fd[d] \/ pc[d] = "idle"
    <3>1. ASSUME NEW c \in Conns, Accept(c)
          PROVE  /\ \A d \in Conns : pc'[d] = pc[d]
                 /\ \A d \in Conns : fd'[d] = fd[d] \/ pc[d] = "idle"
      BY <2>1, <3>1 DEF Accept, ChatInv, Typed, RestTyped, Threads
    <3>2. CASE LockPush
      BY <2>1, <3>2 DEF LockPush, Threads
    <3>3. CASE Push
      <4>1. accepted \in Conns /\ pc[accepted] = "idle"
        BY <3>3 DEF Push, ChatInv, AcceptedRight, Typed, RestTyped
      <4> QED
        BY <2>1, <3>3, <4>1 DEF Push, Threads
    <3> QED
      BY <1>2, <3>1, <3>2, <3>3 DEF main, Accept, LockPush, Push
  <2>3. \A d \in Conns : Registered(d) => Registered(d)' /\ fd'[d] = fd[d]
    BY <2>2 DEF Registered
  <2> QED
    BY <2>2, <2>3, MapStays DEF ChatInv
<1>3. CASE \/ shutdownServer
           \/ \E t \in Threads : Interrupt(t)
           \/ \E c \in Conns : BrokenPipe(c) \/ Client(c)
           \/ \E c, d \in Conns : Race(c, d)
           \/ UNCHANGED vars
  <2>1. UNCHANGED <<pc, fd, names, client_mapp>>
    BY <1>3 DEF shutdownServer, Interrupt, BrokenPipe, Race, Client, Connect,
                receiveMessages, Leave
  <2> QED
    BY <2>1, MapStays DEF Registered, ChatInv
<1> QED
  BY <1>1, <1>2, <1>3 DEF Next

-----------------------------------------------------------------------------
(* What is still to send                                                   *)

\* A step that puts no thread into the states the property speaks of.
LEMMA SendsStay ==
  ASSUME SendsRight,
         \A c \in Conns : pc'[c] \in {"locked", "goodbye"} =>
           /\ pc[c] = pc'[c] /\ fd'[c] = fd[c]
           /\ \A i \in 1 .. Len(todo'[c]) : \E j \in 1 .. Len(todo[c]) :
                todo'[c][i] = todo[c][j],
         \A c \in Conns : pc[c] = "locked" => UNCHANGED clients,
         \A n \in Elements(clients) : sock'[n] = sock[n]
  PROVE  SendsRight'
<1> SUFFICES ASSUME NEW c \in Conns, NEW i \in 1 .. Len(todo'[c])
             PROVE  /\ pc'[c] = "locked" =>
                         /\ todo'[c][i].fd \in Elements(clients')
                         /\ todo'[c][i].for = sock'[todo'[c][i].fd]
                    /\ pc'[c] = "goodbye" =>
                         todo'[c][i].fd = fd'[c] /\ todo'[c][i].for = c
  BY DEF SendsRight
<1>1. CASE pc'[c] = "locked"
  <2>1. PICK j \in 1 .. Len(todo[c]) : todo'[c][i] = todo[c][j]
    BY <1>1
  <2>2. /\ todo[c][j].fd \in Elements(clients)
        /\ todo[c][j].for = sock[todo[c][j].fd]
    BY <1>1 DEF SendsRight
  <2> QED
    BY <1>1, <2>1, <2>2
<1>2. CASE pc'[c] = "goodbye"
  <2>1. PICK j \in 1 .. Len(todo[c]) : todo'[c][i] = todo[c][j]
    BY <1>2
  <2>2. todo[c][j].fd = fd[c] /\ todo[c][j].for = c
    BY <1>2 DEF SendsRight
  <2> QED
    BY <1>2, <2>1, <2>2
<1> QED
  BY <1>1, <1>2

\* A thread moves on to other labels than those.
LEMMA OtherSends ==
  ASSUME ChatInv, NEW c \in Conns, NEW l \in Labels \ {"locked", "goodbye"},
         Goto(c, l), \A d \in Conns : d # c => todo'[d] = todo[d],
         UNCHANGED <<fd, clients>>, \A n \in Elements(clients) : sock'[n] = sock[n]
  PROVE  SendsRight'
<1>1. pc'[c] = l /\ \A d \in Conns : d # c => pc'[d] = pc[d]
  BY GotoType, ChatAssumption DEF ChatInv, Threads
<1> QED
  BY <1>1, SendsStay DEF ChatInv

\* A thread makes a message under the mutex.
LEMMA SaySends ==
  ASSUME ChatInv, NEW c \in Conns, NEW l \in {"locked", "goodbye"}, NEW to \in Seq(Fds),
         Say(c, to, l), UNCHANGED <<sock, fd>>,
         l = "locked" => UNCHANGED clients /\ Elements(to) \subseteq Elements(clients),
         l = "goodbye" => /\ Elements(to) = {fd[c]} /\ sock[fd[c]] = c
                          /\ \A d \in Conns : d # c => pc[d] # "locked"
  PROVE  SendsRight'
<1>1. to \in Seq(Fds \cup {stdin}) /\ l \in Labels
  BY DEF Labels
<1>2. /\ pc'[c] = l /\ \A d \in Conns : d # c => pc'[d] = pc[d]
      /\ todo'[c] = Messages(to) /\ \A d \in Conns : d # c => todo'[d] = todo[d]
  BY <1>1, GotoType, SayType, ChatAssumption DEF ChatInv, Threads
<1>3. Elements(to) \subseteq Fds
  BY DEF Elements
<1>4. \A i \in 1 .. Len(todo'[c]) : /\ todo'[c][i].fd \in Elements(to)
                                   /\ todo'[c][i].for = sock[todo'[c][i].fd]
  BY <1>1, <1>2, <1>3, MessagesRight DEF ChatInv, Owner
<1>5. ASSUME NEW d \in Conns, d # c, NEW i \in 1 .. Len(todo[d])
      PROVE  /\ pc[d] = "locked" =>
                  /\ todo[d][i].fd \in Elements(clients')
                  /\ todo[d][i].for = sock[todo[d][i].fd]
             /\ pc[d] = "goodbye" => todo[d][i].fd = fd[d] /\ todo[d][i].for = d
  BY <1>5 DEF ChatInv, SendsRight
<1> QED
  BY <1>2, <1>4, <1>5 DEF SendsRight

LEMMA SendsStep == ChatInv /\ [Next]_vars => SendsRight'
<1> SUFFICES ASSUME ChatInv, [Next]_vars PROVE SendsRight'
  OBVIOUS
<1>0. {"recv", "logout", "reply", "broadcast", "users", "login", "find", "index",
       "listing", "cleanup", "done"} \subseteq Labels \ {"locked", "goodbye"}
  BY DEF Labels
<1>1. ASSUME NEW c \in Conns, Handle(c) \/ Receive(c) PROVE SendsRight'
  <2>0. /\ pc[c] \notin {"idle", "done"} => fd[c] \in Fds /\ sock[fd[c]] = c
        /\ todo \in [Conns -> Seq(Part)]
    BY DEF ChatInv, SocketsRight, Typed, SendsTyped
  <2>1. CASE Disconnected(c) \/ Finish(c)
    BY <1>0, <2>1, OtherSends DEF Disconnected, Finish
  <2>2. CASE handleLoginClient(c)
    BY <1>0, <2>0, <2>2, OtherSends DEF handleLoginClient
  <2>3. CASE FindReceiver(c)
    BY <1>0, <2>0, <2>3, OtherSends DEF FindReceiver
  <2>4. CASE IndexReceiver(c)
    BY <1>0, <2>0, <2>4, OtherSends DEF IndexReceiver
  <2>5. CASE broadcastMessage(c)
    <3>1. fd[c] \in Fds /\ fd[c] \in Elements(clients)
      BY <2>0, <2>5 DEF broadcastMessage, ChatInv, ClientsRight, Registered
    <3>2. /\ Others(c) \in Seq(Fds)
          /\ Elements(Others(c)) \subseteq Elements(clients)
      BY OthersType DEF ChatInv
    <3>3. /\ Others(c) \o <<fd[c]>> \in Seq(Fds)
          /\ Elements(Others(c) \o <<fd[c]>>) \subseteq Elements(clients)
      BY <3>1, <3>2, AddedElements
    <3> QED
      BY <2>5, <3>3, SaySends DEF broadcastMessage
  <2>6. CASE LockUsers(c) \/ LockLogout(c)
    BY <1>0, <2>6, OtherSends DEF LockUsers, LockLogout
  <2>7. CASE ListUsers(c)
    <3>1. fd[c] \in Fds /\ fd[c] \in Elements(clients)
      BY <2>0, <2>7 DEF ListUsers, ChatInv, ClientsRight, Registered
    <3>2. <<fd[c]>> \in Seq(Fds) /\ Elements(<<fd[c]>>) = {fd[c]}
      BY <3>1, SingleElement
    <3> QED
      BY <2>7, <3>1, <3>2, SaySends DEF ListUsers
  <2>8. CASE Cleanup(c)
    <3>1. fd[c] \in Fds /\ sock[fd[c]] = c
      BY <2>0, <2>8 DEF Cleanup
    <3>2. <<fd[c]>> \in Seq(Fds) /\ Elements(<<fd[c]>>) = {fd[c]}
      BY <3>1, SingleElement
    <3>3. \A d \in Conns : d # c => pc[d] # "locked"
      BY <2>8 DEF Cleanup, ChatInv, MutexRight
    <3> QED
      BY <2>8, <3>1, <3>2, <3>3, SaySends DEF Cleanup
  <2>9. CASE Close(c)
    <3>1. /\ pc[c] = "goodbye" /\ Goto(c, "done") /\ UNCHANGED <<fd, clients, todo>>
          /\ sock' = [sock EXCEPT ![fd[c]] = NoConn]
      BY <2>9 DEF Close
    <3>2. fd[c] \notin Elements(clients)
      <4>1. \A d \in Conns : Registered(d) => d # c /\ fd[d] # fd[c]
        BY <2>0, <3>1, OwnDescriptor DEF Registered
      <4> QED
        BY <4>1 DEF ChatInv, ClientsRight
    <3>3. \A n \in Elements(clients) : n \in Fds
      BY DEF ChatInv, Typed, RestTyped, Elements
    <3>4. \A n \in Elements(clients) : sock'[n] = sock[n]
      BY <3>1, <3>2, <3>3 DEF ChatInv, Typed, RestTyped
    <3> QED
      BY <1>0, <3>1, <3>4, OtherSends
  <2>10. CASE Invalid(c)
    BY <1>0, <2>0, <2>10, OtherSends DEF Invalid
  <2>11. ASSUME NEW next \in {"broadcast", "users", "logout", "login", "find"},
                NEW u, Request(c, next, u)
         PROVE  SendsRight'
    BY <1>0, <2>11, OtherSends DEF Request
  <2>12. CASE Send(c) \/ SendInVain(c)
    <3>1. /\ todo[c] # <<>> /\ todo' = [todo EXCEPT ![c] = Tail(@)]
          /\ UNCHANGED <<sock, fd, clients, pc>>
      BY <2>12 DEF Send, SendInVain
    <3>2. \A i \in 1 .. Len(Tail(todo[c])) :
            i + 1 \in 1 .. Len(todo[c]) /\ Tail(todo[c])[i] = todo[c][i + 1]
      BY <2>0, <3>1
    <3>3. \A d \in Conns : \A i \in 1 .. Len(todo'[d]) :
            \E j \in 1 .. Len(todo[d]) : todo'[d][i] = todo[d][j]
      BY <2>0, <3>1, <3>2
    <3> QED
      BY <3>1, <3>3, SendsStay DEF ChatInv
  <2> QED
    BY <1>1, <2>1, <2>2, <2>3, <2>4, <2>5, <2>6, <2>7, <2>8, <2>9, <2>10, <2>11,
       <2>12 DEF Handle, Receive
<1>2. CASE main
  <2>0. /\ Main \notin Conns /\ NoConn \notin Conns /\ Conns \subseteq Threads
        /\ pc \in [Threads -> Labels \cup {"accept", "push", "pushing"}]
        /\ sock \in [Fds -> Conns \cup {NoConn}]
    BY ChatAssumption DEF ChatInv, Typed, RestTyped, PlacesTyped, Threads
  <2>1. ASSUME NEW c \in Conns, Accept(c) PROVE SendsRight'
    <3>1. \A d \in Conns : pc'[d] = pc[d] /\ (fd'[d] = fd[d] \/ pc[d] = "idle")
      BY <2>0, <2>1 DEF Accept, ChatInv, Typed, RestTyped
    <3>2. \A n \in Elements(clients) : n \in Fds /\ sock[n] # NoConn
      BY <2>0 DEF ChatInv, ClientsRight, SocketsRight, Registered
    <3>3. \A n \in Elements(clients) : sock'[n] = sock[n]
      BY <2>0, <2>1, <3>2 DEF Accept
    <3>4. UNCHANGED <<todo, clients>>
      BY <2>1 DEF Accept
    <3> QED
      BY <3>1, <3>3, <3>4, SendsStay DEF ChatInv
  <2>2. CASE LockPush
    <3>1. \A d \in Conns : pc'[d] = pc[d]
      BY <2>0, <2>2 DEF LockPush
    <3> QED
      BY <2>2, <3>1, SendsStay DEF LockPush, ChatInv
  <2>3. CASE Push
    <3>1. \A d \in Conns : pc'[d] = pc[d] \/ pc'[d] = "recv"
      BY <2>0, <2>3 DEF Push, ChatInv, AcceptedRight, Typed, RestTyped
    <3>2. \A d \in Conns : pc[d] # "locked"
      BY <2>0, <2>3 DEF Push, ChatInv, MutexRight
    <3> QED
      BY <2>3, <3>1, <3>2, SendsStay DEF Push, ChatInv
  <2> QED
    BY <1>2, <2>1, <2>2, <2>3 DEF main
<1>3. CASE \/ shutdownServer
           \/ \E t \in Threads : Interrupt(t)
           \/ \E c \in Conns : BrokenPipe(c) \/ Client(c)
           \/ \E c, d \in Conns : Race(c, d)
           \/ UNCHANGED vars
  <2>1. UNCHANGED <<pc, fd, sock, clients, todo>>
    BY <1>3 DEF shutdownServer, Interrupt, BrokenPipe, Race, Client, Connect,
                receiveMessages, Leave
  <2> QED
    BY <2>1, SendsStay DEF ChatInv
<1> QED
  BY <1>1, <1>2, <1>3 DEF Next

-----------------------------------------------------------------------------
(* The theorems                                                            *)

LEMMA ChatInitially == Init => ChatInv
<1> SUFFICES ASSUME Init PROVE ChatInv
  OBVIOUS
<1> USE DEF Init
<1>0. /\ Main \notin Conns /\ NoConn \notin Conns /\ Free \notin Conns \cup {Main}
      /\ Absent \notin Fds /\ Main \in Threads /\ Conns \subseteq Threads
      /\ Buffer \in Nat /\ MaxRequests \in Nat
  BY ChatAssumption DEF Threads
<1>1. RestTyped
  BY <1>0 DEF RestTyped
<1>2. PlacesTyped /\ SendsTyped
  BY <1>0 DEF PlacesTyped, SendsTyped, Labels
<1>3. \A c \in Conns : pc[c] = "idle" /\ ~ Registered(c)
  BY <1>0 DEF Registered
<1>4. pc[Main] = "accept"
  BY <1>0
<1>5. MutexRight /\ AcceptedRight /\ SocketsRight
  BY <1>0, <1>3, <1>4 DEF MutexRight, AcceptedRight, SocketsRight
<1>6. ClientsRight
  <2>1. Elements(clients) = {} /\ Distinct(clients)
    BY DEF Elements, Distinct
  <2> QED
    BY <1>3, <2>1 DEF ClientsRight
<1>7. MapRight /\ SendsRight
  BY <1>0 DEF MapRight, SendsRight
<1> QED
  BY <1>1, <1>2, <1>5, <1>6, <1>7 DEF ChatInv, Typed

LEMMA ChatInductive == ChatInv /\ [Next]_vars => ChatInv'
BY TypedStep, MutexStep, TablesStep, MapStep, SendsStep DEF ChatInv, TablesRight

\* Every variable has its type: in particular no send buffer overflows, no
\* descriptor that accept() did not return gets into a table, and the mutex has
\* at most one owner (server.cpp:24-30).
THEOREM ChatTypesHold == Spec => []TypeOK
<1>1. ChatInv => TypeOK
  BY TypedImpliesTypeOK DEF ChatInv
<1> QED
  BY <1>1, ChatInitially, ChatInductive, PTL DEF Spec

LEMMA TablesMatch == ChatInv => TablesMatchSockets
<1> SUFFICES ASSUME ChatInv PROVE TablesMatchSockets
  OBVIOUS
<1>1. \A c \in Conns : Registered(c) => sock[fd[c]] = c
  BY DEF ChatInv, SocketsRight, Registered
<1> QED
  BY <1>1 DEF ChatInv, ClientsRight, MapRight, TablesMatchSockets, Elements, Distinct

\* However descriptors are closed and handed out again, `clients' holds those
\* of the connections that are handled, and a descriptor in client_mapp is open
\* for a connection that logged in under that name (server.cpp:57-82, 227-231).
THEOREM TablesMatchSocketsHolds == Spec => []TablesMatchSockets
BY TablesMatch, ChatInitially, ChatInductive, PTL DEF Spec

LEMMA SendsReach == ChatInv => LockedSendsReach
<1> SUFFICES ASSUME ChatInv PROVE LockedSendsReach
  OBVIOUS
<1>1. ASSUME NEW c \in Conns, pc[c] \in {"locked", "goodbye"} PROVE Reaches(c)
  <2> SUFFICES ASSUME NEW i \in 1 .. Len(todo[c])
               PROVE  /\ todo[c][i].for # NoConn
                      /\ Owner(todo[c][i].fd) = todo[c][i].for
    BY DEF Reaches
  <2>1. NoConn \notin Conns
    BY ChatAssumption
  <2>2. CASE pc[c] = "locked"
    <3>1. /\ todo[c][i].fd \in Elements(clients)
          /\ todo[c][i].for = sock[todo[c][i].fd]
      BY <2>2 DEF ChatInv, SendsRight
    <3>2. PICK d \in Conns : Registered(d) /\ fd[d] = todo[c][i].fd
      BY <3>1 DEF ChatInv, ClientsRight
    <3>3. fd[d] \in Fds /\ sock[fd[d]] = d
      BY <3>2 DEF ChatInv, SocketsRight, Registered
    <3> QED
      BY <2>1, <3>1, <3>2, <3>3 DEF Owner
  <2>3. CASE pc[c] = "goodbye"
    <3>1. todo[c][i].fd = fd[c] /\ todo[c][i].for = c
      BY <2>3 DEF ChatInv, SendsRight
    <3>2. fd[c] \in Fds /\ sock[fd[c]] = c
      BY <2>3 DEF ChatInv, SocketsRight
    <3> QED
      BY <2>1, <3>1, <3>2 DEF Owner
  <2> QED
    BY <1>1, <2>2, <2>3
<1>2. ASSUME NEW c \in Conns
      PROVE  Cardinality({d \in halfway[c] : pc[d] = "locked"}) <= 1
  <2>1. halfway[c] \subseteq Conns
    BY DEF ChatInv, Typed, RestTyped
  <2>2. {d \in halfway[c] : pc[d] = "locked"} \subseteq {client_mutex}
    BY <2>1 DEF ChatInv, MutexRight
  <2>3. IsFiniteSet({client_mutex}) /\ Cardinality({client_mutex}) = 1
    BY FS_Singleton
  <2> HIDE DEF ChatInv
  <2>4. /\ Cardinality({d \in halfway[c] : pc[d] = "locked"}) <= Cardinality({client_mutex})
    BY <2>2, <2>3, FS_Subset
  <2> QED
    BY <2>3, <2>4
<1> QED
  BY <1>1, <1>2 DEF LockedSendsReach

\* A broadcast, a list of users and a goodbye go to the connections they were
\* made for, and no two of the first two are mixed at any client, whatever is
\* closed, opened and sent meanwhile (server.cpp:44-55, 63-93).
THEOREM LockedSendsReachHolds == Spec => []LockedSendsReach
BY SendsReach, ChatInitially, ChatInductive, PTL DEF Spec
=============================================================================
