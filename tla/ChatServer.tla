------------------------------ MODULE ChatServer ------------------------------
(***************************************************************************)
(* The multi-client chat server of                                         *)
(* cpp/socket_programming/multi_client_server/server.cpp: a main thread    *)
(* that accepts, one detached thread per connection, a mutex that guards   *)
(* some of the accesses to the tables, and a SIGINT handler.               *)
(*                                                                         *)
(* Data.  A connection is also the name of its thread.  A request is any   *)
(* of those the server tells apart, at any time: that includes what it     *)
(* makes of a stream it has lost the frames of.  A message is the two      *)
(* parts sendMessageToClient sends; the parts in a socket's send buffer    *)
(* are counted.                                                            *)
(***************************************************************************)
EXTENDS Naturals, Sequences, FiniteSets, Subsequences

CONSTANTS
  Conns,         \* connections that clients make
  Users,         \* names they log in under
  Main,          \* the thread that runs main()
  Free,          \* client_mutex is not locked; no thread is interrupted
  NoConn,        \* a descriptor that is not open
  Absent,        \* client_mapp has no entry
  Fds,           \* descriptors accept() may return
  Buffer,        \* parts a send buffer holds
  MaxRequests    \* bound: requests in all

Threads == Conns \cup {Main}
stdin == 0

ASSUME ChatAssumption ==
  /\ Main \notin Conns /\ Free \notin Threads /\ NoConn \notin Conns
  /\ Fds \subseteq Nat \ {stdin} /\ Absent \notin Fds \cup {stdin}
  /\ Buffer \in Nat \ {0} /\ MaxRequests \in Nat

VARIABLES
  running,       \* the process has not ended
  sock,          \* per descriptor, the connection it is open for
  fd,            \* per connection, client_socket
  clients,       \* the vector of that name
  client_mapp,   \* the map of that name
  client_mutex,  \* who holds it
  pc,            \* where each thread is
  user,          \* per thread, the name in its request
  todo,          \* per thread, the sends of the message it is sending
  accepted,      \* main(): the connection accept() returned
  interrupted,   \* the thread on which shutdownServer runs
  peer,          \* per connection, its client: "away", "connected" or "gone"
  unread,        \* per connection, parts sent to it and not read
  requests,      \* requests read so far
  names,         \* history: per connection, the names it logged in under
  halfway        \* history: per connection, who has sent it a length and no body

sockets == <<sock, fd>>
tables == <<clients, client_mapp>>
threads == <<pc, user, todo, accepted>>
net == <<peer, unread>>
history == <<names, halfway>>
vars == <<running, sockets, tables, client_mutex, threads, interrupted, net,
          requests, history>>

Runs(t) == running /\ interrupted # t

Goto(t, label) == pc' = [pc EXCEPT ![t] = label]

Lock(t) == client_mutex = Free /\ client_mutex' = t

-----------------------------------------------------------------------------
(* sendMessageToClient                                                     *)

\* Whose socket descriptor n is now; a send to none fails and nobody looks.
Owner(n) == IF n \in Fds THEN sock[n] ELSE NoConn

\* The sends of one message to each of a sequence of descriptors: a length and
\* a body.  `for' is history: whose socket it was when the message was made.
Messages(to) ==
  [i \in 1 .. 2 * Len(to) |->
     LET n == to[(i + 1) \div 2]
     IN  [fd |-> n, for |-> Owner(n),
          part |-> IF i % 2 = 1 THEN "length" ELSE "body"]]

\* Thread c goes on to send to the descriptors `to' and then as `next' says.
Say(c, to, next) == todo' = [todo EXCEPT ![c] = Messages(to)] /\ Goto(c, next)

SendOverfull(c) ==   \* mutant: send() does not wait for room in the buffer
  LET s == Head(todo[c])
      d == Owner(s.fd)
  IN
  /\ Runs(c) /\ todo[c] # <<>> /\ d # NoConn
  /\ peer[d] = "connected"
  /\ unread' = [unread EXCEPT ![d] = @ + 1]
  /\ halfway' = [halfway EXCEPT ![d] = IF s.part = "length" THEN @ \cup {c}
                                       ELSE @ \ {c}]
  /\ todo' = [todo EXCEPT ![c] = Tail(@)]
  /\ UNCHANGED <<running, sockets, tables, client_mutex, pc, user, accepted,
                 interrupted, peer, requests, names>>

\* send() to a client that is there; it waits while the buffer is full.
Send(c) ==
  LET s == Head(todo[c])
      d == Owner(s.fd)
  IN
  /\ Runs(c) /\ todo[c] # <<>> /\ d # NoConn
  /\ peer[d] = "connected" /\ unread[d] < Buffer
  /\ unread' = [unread EXCEPT ![d] = @ + 1]
  /\ halfway' = [halfway EXCEPT ![d] = IF s.part = "length" THEN @ \cup {c}
                                       ELSE @ \ {c}]
  /\ todo' = [todo EXCEPT ![c] = Tail(@)]
  /\ UNCHANGED <<running, sockets, tables, client_mutex, pc, user, accepted,
                 interrupted, peer, requests, names>>

\* send() to a descriptor that is no open socket, or whose client has left.
SendInVain(c) ==
  LET d == Owner(Head(todo[c]).fd) IN
  /\ Runs(c) /\ todo[c] # <<>>
  /\ d # NoConn => peer[d] = "gone"
  /\ todo' = [todo EXCEPT ![c] = Tail(@)]
  /\ UNCHANGED <<running, sockets, tables, client_mutex, pc, user, accepted,
                 interrupted, net, requests, history>>

\* A send to a connection that its client has reset raises SIGPIPE.
BrokenPipe(c) ==
  LET d == Owner(Head(todo[c]).fd) IN
  /\ Runs(c) /\ todo[c] # <<>>
  /\ d # NoConn /\ peer[d] = "gone"
  /\ running' = FALSE
  /\ UNCHANGED <<sockets, tables, client_mutex, threads, interrupted, net,
                 requests, history>>

FinishLocked(c) ==   \* mutant: the mutex is not released
  /\ Runs(c) /\ todo[c] = <<>>
  /\ pc[c] \in {"reply", "locked"} /\ Goto(c, "recv")
  /\ UNCHANGED <<running, sockets, tables, client_mutex, user, todo, accepted,
                 interrupted, net, requests, history>>

\* The message is sent: the handler returns, its lock_guard unlocks, and
\* handleClient receives again.
Finish(c) ==
  /\ Runs(c) /\ todo[c] = <<>>
  /\ pc[c] \in {"reply", "locked"} /\ Goto(c, "recv")
  /\ client_mutex' = IF pc[c] = "locked" THEN Free ELSE client_mutex
  /\ user' = [user EXCEPT ![c] = Absent]
  /\ UNCHANGED <<running, sockets, tables, todo, accepted, interrupted, net,
                 requests, history>>

-----------------------------------------------------------------------------
(* handleClient                                                            *)

\* recv() returns a request: its handler is entered.
Request(c, next, u) ==
  /\ Runs(c) /\ pc[c] = "recv" /\ requests < MaxRequests
  /\ requests' = requests + 1
  /\ user' = [user EXCEPT ![c] = u]
  /\ Goto(c, next)
  /\ UNCHANGED <<running, sockets, tables, client_mutex, todo, accepted,
                 interrupted, net, history>>

\* recv() returns a message that is no request, or a direct message with no
\* receiver.
Invalid(c) ==
  /\ Runs(c) /\ pc[c] = "recv" /\ requests < MaxRequests
  /\ requests' = requests + 1
  /\ Say(c, <<fd[c]>>, "reply")
  /\ UNCHANGED <<running, sockets, tables, client_mutex, user, accepted,
                 interrupted, net, history>>

DisconnectedCloses(c) ==   \* mutant: the socket is closed before the logout
  /\ Runs(c) /\ pc[c] = "recv" /\ peer[c] = "gone"
  /\ sock' = [sock EXCEPT ![fd[c]] = NoConn]
  /\ Goto(c, "logout")
  /\ UNCHANGED <<running, fd, tables, client_mutex, user, todo, accepted,
                 interrupted, net, requests, history>>

\* recv() returns 0 or an error.
Disconnected(c) ==
  /\ Runs(c) /\ pc[c] = "recv" /\ peer[c] = "gone"
  /\ Goto(c, "logout")
  /\ UNCHANGED <<running, sockets, tables, client_mutex, user, todo, accepted,
                 interrupted, net, requests, history>>

\* handleLoginClient, without the mutex.
handleLoginClient(c) ==
  /\ Runs(c) /\ pc[c] = "login"
  /\ client_mapp' = [client_mapp EXCEPT ![user[c]] = fd[c]]
  /\ names' = [names EXCEPT ![c] = @ \cup {user[c]}]
  /\ Say(c, <<fd[c]>>, "reply")
  /\ UNCHANGED <<running, sockets, clients, client_mutex, user, accepted,
                 interrupted, net, requests, halfway>>

\* handleDirectMessage looks for the receiver, without the mutex...
FindReceiver(c) ==
  /\ Runs(c) /\ pc[c] = "find"
  /\ IF client_mapp[user[c]] = Absent
     THEN Say(c, <<fd[c]>>, "reply")
     ELSE Goto(c, "index") /\ UNCHANGED todo
  /\ UNCHANGED <<running, sockets, tables, client_mutex, user, accepted,
                 interrupted, net, requests, history>>

\* ... and takes its descriptor with operator[], which makes an entry with
\* descriptor 0 if there is none (any more).
IndexReceiver(c) ==
  LET n == IF client_mapp[user[c]] = Absent THEN stdin ELSE client_mapp[user[c]]
  IN
  /\ Runs(c) /\ pc[c] = "index"
  /\ client_mapp' = [client_mapp EXCEPT ![user[c]] = n]
  /\ Say(c, <<n, fd[c]>>, "reply")
  /\ UNCHANGED <<running, sockets, clients, client_mutex, user, accepted,
                 interrupted, net, requests, history>>

\* The descriptors in `clients' that are not c's.
Others(c) == Keep(clients, Fds \ {fd[c]})

\* broadcastMessage: the mutex is held until the last send, so the vector that
\* the loop goes over does not change.
broadcastMessage(c) ==
  /\ Runs(c) /\ pc[c] = "broadcast"
  /\ Lock(c)
  /\ Say(c, Others(c) \o <<fd[c]>>, "locked")
  /\ UNCHANGED <<running, sockets, tables, user, accepted, interrupted, net,
                 requests, history>>

\* handleOnlineUsers: the mutex, the names, the message.
LockUsers(c) ==
  /\ Runs(c) /\ pc[c] = "users"
  /\ Lock(c)
  /\ Goto(c, "listing")
  /\ UNCHANGED <<running, sockets, tables, user, todo, accepted, interrupted,
                 net, requests, history>>

ListUsers(c) ==
  /\ Runs(c) /\ pc[c] = "listing"
  /\ Say(c, <<fd[c]>>, "locked")
  /\ UNCHANGED <<running, sockets, tables, client_mutex, user, accepted,
                 interrupted, net, requests, history>>

-----------------------------------------------------------------------------
(* handleLogoutClient                                                      *)

LockLogout(c) ==
  /\ Runs(c) /\ pc[c] = "logout"
  /\ Lock(c)
  /\ Goto(c, "cleanup")
  /\ UNCHANGED <<running, sockets, tables, user, todo, accepted, interrupted,
                 net, requests, history>>

CleanupFirstName(c) ==   \* mutant: the loop stops at the first entry
  /\ Runs(c) /\ pc[c] = "cleanup"
  /\ client_mapp' = IF \E u \in Users : client_mapp[u] = fd[c]
                    THEN [client_mapp EXCEPT
                            ![CHOOSE u \in Users : client_mapp[u] = fd[c]] = Absent]
                    ELSE client_mapp
  /\ clients' = Others(c)
  /\ client_mutex' = Free
  /\ Say(c, <<fd[c]>>, "goodbye")
  /\ UNCHANGED <<running, sockets, user, accepted, interrupted, net, requests,
                 history>>

CleanupLocked(c) ==   \* mutant: the mutex is not released
  /\ Runs(c) /\ pc[c] = "cleanup"
  /\ client_mapp' = [u \in Users |-> IF client_mapp[u] = fd[c] THEN Absent
                                     ELSE client_mapp[u]]
  /\ clients' = Others(c)
  /\ Say(c, <<fd[c]>>, "goodbye")
  /\ UNCHANGED <<running, sockets, client_mutex, user, accepted, interrupted,
                 net, requests, history>>

\* The block under the mutex: all names of the descriptor, and the descriptor.
Cleanup(c) ==
  /\ Runs(c) /\ pc[c] = "cleanup"
  /\ client_mapp' = [u \in Users |-> IF client_mapp[u] = fd[c] THEN Absent
                                     ELSE client_mapp[u]]
  /\ clients' = Others(c)
  /\ client_mutex' = Free
  /\ Say(c, <<fd[c]>>, "goodbye")
  /\ UNCHANGED <<running, sockets, user, accepted, interrupted, net, requests,
                 history>>

\* close() and the end of the thread, after "Logout successful."
Close(c) ==
  /\ Runs(c) /\ pc[c] = "goodbye" /\ todo[c] = <<>>
  /\ sock' = [sock EXCEPT ![fd[c]] = NoConn]
  /\ Goto(c, "done")
  /\ UNCHANGED <<running, fd, tables, client_mutex, user, todo, accepted,
                 interrupted, net, requests, history>>

-----------------------------------------------------------------------------
(* main() and shutdownServer                                               *)

\* accept() returns the lowest free descriptor; if there is none, an error.
Accept(c) ==
  /\ Runs(Main) /\ pc[Main] = "accept"
  /\ peer[c] # "away" /\ pc[c] = "idle"
  /\ \E n \in Fds :
       /\ sock[n] = NoConn /\ \A m \in Fds : sock[m] = NoConn => n <= m
       /\ sock' = [sock EXCEPT ![n] = c]
       /\ fd' = [fd EXCEPT ![c] = n]
  /\ accepted' = c
  /\ Goto(Main, "push")
  /\ UNCHANGED <<running, tables, client_mutex, user, todo, interrupted, net,
                 requests, history>>

LockPush ==
  /\ Runs(Main) /\ pc[Main] = "push"
  /\ Lock(Main)
  /\ Goto(Main, "pushing")
  /\ UNCHANGED <<running, sockets, tables, user, todo, accepted, interrupted,
                 net, requests, history>>

\* push_back, unlock, and the start of the thread.
Push ==
  /\ Runs(Main) /\ pc[Main] = "pushing"
  /\ clients' = Append(clients, fd[accepted])
  /\ client_mutex' = Free
  /\ pc' = [pc EXCEPT ![Main] = "accept", ![accepted] = "recv"]
  /\ accepted' = NoConn
  /\ UNCHANGED <<running, sockets, client_mapp, user, todo, interrupted, net,
                 requests, history>>

\* SIGINT: the handler runs on one of the threads, which stops where it is.
Interrupt(t) ==
  /\ running /\ interrupted = Free
  /\ pc[t] \notin {"idle", "done"}
  /\ interrupted' = t
  /\ UNCHANGED <<running, sockets, tables, client_mutex, threads, net, requests,
                 history>>

\* shutdownServer has the mutex: it closes what is open and exits.
shutdownServer ==
  /\ running /\ interrupted # Free
  /\ client_mutex = Free
  /\ running' = FALSE
  /\ UNCHANGED <<sockets, tables, client_mutex, threads, interrupted, net,
                 requests, history>>

-----------------------------------------------------------------------------
(* client_mapp without the mutex                                           *)

Accesses(c) == pc[c] \in {"login", "find", "index", "listing", "cleanup"}

Modifies(c) == \/ pc[c] = "login"
               \/ pc[c] = "index" /\ client_mapp[user[c]] = Absent
               \/ pc[c] = "cleanup" /\ \E u \in Users : client_mapp[u] = fd[c]

\* Two threads are in the std::map at once and one of them changes it: what
\* happens then is undefined, and the model stops.
Race(c, d) ==
  /\ Runs(c) /\ Runs(d) /\ c # d
  /\ Modifies(c) /\ Accesses(d)
  /\ running' = FALSE
  /\ UNCHANGED <<sockets, tables, client_mutex, threads, interrupted, net,
                 requests, history>>

-----------------------------------------------------------------------------
(* The clients (client.cpp): a client connects, reads until it ends, and   *)
(* leaves when it likes.                                                   *)

Connect(c) ==
  /\ running /\ peer[c] = "away"
  /\ peer' = [peer EXCEPT ![c] = "connected"]
  /\ UNCHANGED <<running, sockets, tables, client_mutex, threads, interrupted,
                 unread, requests, history>>

receiveMessages(c) ==
  /\ running /\ peer[c] = "connected" /\ unread[c] > 0
  /\ unread' = [unread EXCEPT ![c] = @ - 1]
  /\ UNCHANGED <<running, sockets, tables, client_mutex, threads, interrupted,
                 peer, requests, history>>

Leave(c) ==
  /\ running /\ peer[c] = "connected"
  /\ peer' = [peer EXCEPT ![c] = "gone"]
  /\ unread' = [unread EXCEPT ![c] = 0]
  /\ UNCHANGED <<running, sockets, tables, client_mutex, threads, interrupted,
                 requests, history>>

-----------------------------------------------------------------------------
Init ==
  /\ running = TRUE
  /\ sock = [n \in Fds |-> NoConn] /\ fd = [c \in Conns |-> Absent]
  /\ clients = <<>> /\ client_mapp = [u \in Users |-> Absent]
  /\ client_mutex = Free
  /\ pc = [t \in Threads |-> IF t = Main THEN "accept" ELSE "idle"]
  /\ user = [c \in Conns |-> Absent]
  /\ todo = [c \in Conns |-> <<>>]
  /\ accepted = NoConn
  /\ interrupted = Free
  /\ peer = [c \in Conns |-> "away"] /\ unread = [c \in Conns |-> 0]
  /\ requests = 0
  /\ names = [c \in Conns |-> {}] /\ halfway = [c \in Conns |-> {}]

Handle(c) ==
  \/ Disconnected(c)
  \/ handleLoginClient(c) \/ FindReceiver(c) \/ IndexReceiver(c)
  \/ broadcastMessage(c) \/ LockUsers(c) \/ ListUsers(c)
  \/ LockLogout(c) \/ Cleanup(c) \/ Close(c)
  \/ Send(c) \/ SendInVain(c) \/ Finish(c)

Receive(c) ==
  \/ Invalid(c)
  \/ \E next \in {"broadcast", "users", "logout"} : Request(c, next, Absent)
  \/ \E next \in {"login", "find"}, u \in Users : Request(c, next, u)

main == LockPush \/ Push \/ \E c \in Conns : Accept(c)

Client(c) == Connect(c) \/ receiveMessages(c) \/ Leave(c)

Next ==
  \/ main \/ shutdownServer
  \/ \E t \in Threads : Interrupt(t)
  \/ \E c \in Conns : Handle(c) \/ Receive(c) \/ BrokenPipe(c) \/ Client(c)
  \/ \E c, d \in Conns : Race(c, d)

Spec == Init /\ [][Next]_vars

\* The threads run, a client's receiving thread reads, the handler of a
\* signal goes on.  The mutex is taken by each thread once per request, so a
\* thread that waits for it gets it when the others have no more requests.
FairSpec ==
  /\ Spec
  /\ WF_vars(main) /\ WF_vars(shutdownServer)
  /\ \A c \in Conns : WF_vars(Handle(c)) /\ WF_vars(receiveMessages(c))

-----------------------------------------------------------------------------
(* Properties                                                              *)

Labels == {"idle", "recv", "login", "find", "index", "broadcast", "users",
           "listing", "logout", "cleanup", "reply", "locked", "goodbye", "done"}

TypeOK ==
  /\ running \in BOOLEAN
  /\ sock \in [Fds -> Conns \cup {NoConn}]
  /\ fd \in [Conns -> Fds \cup {Absent}]
  /\ clients \in Seq(Fds)
  /\ client_mapp \in [Users -> Fds \cup {stdin, Absent}]
  /\ client_mutex \in Threads \cup {Free} /\ interrupted \in Threads \cup {Free}
  /\ pc \in [Threads -> Labels \cup {"accept", "push", "pushing"}]
  /\ user \in [Conns -> Users \cup {Absent}]
  /\ \A c \in Conns : todo[c] \in Seq([fd : Fds \cup {stdin},
                                       for : Conns \cup {NoConn},
                                       part : {"length", "body"}])
  /\ accepted \in Conns \cup {NoConn}
  /\ peer \in [Conns -> {"away", "connected", "gone"}]
  /\ unread \in [Conns -> 0 .. Buffer]
  /\ requests \in 0 .. MaxRequests
  /\ names \in [Conns -> SUBSET Users] /\ halfway \in [Conns -> SUBSET Conns]

\* In the tables from its push_back to its logout.
Registered(c) == pc[c] \notin {"idle", "goodbye", "done"}

\* Lines 57-82 and 227-231: `clients' is exactly the descriptors of the
\* connections that are handled, each once, and a descriptor in client_mapp is
\* open for a connection that logged in under that name and has not logged
\* out, however descriptors are closed and handed out again.
TablesMatchSockets ==
  /\ {clients[i] : i \in 1 .. Len(clients)} = {fd[c] : c \in {d \in Conns : Registered(d)}}
  /\ \A i, j \in 1 .. Len(clients) : clients[i] = clients[j] => i = j
  /\ \A c \in Conns : Registered(c) => sock[fd[c]] = c
  /\ \A u \in Users : client_mapp[u] \in Fds =>
       \E c \in Conns :
         fd[c] = client_mapp[u] /\ Registered(c) /\ u \in names[c]

\* The sends that thread c has still to make go where they were meant to.
Reaches(c) == \A i \in 1 .. Len(todo[c]) :
                todo[c][i].for # NoConn /\ Owner(todo[c][i].fd) = todo[c][i].for

\* Lines 44-55 and 63-93: no part of a broadcast, a list of users or a goodbye
\* goes to a descriptor that was closed, or closed and opened for someone else,
\* since its message was made; and no part of a broadcast comes between the
\* length and the body of another at any client.
LockedSendsReach ==
  /\ \A c \in Conns : pc[c] \in {"locked", "goodbye"} => Reaches(c)
  /\ \A c \in Conns : Cardinality({d \in halfway[c] : pc[d] = "locked"}) <= 1

\* client.cpp:68, "Send a direct message to a specific user": a message that is
\* reported as sent goes to the connection its receiver was found under.
DirectReachesReceiver == \A c \in Conns : Reaches(c)

\* A client that logs out or leaves is logged out and its descriptor closed
\* (lines 63-82), whatever broadcasts and other logouts hold the mutex for,
\* unless the server ends or is interrupted.
LogoutEnds ==
  \A c \in Conns :
    pc[c] = "logout" ~> pc[c] = "done" \/ ~ running \/ interrupted # Free

\* shutdownServer (lines 171-181) ends the server, unless the thread it runs on
\* holds the mutex itself.
ShutdownEnds ==
  interrupted # Free /\ client_mutex # interrupted ~> ~ running
=============================================================================
