-------------------------------- MODULE Servers --------------------------------
(***************************************************************************)
(* The servers of EchoServers and HttpServer, each with its clients: which *)
(* of them runs is chosen at the start.                                    *)
(***************************************************************************)
EXTENDS EchoServers, HttpServer

vars == <<socketVars, loop, httpVars>>

\* The variables of the servers that do not run.
NoHttp == want = [c \in Conns |-> NoPath] /\ phase = [fd \in Fds |-> "recv"]
NoLoop == AtStart /\ table = <<>> /\ disconnected = {}

Init == SocketsInit /\ ((EchoInit /\ NoHttp) \/ (HttpInit /\ NoLoop))

Next ==
  \/ EchoStep /\ UNCHANGED httpVars
  \/ HttpStep /\ UNCHANGED loop
  \/ \E c \in Conns : ClientStep(c) /\ UNCHANGED <<loop, httpVars>>

Spec == Init /\ [][Next]_vars

\* The process and each of its threads run; nothing is assumed of the clients.
FairSpec ==
  /\ Spec
  /\ WF_vars(Loop /\ UNCHANGED httpVars)
  /\ WF_vars(thread_accept /\ UNCHANGED httpVars)
  /\ WF_vars(start /\ UNCHANGED loop)
  /\ \A fd \in Fds : /\ WF_vars(handle_client(fd) /\ UNCHANGED httpVars)
                     /\ WF_vars(HttpThread(fd) /\ UNCHANGED loop)

-----------------------------------------------------------------------------
(* Properties                                                              *)

Pieces == Conns \X (1 .. MaxSent)
Counts == 0 .. MaxSent + 1

\* The types; and between two rounds the loops watch just the descriptors that
\* are open (multi_client_select.cpp:105-109, multi_client_poll.cpp:72-77,
\* multi_client_epoll.cpp:104-108): select fails for good on one that is not.
TypeOK ==
  /\ kind \in EchoKinds \cup {"http"} /\ alive \in BOOLEAN
  /\ sock \in [Fds -> Conns \cup {NoConn}]
  /\ peer \in [Conns -> {"away", "open", "gone"}]
  /\ sent \in [Conns -> 0 .. MaxSent]
  /\ \A c \in Conns : inq[c] \in Seq(Pieces) /\ unread[c] \in 0 .. SendBuffer
  /\ phase \in [Fds -> {"recv", "send", "close"}]
  /\ at \in {"wait", "accept", "visit", "ended"} /\ ready \subseteq Fds \cup {Listener}
  /\ IsInjective(table)
  /\ at = "wait" /\ table # <<>> => Range(table) = OpenFds \cup {Listener}

\* What is on its way back to c.
InHand(c) == FlattenSeq(SetToSeq({hand[fd] : fd \in {f \in Fds : sock[f] = c}}))

\* The echo of every server: what a client is sent, what is in hand and what has
\* not been received are together what it sent, in order, nothing of another
\* client's and nothing twice.  Something is missing only if the client has gone,
\* or if epoll's socket was full (multi_client_epoll.cpp:111).
EchoExact ==
  \A c \in Conns :
    kind # "http" /\ peer[c] = "open" /\ (kind = "epoll" => c \notin full) =>
      heard[c] \o InHand(c) \o inq[c] = [n \in 1 .. sent[c] |-> <<c, n>>]

\* recv <= 0 means that the client has gone: also from a socket that does not
\* block no client is closed that is still there, whichever order the events of
\* a batch come in and whichever descriptor is used again
\* (multi_client_epoll.cpp:103, multi_client_select.cpp:91).
NobodyElseClosed ==
  \A c \in closed : kind # "http" => peer[c] = "gone"

\* How many pieces of its request the server has received.
Arrived(c) == sent[c] - Len(inq[c])

\* HttpServer.cpp:52-74: what a connection has been sent is the response to what
\* had arrived of its own request when recv returned: to its own path if all of
\* it had, to a prefix of that path if a part had; and it is the whole response when
\* the connection is closed, unless the client had gone or sent something that
\* was not received, which resets the connection.
OwnResponse ==
  \A c \in Conns : kind = "http" =>
    \E path \in parsed(Arrived(c), want[c]) :
      /\ IsPrefix(heard[c], handle(path))
      /\ c \in closed /\ peer[c] = "open" /\ inq[c] = <<>> => heard[c] = handle(path)

\* c goes on reading what it is sent.
Reads(c) == []<>(unread[c] = 0)

\* A client that waits in the backlog or has sent something is served; only in the
\* backlog it may have to wait for a descriptor.
InBacklog(c) == \E n \in DOMAIN backlog : backlog[n] = c
Waits(c) == InBacklog(c) \/ (inq[c] # <<>> /\ c \notin closed)
Accepted(c) == \E fd \in OpenFds : sock[fd] = c
Served(c) ==
  Waits(c) ~> \/ ~ Waits(c) \/ peer[c] = "gone" \/ ~ alive
              \/ InBacklog(c) /\ FreeFds = {}

\* Nobody is kept waiting: by epoll, which does not block; by the servers with
\* threads, however little the other clients read; by select and poll only as
\* long as every client reads (multi_client_select.cpp:101, multi_client_poll.cpp:81);
\* by step4_recv_send.cpp only the client that it accepted.
EveryoneServed ==
  /\ kind = "epoll" => \A c \in Conns : Served(c)
  /\ kind = "once" => \A c \in Conns : Reads(c) =>
       (Accepted(c) /\ Waits(c) ~> ~ Waits(c) \/ peer[c] = "gone" \/ ~ alive)
  /\ kind \in {"threads", "http"} => \A c \in Conns : Reads(c) => Served(c)
  /\ kind \in {"select", "poll"} /\ (\A c \in Conns : Reads(c)) =>
       \A c \in Conns : Served(c)
=============================================================================
