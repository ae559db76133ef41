-------------------------------- MODULE Sockets --------------------------------
(***************************************************************************)
(* What the servers of socket_prog and http_server share: the TCP sockets  *)
(* of the kernel and the clients at their other ends.                      *)
(*                                                                         *)
(* Data.  Bytes are counted in pieces; a piece is <<c, n>>, the n-th that  *)
(* client c sends.                                                         *)
(***************************************************************************)
EXTENDS Naturals, Sequences, FiniteSets, SequencesExt

CONSTANTS
  Conns,        \* connections that clients make
  NumFds,       \* bound: descriptors the process may have open for clients
  RecvSize,     \* pieces the buffer given to recv holds
  SendBuffer,   \* pieces a socket's send buffer holds
  MaxSent,      \* bound: pieces a client sends
  NoConn        \* not a connection

ASSUME SocketsAssumption ==
  /\ NumFds \in Nat \ {0} /\ RecvSize \in Nat \ {0} /\ SendBuffer \in Nat \ {0}
  /\ MaxSent \in Nat /\ NoConn \notin Conns

VARIABLES
  kind,      \* the server that runs: "select", "poll", "epoll", "threads", "once", "http"
  limit,     \* descriptors the process may have open for clients
  alive,     \* its process has not been killed
  backlog,   \* connections that wait for accept
  sock,      \* the descriptor table: the connection of a descriptor
  peer,      \* per connection, its client: "away", "open" or "gone"
  sent,      \* per connection, how many pieces its client has sent
  inq,       \* per connection, pieces the server has not received
  unread,    \* per connection, how many pieces its client has not read
  heard,     \* history: per connection, the pieces the server has sent
  closed,    \* history: connections the server has closed
  full,      \* history: connections a send found without enough room
  hand       \* per descriptor, what was received or made and is to be sent

kernel == <<backlog, sock, peer, sent, inq, unread, heard, closed, full>>
socketVars == <<kind, limit, alive, kernel, hand>>

Fds == 1 .. NumFds
Listener == 0
OpenFds == {fd \in Fds : sock[fd] # NoConn}
FreeFds == (1 .. limit) \ OpenFds

\* What select, poll and epoll report.
Readable(fd) ==
  IF fd = Listener THEN backlog # <<>>
  ELSE sock[fd] # NoConn /\ (inq[sock[fd]] # <<>> \/ peer[sock[fd]] = "gone")

\* accept: the lowest free descriptor, or an error if there is none.
AcceptAs(fd) ==
  /\ fd \in FreeFds /\ \A other \in FreeFds : fd <= other
  /\ sock' = [sock EXCEPT ![fd] = Head(backlog)]
  /\ backlog' = Tail(backlog)
  /\ UNCHANGED <<kind, limit, alive, peer, sent, inq, unread, heard, closed, full, hand>>

\* recv, with some of the bytes that are there.
Recv(fd, pieces) ==
  /\ sock[fd] # NoConn /\ pieces # <<>> /\ Len(pieces) <= RecvSize
  /\ IsPrefix(pieces, inq[sock[fd]])
  /\ inq' = [inq EXCEPT ![sock[fd]] = SubSeq(@, Len(pieces) + 1, Len(@))]
  /\ UNCHANGED <<kind, limit, alive, backlog, sock, peer, sent, unread, heard, closed, full>>

Received(fd) ==
  {SubSeq(inq[sock[fd]], 1, n) : n \in {k \in 1 .. RecvSize : k <= Len(inq[sock[fd]])}}

\* recv returns 0 or an error: at once if the client has gone.
RecvNothing(fd) == sock[fd] # NoConn /\ inq[sock[fd]] = <<>> /\ peer[sock[fd]] = "gone"

\* A reset reaches the client: what it has not read may be lost, and here is.
Reset(c) ==
  /\ heard' = [heard EXCEPT ![c] = SubSeq(@, 1, Len(@) - unread[c])]
  /\ unread' = [unread EXCEPT ![c] = 0]

\* close: it resets the connection if the server leaves bytes unread.
CloseFd(fd) ==
  LET c == sock[fd] IN
  /\ sock' = [sock EXCEPT ![fd] = NoConn]
  /\ closed' = closed \cup {c}
  /\ \/ UNCHANGED <<unread, heard>>
     \/ inq[c] # <<>> /\ Reset(c)
  /\ UNCHANGED <<kind, limit, alive, backlog, peer, sent, inq, full, hand>>

SendSome(fd, nonblocking) ==   \* mutant: send does not wait for room
  LET c == sock[fd] IN
  /\ hand[fd] # <<>> /\ unread[c] < SendBuffer
  /\ heard' = [heard EXCEPT ![c] = Append(@, Head(hand[fd]))]
  /\ unread' = [unread EXCEPT ![c] = @ + 1]
  /\ hand' = [hand EXCEPT ![fd] = <<>>]
  /\ UNCHANGED <<kind, limit, alive, backlog, sock, peer, sent, inq, closed, full>>

\* send of hand[fd], which blocks for room unless the socket is `nonblocking';
\* what is sent to a client that has gone is lost, and when its reset has come
\* the signal SIGPIPE kills the process.
Send(fd, nonblocking) ==
  LET c == sock[fd]
      room == SendBuffer - unread[c]
      n == IF Len(hand[fd]) <= room THEN Len(hand[fd]) ELSE room
  IN
  /\ hand[fd] # <<>>
  /\ \/ /\ peer[c] = "gone" /\ alive' \in BOOLEAN
        /\ hand' = [hand EXCEPT ![fd] = <<>>]
        /\ UNCHANGED <<unread, heard, full>>
     \/ /\ peer[c] = "open" /\ (n > 0 \/ nonblocking)
        /\ heard' = [heard EXCEPT ![c] = @ \o SubSeq(hand[fd], 1, n)]
        /\ unread' = [unread EXCEPT ![c] = @ + n]
        /\ full' = IF n < Len(hand[fd]) THEN full \cup {c} ELSE full
        /\ hand' = [hand EXCEPT ![fd] = IF nonblocking THEN <<>>
                                        ELSE SubSeq(@, n + 1, Len(@))]
        /\ UNCHANGED alive
  /\ UNCHANGED <<kind, limit, backlog, sock, peer, sent, inq, closed>>

-----------------------------------------------------------------------------
(* The clients                                                             *)

Connect(c) ==
  /\ alive /\ peer[c] = "away"
  /\ peer' = [peer EXCEPT ![c] = "open"]
  /\ backlog' = Append(backlog, c)
  /\ UNCHANGED <<kind, limit, alive, sock, sent, inq, unread, heard, closed, full, hand>>

\* What comes after the server's close is never received, and resets the connection.
SendPiece(c) ==
  /\ alive /\ peer[c] = "open" /\ sent[c] < MaxSent
  /\ sent' = [sent EXCEPT ![c] = @ + 1]
  /\ inq' = [inq EXCEPT ![c] = Append(@, <<c, sent'[c]>>)]
  /\ \/ UNCHANGED <<unread, heard>>
     \/ c \in closed /\ Reset(c)
  /\ UNCHANGED <<kind, limit, alive, backlog, sock, peer, closed, full, hand>>

ReadPiece(c) ==
  /\ alive /\ peer[c] = "open" /\ unread[c] > 0
  /\ unread' = [unread EXCEPT ![c] = @ - 1]
  /\ UNCHANGED <<kind, limit, alive, backlog, sock, peer, sent, inq, heard, closed, full, hand>>

Hangup(c) ==
  /\ alive /\ peer[c] = "open"
  /\ peer' = [peer EXCEPT ![c] = "gone"]
  /\ UNCHANGED <<kind, limit, alive, backlog, sock, sent, inq, unread, heard, closed, full, hand>>

ClientStep(c) == Connect(c) \/ SendPiece(c) \/ ReadPiece(c) \/ Hangup(c)

\* socket, bind and listen have succeeded.
SocketsInit ==
  /\ limit \in 1 .. NumFds /\ alive = TRUE /\ backlog = <<>> /\ closed = {} /\ full = {}
  /\ sock = [fd \in Fds |-> NoConn] /\ hand = [fd \in Fds |-> <<>>]
  /\ peer = [c \in Conns |-> "away"] /\ sent = [c \in Conns |-> 0]
  /\ inq = [c \in Conns |-> <<>>] /\ unread = [c \in Conns |-> 0]
  /\ heard = [c \in Conns |-> <<>>]
=============================================================================
