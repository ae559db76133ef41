------------------------------ MODULE EchoServers ------------------------------
(***************************************************************************)
(* The echo servers of socket_prog: one loop around select, poll or epoll, *)
(* one thread for each client, or one client in all.  Each sends back to a *)
(* client what it receives from it.                                        *)
(***************************************************************************)
EXTENDS Sockets, Subsequences

VARIABLES
  at,             \* where the loop is: "wait", "accept", "visit"; "ended"
  table,          \* clients, fds or the interest list: what the loop watches
  ready,          \* read_fds, the revents or events not yet looked at
  i,              \* index into table
  disconnected    \* select's vector of descriptors it has closed

loop == <<at, table, ready, i, disconnected>>

Watched == {fd \in Range(table) : Readable(fd)}

\* An echo is going on in the loop, which waits for send to return.
Sending == \E fd \in Fds : hand[fd] # <<>>

\* recv and, unless it returned nothing, send.
Echo(fd) ==
  \E pieces \in Received(fd) :
    Recv(fd, pieces) /\ hand' = [hand EXCEPT ![fd] = pieces]

-----------------------------------------------------------------------------
(* multi_client_select.cpp                                                 *)

select ==
  /\ kind = "select" /\ alive /\ at = "wait" /\ Watched # {}
  /\ ready' = Watched /\ at' = "accept"
  /\ UNCHANGED <<socketVars, table, i, disconnected>>

\* The listener is the first of the table only here: it is not in `clients'.
select_accept ==
  /\ kind = "select" /\ alive /\ at = "accept"
  /\ \/ /\ Listener \in ready
        /\ \E fd \in Fds : AcceptAs(fd) /\ table' = Append(table, fd)
     \/ /\ Listener \notin ready \/ FreeFds = {}
        /\ UNCHANGED <<socketVars, table>>
  /\ at' = "visit" /\ i' = 2
  /\ UNCHANGED <<ready, disconnected>>

select_client ==
  /\ kind = "select" /\ alive /\ at = "visit" /\ ~ Sending /\ i <= Len(table)
  /\ i' = i + 1
  /\ \/ table[i] \notin ready /\ UNCHANGED <<socketVars, disconnected>>
     \/ table[i] \in ready /\ Echo(table[i]) /\ UNCHANGED disconnected
     \/ /\ table[i] \in ready /\ RecvNothing(table[i]) /\ CloseFd(table[i])
        /\ disconnected' = disconnected \cup {table[i]}
  /\ UNCHANGED <<at, table, ready>>

select_endForgets ==   \* mutant: closed descriptors are still watched
  /\ kind = "select" /\ alive /\ at = "visit" /\ ~ Sending /\ i > Len(table)
  /\ disconnected' = {} /\ at' = "wait" /\ ready' = {} /\ i' = 1
  /\ UNCHANGED <<socketVars, table>>

select_end ==
  /\ kind = "select" /\ alive /\ at = "visit" /\ ~ Sending /\ i > Len(table)
  /\ table' = Keep(table, Range(table) \ disconnected)
  /\ disconnected' = {} /\ at' = "wait" /\ ready' = {} /\ i' = 1
  /\ UNCHANGED socketVars

-----------------------------------------------------------------------------
(* multi_client_poll.cpp                                                   *)

poll ==
  /\ kind = "poll" /\ alive /\ at = "wait" /\ Watched # {}
  /\ ready' = Watched /\ at' = "visit" /\ i' = 1
  /\ UNCHANGED <<socketVars, table, disconnected>>

\* erase(begin + i) and i-- before the loop's ++i: the index stays.
poll_entry ==
  /\ kind = "poll" /\ alive /\ at = "visit" /\ ~ Sending /\ i <= Len(table)
  /\ \/ /\ table[i] \notin ready \/ (table[i] = Listener /\ FreeFds = {})
        /\ i' = i + 1 /\ UNCHANGED <<socketVars, table>>
     \/ /\ table[i] \in ready /\ table[i] = Listener
        /\ \E fd \in Fds : AcceptAs(fd) /\ table' = Append(table, fd)
        /\ i' = i + 1
     \/ /\ table[i] \in ready /\ table[i] # Listener /\ Echo(table[i])
        /\ i' = i + 1 /\ UNCHANGED table
     \/ /\ table[i] \in ready /\ table[i] # Listener
        /\ RecvNothing(table[i]) /\ CloseFd(table[i])
        /\ table' = RemoveAt(table, i) /\ UNCHANGED i
  /\ ready' = ready \ {table[i]}
  /\ UNCHANGED <<at, disconnected>>

poll_end ==
  /\ kind = "poll" /\ alive /\ at = "visit" /\ ~ Sending /\ i > Len(table)
  /\ at' = "wait" /\ i' = 1
  /\ UNCHANGED <<socketVars, table, ready, disconnected>>

-----------------------------------------------------------------------------
(* multi_client_epoll.cpp                                                  *)

epoll_wait ==
  /\ kind = "epoll" /\ alive /\ at = "wait" /\ Watched # {}
  /\ ready' = Watched /\ at' = "visit"
  /\ UNCHANGED <<socketVars, table, i, disconnected>>

epoll_accept ==
  /\ kind = "epoll" /\ alive /\ at = "visit" /\ ~ Sending /\ Listener \in ready
  /\ ready' = ready \ {Listener}
  /\ \/ \E fd \in Fds : AcceptAs(fd) /\ table' = Append(table, fd)
     \/ FreeFds = {} /\ UNCHANGED <<socketVars, table>>
  /\ UNCHANGED <<at, i, disconnected>>

epoll_clientDrains ==   \* mutant: recv again until it returns nothing
  /\ kind = "epoll" /\ alive /\ at = "visit" /\ ~ Sending
  /\ \E fd \in ready \ {Listener} :
       \/ Echo(fd) /\ UNCHANGED <<ready, table>>
       \/ /\ inq[sock[fd]] = <<>> /\ CloseFd(fd)
          /\ ready' = ready \ {fd}
          /\ table' = Keep(table, Range(table) \ {fd})
  /\ UNCHANGED <<at, i, disconnected>>

\* A recv that would block returns an error too, and the client is closed; close
\* takes the descriptor off the interest list.
epoll_client ==
  /\ kind = "epoll" /\ alive /\ at = "visit" /\ ~ Sending
  /\ \E fd \in ready \ {Listener} :
       /\ ready' = ready \ {fd}
       /\ \/ Echo(fd) /\ UNCHANGED table
          \/ /\ inq[sock[fd]] = <<>> /\ CloseFd(fd)
             /\ table' = Keep(table, Range(table) \ {fd})
  /\ UNCHANGED <<at, i, disconnected>>

epoll_end ==
  /\ kind = "epoll" /\ alive /\ at = "visit" /\ ~ Sending /\ ready = {}
  /\ at' = "wait" /\ UNCHANGED <<socketVars, table, ready, i, disconnected>>

echo_sendBlocks ==   \* mutant: epoll's sockets block
  /\ kind \in {"select", "poll", "epoll"} /\ alive
  /\ \E fd \in Fds : Send(fd, FALSE)
  /\ UNCHANGED loop

\* The send of a loop: only epoll's sockets do not block.
echo_send ==
  /\ kind \in {"select", "poll", "epoll"} /\ alive
  /\ \E fd \in Fds : Send(fd, kind = "epoll")
  /\ UNCHANGED loop

-----------------------------------------------------------------------------
(* multi_client_threaded.cpp                                               *)

\* main: accept, and a thread for the client.
thread_accept ==
  /\ kind = "threads" /\ alive /\ backlog # <<>>
  /\ \E fd \in Fds : AcceptAs(fd)
  /\ UNCHANGED loop

handle_client(fd) ==
  /\ kind = "threads" /\ alive /\ sock[fd] # NoConn
  /\ \/ hand[fd] = <<>> /\ Echo(fd)
     \/ Send(fd, FALSE)
     \/ hand[fd] = <<>> /\ RecvNothing(fd) /\ CloseFd(fd)
  /\ UNCHANGED loop

-----------------------------------------------------------------------------
(* step4_recv_send.cpp                                                     *)

once_accept ==
  /\ kind = "once" /\ alive /\ at = "wait" /\ backlog # <<>>
  /\ \E fd \in Fds : AcceptAs(fd)
  /\ at' = "visit" /\ UNCHANGED <<table, ready, i, disconnected>>

once_client ==
  /\ kind = "once" /\ alive /\ at = "visit"
  /\ \E fd \in OpenFds :
       \/ ~ Sending /\ Echo(fd) /\ UNCHANGED at
       \/ Send(fd, FALSE) /\ UNCHANGED at
       \/ ~ Sending /\ RecvNothing(fd) /\ CloseFd(fd) /\ at' = "ended"
  /\ UNCHANGED <<table, ready, i, disconnected>>

-----------------------------------------------------------------------------
EchoKinds == {"select", "poll", "epoll", "threads", "once"}

\* What each main has when its loop begins: the listener is watched from the
\* start, and threads watch nothing.
select_start == kind = "select" /\ table = <<Listener>> /\ disconnected = {}
poll_start == kind = "poll" /\ table = <<Listener>> /\ disconnected = {}
epoll_start == kind = "epoll" /\ table = <<Listener>> /\ disconnected = {}
threads_start == kind = "threads" /\ table = <<>> /\ disconnected = {}
once_start == kind = "once" /\ table = <<>> /\ disconnected = {}

AtStart == at = "wait" /\ ready = {} /\ i = 1
EchoInit ==
  AtStart /\ (select_start \/ poll_start \/ epoll_start \/ threads_start \/ once_start)

Loop ==
  \/ select \/ select_accept \/ select_client \/ select_end
  \/ poll \/ poll_entry \/ poll_end
  \/ epoll_wait \/ epoll_accept \/ epoll_client \/ epoll_end
  \/ echo_send \/ once_accept \/ once_client

EchoStep == Loop \/ thread_accept \/ \E fd \in Fds : handle_client(fd)
=============================================================================
