------------------------------- MODULE ChatRoom -------------------------------
(***************************************************************************)
(* The chat room server of chatroom-app (chatRoom.cpp, chatRoom.hpp,       *)
(* message.hpp): one io_context run by one thread, a Room, and a Session   *)
(* for each client.  Every handler runs to its end before the next one, so *)
(* a handler is one action.  Handlers of a socket's writes are those of    *)
(* boost::asio: a write is tried at once if no other write of the socket   *)
(* waits; what does not fit into the send buffer is written later.         *)
(*                                                                         *)
(* Data.  Bytes are counted in pieces; the last piece of a line is its     *)
(* newline.                                                                *)
(***************************************************************************)
EXTENDS Naturals, Sequences, SequencesExt, Subsequences

CONSTANTS
  Clients,
  LineLengths,   \* LineLengths[n]: lengths a client's n-th line may have
  maxBytes,      \* pieces a Message holds
  SendBuffer,    \* pieces a socket's send buffer holds
  Garbage,       \* a piece of memory that was freed
  MaxLines       \* bound: lines sent in all

ASSUME RoomAssumption ==
  /\ LineLengths \in [1 .. MaxLines -> SUBSET (Nat \ {0})] /\ maxBytes \in Nat \ {0}
  /\ SendBuffer \in Nat \ {0} /\ MaxLines \in Nat

VARIABLES
  running,       \* the process has not run into undefined behaviour
  peer,          \* per client: "away", "connected" or "gone"
  session,       \* per client, its Session: "none", "open" or "closed"
  reading,       \* per client, its Session waits in async_read_until
  participants,  \* Room::participants
  inbox,         \* per client, lines in its socket and the Session's buffer
  sock,          \* per client, the writing side of its socket
  lines,         \* per client, how many lines it has sent
  sent,          \* for the bound: how many lines all have sent
  log,           \* history: the lines in the order Room::deliver got them
  since,         \* history: per client, the length of log when it joined
  waited         \* history: clients for whom some write had to wait

sending == <<lines, sent>>
room == <<session, reading, participants>>
history == <<log, since>>
vars == <<running, peer, room, inbox, sock, sending, history, waited>>

-----------------------------------------------------------------------------
(* message.hpp                                                             *)

Line(c, n, len) == [i \in 1 .. len |-> [from |-> c, line |-> n, piece |-> i,
                                        newline |-> i = len]]

getNewBodyLength(n) == IF n > maxBytes THEN maxBytes ELSE n

\* The constructor: the header is the length, and the body that much of the
\* line.  Four digits are enough for every length up to 512.
Message(line) ==
  LET length == getNewBodyLength(Len(line))
  IN  [header |-> length, body |-> SubSeq(line, 1, length)]

decodeHeader(m) == m.header <= maxBytes

-----------------------------------------------------------------------------
(* Writes of one socket s.  A write is the pieces it has still to send;    *)
(* `ops' are those that wait for room, `posted' those that sent a part and *)
(* whose completion has still to run.                                      *)

Idle(s) == s.ops = <<>> /\ s.posted = <<>>

Perform(s, bytes) ==
  LET k == IF Len(bytes) <= SendBuffer - s.unread THEN Len(bytes)
           ELSE SendBuffer - s.unread
      rest == SubSeq(bytes, k + 1, Len(bytes))
  IN  [s EXCEPT !.stream = @ \o SubSeq(bytes, 1, k),
                !.unread = @ + k,
                !.posted = IF rest = <<>> THEN @ ELSE Append(@, rest)]

StartDropping(s, bytes) ==   \* mutant: what does not fit at once is lost
  IF s.ops = <<>> /\ s.unread < SendBuffer THEN Perform(s, bytes) ELSE s

\* async_write_some
Start(s, bytes) ==
  IF s.ops = <<>> /\ s.unread < SendBuffer THEN Perform(s, bytes)
  ELSE [s EXCEPT !.ops = Append(@, bytes)]

\* A write that goes on after async_write returned reads a string that is gone.
Dangling(bytes) == {bytes, [i \in DOMAIN bytes |-> Garbage]}

\* Session::write and Session::async_write; its queue is empty again at the end.
\* What is written to a client that has left is lost.
write(c, m) ==
  IF decodeHeader(m) /\ peer[c] = "connected" THEN Start(sock[c], m.body)
  ELSE sock[c]

\* Room::deliver; its queue is empty again at the end.
deliver(c, line) ==
  /\ log' = Append(log, line)
  /\ sock' = [q \in Clients |-> IF q \in participants \ {c}
                                THEN write(q, Message(line)) ELSE sock[q]]

-----------------------------------------------------------------------------
(* Handlers                                                                *)

Blank == [stream |-> <<>>, unread |-> 0, ops |-> <<>>, posted |-> <<>>]

\* accept_connection's handler: a Session, start(), and accept again.
accept_connection(c) ==
  /\ running /\ peer[c] # "away" /\ session[c] = "none"
  /\ session' = [session EXCEPT ![c] = "open"]
  /\ participants' = participants \cup {c}
  /\ reading' = [reading EXCEPT ![c] = TRUE]
  /\ since' = [since EXCEPT ![c] = Len(log)]
  /\ UNCHANGED <<running, peer, inbox, sock, sending, log, waited>>

async_readConsumesAll(c) ==   \* mutant: the buffer is emptied
  /\ running /\ reading[c] /\ inbox[c] # <<>>
  /\ inbox' = [inbox EXCEPT ![c] = <<>>]
  /\ deliver(c, Head(inbox[c]))
  /\ waited' = waited \cup {q \in Clients : ~ Idle(sock'[q])}
  /\ UNCHANGED <<running, peer, room, sending, since>>

async_readOnce(c) ==   \* mutant: the Session does not read again
  /\ running /\ reading[c] /\ inbox[c] # <<>>
  /\ inbox' = [inbox EXCEPT ![c] = Tail(@)]
  /\ deliver(c, Head(inbox[c]))
  /\ reading' = [reading EXCEPT ![c] = FALSE]
  /\ waited' = waited \cup {q \in Clients : ~ Idle(sock'[q])}
  /\ UNCHANGED <<running, peer, session, participants, sending, since>>

\* async_read's handler with a line: it is taken off the buffer and delivered,
\* and the Session reads again.
async_read(c) ==
  /\ running /\ reading[c] /\ inbox[c] # <<>>
  /\ inbox' = [inbox EXCEPT ![c] = Tail(@)]
  /\ deliver(c, Head(inbox[c]))
  /\ waited' = waited \cup {q \in Clients : ~ Idle(sock'[q])}
  /\ UNCHANGED <<running, peer, room, sending, since>>

readErrorStays(c) ==   \* mutant: the Session stays in the room
  /\ running /\ reading[c] /\ peer[c] = "gone"
  /\ session' = [session EXCEPT ![c] = "closed"]
  /\ reading' = [reading EXCEPT ![c] = FALSE]
  /\ UNCHANGED <<running, peer, participants, inbox, sock, sending, history, waited>>

\* async_read's handler with an error, at the end of the stream or before it:
\* the Session leaves the room and is destroyed, and its socket is closed, which
\* cancels the writes that wait.
readError(c) ==
  /\ running /\ reading[c] /\ peer[c] = "gone"
  /\ participants' = participants \ {c}
  /\ session' = [session EXCEPT ![c] = "closed"]
  /\ reading' = [reading EXCEPT ![c] = FALSE]
  /\ sock' = [sock EXCEPT ![c].ops = <<>>]
  /\ UNCHANGED <<running, peer, inbox, sending, history, waited>>

\* The socket has room again: the write that waits longest goes on.
writable(c) ==
  /\ running /\ session[c] = "open" /\ sock[c].ops # <<>>
  /\ sock[c].unread < SendBuffer
  /\ \E bytes \in Dangling(Head(sock[c].ops)) :
       sock' = [sock EXCEPT ![c] = Perform([sock[c] EXCEPT !.ops = Tail(@)], bytes)]
  /\ UNCHANGED <<running, peer, room, inbox, sending, history, waited>>

\* A write that sent a part goes on with the rest, behind those that wait.
writeMore(c) ==
  /\ running /\ session[c] = "open" /\ sock[c].posted # <<>>
  /\ \E bytes \in Dangling(Head(sock[c].posted)) :
       sock' = [sock EXCEPT ![c] = Start([sock[c] EXCEPT !.posted = Tail(@)], bytes)]
  /\ UNCHANGED <<running, peer, room, inbox, sending, history, waited>>

\* ... with the socket of a Session that is gone: undefined behaviour.
writeMoreClosed(c) ==
  /\ running /\ session[c] = "closed" /\ sock[c].posted # <<>>
  /\ running' = FALSE
  /\ UNCHANGED <<peer, room, inbox, sock, sending, history, waited>>

-----------------------------------------------------------------------------
(* The clients (client.cpp)                                                *)

Connect(c) ==
  /\ running /\ peer[c] = "away"
  /\ peer' = [peer EXCEPT ![c] = "connected"]
  /\ UNCHANGED <<running, room, inbox, sock, sending, history, waited>>

SendLine(c) ==
  /\ running /\ peer[c] = "connected"
  /\ sent < MaxLines /\ sent' = sent + 1
  /\ lines' = [lines EXCEPT ![c] = @ + 1]
  /\ \E len \in LineLengths[lines'[c]] :
       inbox' = [inbox EXCEPT ![c] = Append(@, Line(c, lines'[c], len))]
  /\ UNCHANGED <<running, peer, room, sock, history, waited>>

ReceivePiece(c) ==
  /\ running /\ peer[c] = "connected" /\ sock[c].unread > 0
  /\ sock' = [sock EXCEPT ![c].unread = @ - 1]
  /\ UNCHANGED <<running, peer, room, inbox, sending, history, waited>>

Leave(c) ==
  /\ running /\ peer[c] = "connected"
  /\ peer' = [peer EXCEPT ![c] = "gone"]
  /\ sock' = [sock EXCEPT ![c].unread = 0]
  /\ UNCHANGED <<running, room, inbox, sending, history, waited>>

-----------------------------------------------------------------------------
Init ==
  /\ running = TRUE
  /\ peer = [c \in Clients |-> "away"] /\ session = [c \in Clients |-> "none"]
  /\ reading = [c \in Clients |-> FALSE] /\ participants = {}
  /\ inbox = [c \in Clients |-> <<>>] /\ sock = [c \in Clients |-> Blank]
  /\ lines = [c \in Clients |-> 0] /\ sent = 0
  /\ log = <<>> /\ since = [c \in Clients |-> 0] /\ waited = {}

Handler(c) ==
  \/ accept_connection(c) \/ async_read(c) \/ readError(c)
  \/ writable(c) \/ writeMore(c) \/ writeMoreClosed(c)

Next ==
  \E c \in Clients :
    \/ Handler(c)
    \/ Connect(c) \/ SendLine(c) \/ ReceivePiece(c) \/ Leave(c)

Spec == Init /\ [][Next]_vars

\* io_context runs a handler that is ready, whatever the clients do.
FairSpec == Spec /\ \A c \in Clients : WF_vars(Handler(c))

-----------------------------------------------------------------------------
(* Properties                                                              *)

Pieces == [from : Clients, line : 1 .. MaxLines, piece : Nat, newline : BOOLEAN]
Bytes == Pieces \cup {Garbage}
Writing == [stream : Seq(Bytes), unread : 0 .. SendBuffer,
            ops : Seq(Seq(Bytes)), posted : Seq(Seq(Bytes))]

\* The types; and the room's participants are the Sessions that have not ended
\* (chatRoom.cpp:13-19).
TypeOK ==
  /\ running \in BOOLEAN
  /\ peer \in [Clients -> {"away", "connected", "gone"}]
  /\ session \in [Clients -> {"none", "open", "closed"}]
  /\ reading \in [Clients -> BOOLEAN]
  /\ participants = {c \in Clients : session[c] = "open"}
  /\ waited \subseteq Clients
  /\ inbox \in [Clients -> Seq(Seq(Pieces))] /\ sock \in [Clients -> Writing]
  /\ sent \in 0 .. MaxLines /\ lines \in [Clients -> 0 .. sent]
  /\ log \in Seq(Seq(Pieces))
  /\ since \in [Clients -> 0 .. Len(log)]

LinesOf(c) == {l \in Seq(Pieces) : l[1].from = c}
LinesOfOthers(c) == {l \in Seq(Pieces) : l[1].from # c}

\* What of a line one Message carries.
Carried(line) == SubSeq(line, 1, IF Len(line) > maxBytes THEN maxBytes ELSE Len(line))

\* What the room owes participant c: the lines of the others since it joined.
Owed(c) ==
  LET heard == Keep(SubSeq(log, since[c] + 1, Len(log)), LinesOfOthers(c))
  IN  FlattenSeq([i \in DOMAIN heard |-> Carried(heard[i])])

\* Everything written to s or still to be written.
Amount(s) == Len(s.stream) + Len(FlattenSeq(s.ops)) + Len(FlattenSeq(s.posted))

\* chatRoom.cpp:4-10 and message.hpp:10-16: a participant gets what the others
\* sent since it joined, each message once, whole up to the size of a Message,
\* and every participant in the same order.  Where a write had to wait, the
\* order and the contents are lost, but no byte is dropped or doubled.
OwedIsWritten ==
  \A c \in participants :
    running /\ peer[c] = "connected" =>
      IF c \in waited THEN Amount(sock[c]) = Len(Owed(c))
      ELSE sock[c].stream = Owed(c)

\* The lines of c in a sequence of lines, by their numbers.
NumbersOf(c, ls) == LET its == Keep(ls, LinesOf(c))
                    IN  [i \in DOMAIN its |-> its[i][1].line]

\* Lines 35-58: a client's lines reach the room in the order it sent them, each
\* once and none left out, however many are in the buffer at once.
LinesInOrder ==
  \A c \in Clients :
    NumbersOf(c, log) \o NumbersOf(c, inbox[c]) = [n \in 1 .. lines[c] |-> n]

\* Lines 35-58 and 99-108: a line a connected client has sent reaches the room,
\* also when another client never reads what is written to it, unless the
\* client leaves.
LinesReachRoom ==
  \A c \in Clients :
    inbox[c] # <<>> ~> inbox[c] = <<>> \/ peer[c] = "gone" \/ ~ running

\* Lines 48-55: a client that has left leaves the room, and its Session ends.
LeaversLeave ==
  \A c \in Clients :
    peer[c] = "gone" ~> (c \notin participants /\ session[c] = "closed") \/ ~ running
=============================================================================
