----------------------------- MODULE ServersProofs -----------------------------
(***************************************************************************)
(* Proofs about Servers, for any connections, descriptors, buffers, paths  *)
(* and files: every echo is exact, nobody is closed who is still there,    *)
(* and every connection is answered what had arrived of its own request.   *)
(***************************************************************************)
EXTENDS Servers, SubsequencesProofs, SequenceTheorems, FiniteSetTheorems

\* What a server may have to send: an echo, or a part of a response.
Asked == Paths \cup {Root, Index, NoPath}
           \cup UNION {Prefixes(path) : path \in Paths \cup {NoPath}}
Headers == {[status |-> 404, mime |-> "text/plain"]} \cup
           {[status |-> 200, mime |-> getMimeType(path), length |-> n] :
              path \in Asked, n \in Nat}
Bodies == {[body |-> path, piece |-> n] : path \in Asked, n \in Nat}
Wire == Pieces \cup Headers \cup Bodies

KernelTyped ==
  /\ kind \in EchoKinds \cup {"http"} /\ limit \in 1 .. NumFds /\ alive \in BOOLEAN
  /\ backlog \in Seq(Conns)
  /\ sock \in [Fds -> Conns \cup {NoConn}]
  /\ peer \in [Conns -> {"away", "open", "gone"}]
  /\ sent \in [Conns -> 0 .. MaxSent]
  /\ inq \in [Conns -> Seq(Pieces)] /\ unread \in [Conns -> 0 .. SendBuffer]
  /\ heard \in [Conns -> Seq(Wire)] /\ hand \in [Fds -> Seq(Wire)]
  /\ closed \subseteq Conns /\ full \subseteq Conns

LoopTyped ==
  /\ at \in {"wait", "accept", "visit", "ended"}
  /\ table \in Seq(Fds \cup {Listener}) /\ ready \subseteq Fds \cup {Listener}
  /\ i \in Nat \ {0} /\ disconnected \subseteq Fds

HttpTyped ==
  /\ want \in [Conns -> Paths \cup {NoPath}] /\ phase \in [Fds -> {"recv", "send", "close"}]

\* A connection is away, waits for accept, has one descriptor or is closed, and
\* before it has a descriptor nothing was sent to it.
Waiting(c) == c \in Elements(backlog)
Has(fd, c) == sock[fd] = c
ConnsRight ==
  /\ \A c \in Conns : peer[c] = "away" =>
       sent[c] = 0 /\ inq[c] = <<>> /\ ~ Waiting(c) /\ c \notin closed
         /\ \A fd \in Fds : ~ Has(fd, c)
  /\ \A c \in Conns : Waiting(c) => c \notin closed /\ \A fd \in Fds : ~ Has(fd, c)
  /\ \A c \in closed : \A fd \in Fds : ~ Has(fd, c)
  /\ \A fd, other \in Fds : sock[fd] = sock[other] /\ sock[fd] # NoConn => fd = other
  /\ Distinct(backlog)
  /\ \A fd \in Fds : sock[fd] = NoConn => hand[fd] = <<>>

\* What a client sent that the server has not been asked to accept.
AllOf(c) == [n \in 1 .. sent[c] |-> <<c, n>>]

Untouched ==
  \A c \in Conns : c \notin closed /\ (\A fd \in Fds : ~ Has(fd, c)) =>
    heard[c] = <<>> /\ inq[c] = AllOf(c)

\* The echo, by descriptor.
Owes(c) == peer[c] = "open" /\ (kind = "epoll" => c \notin full)
EchoRight ==
  kind # "http" =>
    /\ \A c \in closed : peer[c] = "gone"
    /\ \A fd \in Fds : \A c \in Conns : Has(fd, c) /\ Owes(c) =>
         heard[c] \o (hand[fd] \o inq[c]) = AllOf(c)

\* The tables.  An event that epoll has reported is still there, and so is the
\* connection that select, poll or epoll saw at the listener until it is accepted.
TablesRight ==
  /\ kind \in {"threads", "once", "http"} => table = <<>>
  /\ kind \in {"threads", "http"} => at = "wait"
  /\ kind \in {"select", "poll", "epoll"} =>
       /\ table # <<>> /\ table[1] = Listener /\ Distinct(table)
       /\ Elements(table) = OpenFds \cup {Listener} \cup disconnected
       /\ at # "ended"
  /\ OpenFds \cap disconnected = {}
  /\ kind # "select" \/ at # "visit" => disconnected = {}
  /\ kind = "select" /\ at = "visit" => i >= 2
  /\ kind = "select" /\ at = "accept" /\ Listener \in ready => backlog # <<>>
  /\ kind \in {"poll", "epoll"} /\ Listener \in ready => backlog # <<>>

EventsRight ==
  kind = "epoll" => \A fd \in ready \ {Listener} :
    sock[fd] # NoConn /\ (inq[sock[fd]] = <<>> => peer[sock[fd]] = "gone")

\* The response, by descriptor: it is to a path that was found in what had arrived
\* of the request.
Answer(c, fd, path) ==
  LET response == handle(path) IN
    /\ phase[fd] = "send" => hand[fd] # <<>>
    /\ phase[fd] = "send" /\ peer[c] = "open" => heard[c] \o hand[fd] = response
    /\ phase[fd] = "close" /\ peer[c] = "open" => heard[c] = response
    /\ IsPrefix(heard[c], response)
ResponsesRight ==
  kind = "http" =>
    /\ \A fd \in Fds :
         /\ sock[fd] = NoConn => phase[fd] = "recv"
         /\ phase[fd] # "send" => hand[fd] = <<>>
    /\ \A fd \in Fds : \A c \in Conns : Has(fd, c) =>
         /\ phase[fd] = "recv" => heard[c] = <<>> /\ inq[c] = AllOf(c)
         /\ phase[fd] # "recv" =>
              \E path \in parsed(Arrived(c), want[c]) : Answer(c, fd, path)
    /\ OwnResponse

ServersInv == /\ KernelTyped /\ LoopTyped /\ HttpTyped /\ ConnsRight /\ Untouched
              /\ EchoRight /\ TablesRight /\ EventsRight /\ ResponsesRight

-----------------------------------------------------------------------------
(* Sequences                                                               *)

\* A sequence is its first n elements and the rest.
LEMMA SplitSeq ==
  ASSUME NEW X, NEW s \in Seq(X), NEW n \in 0 .. Len(s)
  PROVE  /\ SubSeq(s, 1, n) \in Seq(X) /\ SubSeq(s, n + 1, Len(s)) \in Seq(X)
         /\ Len(SubSeq(s, 1, n)) = n
         /\ SubSeq(s, 1, n) \o SubSeq(s, n + 1, Len(s)) = s
         /\ n = Len(s) => SubSeq(s, n + 1, Len(s)) = <<>>
         /\ n = 0 => SubSeq(s, n + 1, Len(s)) = s /\ SubSeq(s, 1, n) = <<>>
<1>1. Len(s) \in Nat /\ \A k \in 1 .. Len(s) : s[k] \in X
  OBVIOUS
<1>2. SubSeq(s, 1, n) \in Seq(X) /\ Len(SubSeq(s, 1, n)) = n
  BY <1>1, SubSeqProperties
<1>3. SubSeq(s, n + 1, Len(s)) \in Seq(X)
  BY <1>1, SubSeqProperties
<1>4. SubSeq(s, 1, n) \o SubSeq(s, n + 1, Len(s)) = s
  <2>1. SubSeq(s, 1, n) \o SubSeq(s, n + 1, Len(s)) = SubSeq(s, 1, Len(s))
    <3>1. 1 \in 1 .. Len(s) + 1 /\ n \in 1 - 1 .. Len(s) /\ Len(s) \in n .. Len(s)
      BY <1>1
    <3> QED
      BY <3>1, ConcatAdjacentSubSeq, Zenon
  <2> QED
    BY <2>1, SubSeqFull
<1>5. n = Len(s) => SubSeq(s, n + 1, Len(s)) = <<>>
  BY <1>1, SubSeqEmpty
<1>6. n = 0 => SubSeq(s, n + 1, Len(s)) = s /\ SubSeq(s, 1, n) = <<>>
  BY <1>1, SubSeqEmpty, SubSeqFull
<1> QED
  BY <1>2, <1>3, <1>4, <1>5, <1>6

AssociativeOn(X) == \A a, b, c \in Seq(X) : (a \o b) \o c = a \o (b \o c)

LEMMA Associative == \A X : AssociativeOn(X)
<1> SUFFICES ASSUME NEW X, NEW a \in Seq(X), NEW b \in Seq(X), NEW c \in Seq(X)
             PROVE  (a \o b) \o c = a \o (b \o c)
  BY Zenon DEF AssociativeOn
<1> QED
  BY ConcatAssociative, SMTT(60)

\* Moving the first elements of one sequence to the end of the one before it.
LEMMA MoveSeq ==
  ASSUME NEW X, NEW a \in Seq(X), NEW s \in Seq(X), NEW n \in 0 .. Len(s)
  PROVE  (a \o SubSeq(s, 1, n)) \o SubSeq(s, n + 1, Len(s)) = a \o s
<1>1. SubSeq(s, 1, n) \in Seq(X) /\ SubSeq(s, n + 1, Len(s)) \in Seq(X)
  BY SplitSeq
<1>2. SubSeq(s, 1, n) \o SubSeq(s, n + 1, Len(s)) = s
  BY SplitSeq
<1>3. AssociativeOn(X)
  BY Associative, Zenon
<1>4. (a \o SubSeq(s, 1, n)) \o SubSeq(s, n + 1, Len(s))
        = a \o (SubSeq(s, 1, n) \o SubSeq(s, n + 1, Len(s)))
  BY <1>1, <1>3, ZenonT(60) DEF AssociativeOn
<1> QED
  BY <1>2, <1>4, Zenon

LEMMA ConcatAppend ==
  ASSUME NEW X, NEW a \in Seq(X), NEW s \in Seq(X), NEW e \in X
  PROVE  a \o Append(s, e) = Append(a \o s, e)
<1>1. a \o s \in Seq(X) /\ <<e>> \in Seq(X)
  OBVIOUS
<1>2. Append(s, e) = s \o <<e>> /\ Append(a \o s, e) = (a \o s) \o <<e>>
  BY <1>1, AppendIsConcat
<1>3. AssociativeOn(X)
  BY Associative, Zenon
<1>4. (a \o s) \o <<e>> = a \o (s \o <<e>>)
  BY <1>1, <1>3, ZenonT(60) DEF AssociativeOn
<1> QED
  BY <1>2, <1>4, Zenon

LEMMA TailElements ==
  ASSUME NEW X, NEW s \in Seq(X), s # <<>>
  PROVE  /\ Head(s) \in X /\ Tail(s) \in Seq(X) /\ Head(s) \in Elements(s)
         /\ Elements(Tail(s)) \subseteq Elements(s)
         /\ Distinct(s) => Distinct(Tail(s)) /\ Head(s) \notin Elements(Tail(s))
<1>1. /\ Len(s) \in Nat \ {0} /\ Head(s) = s[1] /\ Head(s) \in X /\ Tail(s) \in Seq(X)
      /\ Len(Tail(s)) = Len(s) - 1
      /\ \A k \in 1 .. Len(s) - 1 : Tail(s)[k] = s[k + 1] /\ k + 1 \in 1 .. Len(s)
                                    /\ k + 1 # 1
      /\ 1 \in 1 .. Len(s)
  BY HeadTailProperties
<1>2. Elements(Tail(s)) \subseteq Elements(s) /\ Head(s) \in Elements(s)
  BY <1>1 DEF Elements
<1>3. ASSUME Distinct(s) PROVE Distinct(Tail(s)) /\ Head(s) \notin Elements(Tail(s))
  <2>1. \A k, j \in 1 .. Len(s) - 1 : s[k + 1] = s[j + 1] => k = j
    BY <1>1, <1>3 DEF Distinct
  <2> QED
    BY <1>1, <1>3, <2>1 DEF Distinct, Elements
<1> QED
  BY <1>1, <1>2, <1>3

\* A prefix of a prefix; a prefix and its rest.
LEMMA PrefixOfConcat ==
  ASSUME NEW X, NEW a \in Seq(X), NEW b \in Seq(X)
  PROVE  IsPrefix(a, a \o b) /\ IsPrefix(a, a) /\ IsPrefix(<<>>, a)
<1>1. /\ a \o b \in Seq(X) /\ Len(a) \in Nat /\ Len(b) \in Nat
      /\ Len(a \o b) = Len(a) + Len(b)
      /\ \A k \in 1 .. Len(a) : (a \o b)[k] = a[k]
  BY ConcatProperties
<1>2. /\ SubSeq(a, 1, Len(a)) = a /\ SubSeq(a, 1, 0) = <<>> /\ SubSeq(<<>>, 1, 0) = <<>>
      /\ Len(<<>>) = 0
  BY SubSeqFull, SubSeqEmpty
<1>3. SubSeq(a \o b, 1, Len(a)) = a
  <2> DEFINE r == SubSeq(a \o b, 1, Len(a))
  <2>1. r \in Seq(X) /\ Len(r) = Len(a) /\ \A k \in 1 .. Len(a) : r[k] = a[k]
    BY <1>1, SubSeqProperties
  <2> HIDE DEF r
  <2> QED
    BY <1>1, <2>1, SeqEqual DEF r
<1> QED
  BY <1>1, <1>2, <1>3 DEF IsPrefix

LEMMA PrefixOfPrefix ==
  ASSUME NEW X, NEW a \in Seq(X), NEW b \in Seq(X), IsPrefix(a, b), NEW m \in Int,
         m <= Len(a)
  PROVE  SubSeq(a, 1, m) \in Seq(X) /\ IsPrefix(SubSeq(a, 1, m), b)
<1>1. /\ Len(a) \in Nat /\ Len(b) \in Nat /\ Len(a) <= Len(b)
      /\ SubSeq(a, 1, Len(a)) = a /\ SubSeq(b, 1, Len(a)) = a
  BY SubSeqFull DEF IsPrefix
<1>2. CASE m <= 0
  <2>1. SubSeq(a, 1, m) = <<>> /\ <<>> \in Seq(X)
    BY <1>2, SubSeqEmpty
  <2> QED
    BY <2>1, PrefixOfConcat
<1>3. CASE m > 0
  <2> DEFINE p == SubSeq(a, 1, m)
             q == SubSeq(b, 1, m)
             r == SubSeq(b, 1, Len(a))
  <2>1. p \in Seq(X) /\ Len(p) = m /\ \A k \in 1 .. m : p[k] = a[k]
    BY <1>1, <1>3, SubSeqProperties
  <2>2. q \in Seq(X) /\ Len(q) = m /\ \A k \in 1 .. m : q[k] = b[k]
    BY <1>1, <1>3, SubSeqProperties
  <2>3. \A k \in 1 .. Len(a) : r[k] = b[k]
    BY <1>1, SubSeqProperties
  <2>4. \A k \in 1 .. m : a[k] = b[k]
    BY <1>1, <1>3, <2>3
  <2> HIDE DEF p, q, r
  <2>5. p = q
    BY <2>1, <2>2, <2>4, SeqEqual
  <2>6. SubSeq(p, 1, Len(p)) = p /\ m <= Len(b)
    BY <1>1, <2>1, SubSeqFull
  <2> QED
    BY <2>1, <2>5, <2>6 DEF IsPrefix, p, q
<1> QED
  BY <1>2, <1>3

-----------------------------------------------------------------------------
(* The kernel's steps                                                      *)

KernelInv == KernelTyped /\ ConnsRight /\ Untouched /\ EchoRight

USE DEF kernel, socketVars, loop, httpVars, vars, Has, Waiting

LEMMA Kinds ==
  /\ EchoKinds = {"select", "poll", "epoll", "threads", "once"}
  /\ Listener = 0 /\ Listener \notin Fds /\ \A fd \in Fds : fd \in Nat \ {0}
  /\ NumFds \in Nat /\ RecvSize \in Nat /\ SendBuffer \in Nat /\ MaxSent \in Nat
  /\ NoConn \notin Conns
BY SocketsAssumption DEF EchoKinds, Listener, Fds

LEMMA AllOfTyped ==
  ASSUME KernelTyped, NEW c \in Conns
  PROVE  /\ AllOf(c) \in Seq(Pieces) /\ Len(AllOf(c)) = sent[c]
         /\ \A n \in 1 .. sent[c] : AllOf(c)[n] = <<c, n>>
         /\ Pieces \subseteq Wire /\ Seq(Pieces) \subseteq Seq(Wire)
<1>1. sent[c] \in Nat /\ sent[c] <= MaxSent
  BY Kinds DEF KernelTyped
<1>2. \A n \in 1 .. sent[c] : <<c, n>> \in Pieces
  <2>1. \A n \in 1 .. sent[c] : n \in 1 .. MaxSent
    BY <1>1, Kinds
  <2> QED
    BY <2>1, Zenon DEF Pieces
<1>3. Pieces \subseteq Wire
  BY DEF Wire
<1> QED
  BY <1>1, <1>2, <1>3, SeqMonotonic DEF AllOf

LEMMA KernelStutters == KernelInv /\ UNCHANGED socketVars => KernelInv'
<1> SUFFICES ASSUME KernelInv, UNCHANGED socketVars PROVE KernelInv'
  OBVIOUS
<1>1. KernelTyped' /\ ConnsRight'
  BY DEF KernelInv, KernelTyped, ConnsRight
<1>2. \A c : AllOf(c)' = AllOf(c) /\ (Owes(c)' <=> Owes(c))
  BY DEF AllOf, Owes
<1>3. Untouched' /\ EchoRight'
  BY <1>2 DEF KernelInv, Untouched, EchoRight
<1> QED
  BY <1>1, <1>3 DEF KernelInv

\* accept: the connection that has waited longest gets a descriptor that is free.
LEMMA AcceptKeeps ==
  ASSUME KernelInv, NEW fd \in Fds, AcceptAs(fd), backlog # <<>>
  PROVE  /\ KernelInv' /\ Head(backlog) \in Conns
         /\ fd \notin OpenFds /\ OpenFds' = OpenFds \cup {fd}
<1> DEFINE c == Head(backlog)
<1>1. /\ c \in Conns /\ backlog' \in Seq(Conns) /\ Waiting(c)
      /\ Elements(backlog') \subseteq Elements(backlog)
      /\ Distinct(backlog') /\ c \notin Elements(backlog')
  BY TailElements DEF KernelInv, KernelTyped, ConnsRight, AcceptAs
<1>2. /\ sock' = [sock EXCEPT ![fd] = c]
      /\ UNCHANGED <<kind, limit, alive, peer, sent, inq, unread, heard, closed, full, hand>>
  BY DEF AcceptAs
<1> HIDE DEF c
<1>3. KernelTyped'
  BY <1>1, <1>2 DEF KernelInv, KernelTyped, Pieces, Wire
<1>4. sock[fd] = NoConn
  BY DEF AcceptAs, FreeFds, OpenFds
<1>5. /\ \A f \in Fds : sock'[f] = IF f = fd THEN c ELSE sock[f]
      /\ \A f \in Fds : sock[f] # c
      /\ c # NoConn /\ c \notin closed
  BY <1>1, <1>2, Kinds DEF KernelInv, KernelTyped, ConnsRight
<1>6. fd \notin OpenFds /\ OpenFds' = OpenFds \cup {fd}
  BY <1>4, <1>5 DEF OpenFds
<1>7. ConnsRight'
  <2>1. \A d \in Conns : Waiting(d)' => Waiting(d) /\ d # c
    BY <1>1
  <2>2. peer[c] # "away"
    BY <1>1 DEF KernelInv, ConnsRight
  <2> QED
    BY <1>1, <1>2, <1>5, <2>1, <2>2 DEF KernelInv, ConnsRight
<1>8. Untouched'
  <2>1. \A d \in Conns : (\A f \in Fds : sock'[f] # d) => \A f \in Fds : sock[f] # d
    BY <1>4, <1>5, Kinds
  <2> QED
    BY <1>2, <2>1 DEF KernelInv, Untouched, AllOf
<1>9. EchoRight'
  <2> SUFFICES ASSUME kind # "http"
               PROVE  /\ \A d \in closed : peer[d] = "gone"
                      /\ \A f \in Fds : \A d \in Conns : sock'[f] = d /\ Owes(d) =>
                           heard[d] \o (hand[f] \o inq[d]) = AllOf(d)
    BY <1>2 DEF EchoRight, AllOf, Owes
  <2>1. heard[c] = <<>> /\ hand[fd] = <<>> /\ inq[c] = AllOf(c)
    BY <1>1, <1>4, <1>5 DEF KernelInv, ConnsRight, Untouched
  <2>2. heard[c] \o (hand[fd] \o inq[c]) = AllOf(c)
    <3>1. AllOf(c) \in Seq(Pieces)
      BY <1>1, AllOfTyped DEF KernelInv
    <3>2. <<>> \o AllOf(c) = AllOf(c)
      BY <3>1, ConcatEmptySeq
    <3> QED
      BY <2>1, <3>2
  <2> QED
    BY <1>5, <2>2 DEF KernelInv, EchoRight
<1> QED
  BY <1>1, <1>3, <1>6, <1>7, <1>8, <1>9 DEF KernelInv, c

\* recv takes from what the client sent; what it returns came first.
LEMMA ReceivedIs ==
  ASSUME KernelTyped, NEW fd \in Fds, NEW pieces \in Received(fd), Recv(fd, pieces)
  PROVE  LET c == sock[fd] IN
         \E n \in 1 .. Len(inq[c]) :
           /\ c \in Conns /\ n <= RecvSize
           /\ pieces = SubSeq(inq[c], 1, n) /\ Len(pieces) = n
           /\ pieces \in Seq(Pieces) /\ pieces # <<>>
           /\ inq'[c] = SubSeq(inq[c], n + 1, Len(inq[c])) /\ inq'[c] \in Seq(Pieces)
           /\ inq' = [inq EXCEPT ![c] = inq'[c]]
           /\ inq[c] # <<>>
<1> DEFINE c == sock[fd]
<1>1. c \in Conns /\ inq[c] \in Seq(Pieces) /\ Len(inq[c]) \in Nat
  BY DEF KernelTyped, Recv
<1>2. PICK n \in 1 .. RecvSize : n <= Len(inq[c]) /\ pieces = SubSeq(inq[c], 1, n)
  BY DEF Received
<1>3. n \in 1 .. Len(inq[c]) /\ n <= RecvSize
  BY <1>1, <1>2, Kinds
<1>4. n \in 0 .. Len(inq[c]) /\ n # 0 /\ inq[c] # <<>>
  BY <1>1, <1>3
<1>5. /\ pieces \in Seq(Pieces) /\ Len(pieces) = n
      /\ SubSeq(inq[c], n + 1, Len(inq[c])) \in Seq(Pieces)
  BY <1>1, <1>2, <1>4, SplitSeq
<1>6. /\ inq' = [inq EXCEPT ![c] = SubSeq(@, Len(pieces) + 1, Len(@))]
      /\ inq \in [Conns -> Seq(Pieces)] /\ pieces # <<>>
  BY DEF Recv, KernelTyped
<1>7. inq'[c] = SubSeq(inq[c], n + 1, Len(inq[c])) /\ inq' = [inq EXCEPT ![c] = inq'[c]]
  BY <1>1, <1>5, <1>6
<1> HIDE DEF c
<1> QED
  BY <1>1, <1>2, <1>3, <1>4, <1>5, <1>6, <1>7, Zenon DEF c

\* recv for an echo: what was received is in hand.
LEMMA EchoKeeps ==
  ASSUME KernelInv, kind # "http", NEW fd \in Fds, hand[fd] = <<>>, Echo(fd)
  PROVE  KernelInv' /\ inq[sock[fd]] # <<>>
<1> DEFINE c == sock[fd]
<1>1. PICK pieces \in Received(fd) : Recv(fd, pieces) /\ hand' = [hand EXCEPT ![fd] = pieces]
  BY DEF Echo
<1>2. UNCHANGED <<kind, limit, alive, backlog, sock, peer, sent, unread, heard, closed, full>>
  BY <1>1 DEF Recv
<1>3. PICK n \in 1 .. Len(inq[c]) :
           /\ c \in Conns /\ n <= RecvSize
           /\ pieces = SubSeq(inq[c], 1, n) /\ Len(pieces) = n
           /\ pieces \in Seq(Pieces) /\ pieces # <<>>
           /\ inq'[c] = SubSeq(inq[c], n + 1, Len(inq[c])) /\ inq'[c] \in Seq(Pieces)
           /\ inq' = [inq EXCEPT ![c] = inq'[c]]
           /\ inq[c] # <<>>
  BY <1>1, ReceivedIs DEF KernelInv
<1> DEFINE rest == inq'[c]
<1>4. pieces \in Seq(Wire) /\ inq[c] \in Seq(Pieces)
  BY <1>3, AllOfTyped DEF KernelInv, KernelTyped
<1> HIDE DEF c, rest
<1>5. /\ \A f \in Fds : hand'[f] = IF f = fd THEN pieces ELSE hand[f]
      /\ \A d \in Conns : inq'[d] = IF d = c THEN rest ELSE inq[d]
      /\ rest \in Seq(Pieces)
  <2>1. inq' = [inq EXCEPT ![c] = rest] /\ rest \in Seq(Pieces)
    BY <1>3 DEF rest
  <2> QED
    BY <1>1, <2>1 DEF KernelInv, KernelTyped
<1>6. KernelTyped'
  <2>1. hand' \in [Fds -> Seq(Wire)]
    BY <1>1, <1>4 DEF KernelInv, KernelTyped
  <2>2. inq' \in [Conns -> Seq(Pieces)]
    BY <1>3 DEF KernelInv, KernelTyped
  <2> QED
    BY <1>2, <2>1, <2>2 DEF KernelInv, KernelTyped
<1>7. sock[fd] = c /\ c # NoConn
  BY <1>3, Kinds DEF c
<1>8. ConnsRight'
  <2>1. peer[c] # "away"
    BY <1>3, <1>7 DEF KernelInv, ConnsRight
  <2> QED
    BY <1>2, <1>5, <1>7, <2>1 DEF KernelInv, ConnsRight
<1>9. Untouched'
  BY <1>2, <1>5, <1>7 DEF KernelInv, Untouched, AllOf
<1>10. EchoRight'
  <2>1. \A d : AllOf(d)' = AllOf(d) /\ (Owes(d)' <=> Owes(d))
    BY <1>2 DEF AllOf, Owes
  <2>2. pieces \o rest = inq[c]
    <3>1. n \in 0 .. Len(inq[c]) /\ Len(inq[c]) \in Nat
      BY <1>4
    <3>2. SubSeq(inq[c], 1, n) \o SubSeq(inq[c], n + 1, Len(inq[c])) = inq[c]
      BY <1>4, <3>1, SplitSeq
    <3> QED
      BY <1>3, <3>2 DEF rest
  <2>3. <<>> \o inq[c] = inq[c]
    BY <1>4, ConcatEmptySeq
  <2>4. ASSUME NEW f \in Fds, NEW d \in Conns, sock[f] = d, Owes(d)
        PROVE  heard[d] \o (hand'[f] \o inq'[d]) = AllOf(d)
    <3>1. heard[d] \o (hand[f] \o inq[d]) = AllOf(d)
      BY <2>4 DEF KernelInv, EchoRight
    <3>2. CASE f = fd
      BY <1>5, <1>7, <2>2, <2>3, <2>4, <3>1, <3>2
    <3>3. CASE f # fd
      BY <1>5, <1>7, <2>4, <3>1, <3>3 DEF KernelInv, ConnsRight
    <3> QED
      BY <3>2, <3>3
  <2> QED
    BY <1>2, <2>1, <2>4 DEF KernelInv, EchoRight
<1> QED
  BY <1>3, <1>6, <1>8, <1>9, <1>10 DEF KernelInv, c

\* send, if it waits for room, moves what it sends and loses nothing.
SendsAll(fd, c) ==
  /\ heard'[c] \o hand'[fd] = heard[c] \o hand[fd]
  /\ \A later \in Seq(Wire) :
       heard'[c] \o (hand'[fd] \o later) = heard[c] \o (hand[fd] \o later)

LEMMA SendIs ==
  ASSUME KernelInv, NEW fd \in Fds, NEW nonblocking \in BOOLEAN, Send(fd, nonblocking)
  PROVE  LET c == sock[fd] IN
         /\ c \in Conns /\ heard'[c] \in Seq(Wire) /\ hand'[fd] \in Seq(Wire)
         /\ hand' = [hand EXCEPT ![fd] = hand'[fd]]
         /\ heard' = [heard EXCEPT ![c] = heard'[c]]
         /\ unread' \in [Conns -> 0 .. SendBuffer] /\ alive' \in BOOLEAN
         /\ \/ peer[c] = "gone" /\ UNCHANGED <<heard, full>>
            \/ peer[c] = "open" /\ full' \in {full, full \cup {c}}
         /\ peer[c] = "open" /\ (nonblocking => c \notin full') => SendsAll(fd, c)
<1> DEFINE c == sock[fd]
           h == hand[fd]
           a == heard[c]
<1>1. c \in Conns /\ h \in Seq(Wire) /\ h # <<>>
  BY DEF Send, KernelInv, KernelTyped, ConnsRight
<1>2. a \in Seq(Wire) /\ unread[c] \in Nat /\ unread[c] <= SendBuffer /\ Len(h) \in Nat
      /\ SendBuffer \in Nat
  BY <1>1, Kinds DEF KernelInv, KernelTyped
<1>3. CASE /\ peer[c] = "gone" /\ alive' \in BOOLEAN
           /\ hand' = [hand EXCEPT ![fd] = <<>>]
           /\ UNCHANGED <<unread, heard, full>>
  <2>1. hand'[fd] = <<>> /\ <<>> \in Seq(Wire) /\ heard' = [heard EXCEPT ![c] = heard'[c]]
        /\ heard'[c] \in Seq(Wire)
    BY <1>1, <1>2, <1>3 DEF KernelInv, KernelTyped
  <2> QED
    BY <1>1, <1>3, <2>1 DEF KernelInv, KernelTyped
<1> DEFINE room == SendBuffer - unread[c]
           n == IF Len(h) <= room THEN Len(h) ELSE room
<1>4. CASE /\ peer[c] = "open" /\ (n > 0 \/ nonblocking)
           /\ heard' = [heard EXCEPT ![c] = @ \o SubSeq(h, 1, n)]
           /\ unread' = [unread EXCEPT ![c] = @ + n]
           /\ full' = IF n < Len(h) THEN full \cup {c} ELSE full
           /\ hand' = [hand EXCEPT ![fd] = IF nonblocking THEN <<>>
                                           ELSE SubSeq(@, n + 1, Len(@))]
           /\ UNCHANGED alive
  <2>1. n \in 0 .. Len(h) /\ unread[c] + n \in 0 .. SendBuffer
    BY <1>2, SMTT(30)
  <2> DEFINE first == SubSeq(h, 1, n)
             rest == SubSeq(h, n + 1, Len(h))
  <2>2. /\ first \in Seq(Wire) /\ rest \in Seq(Wire)
        /\ (n = Len(h) => rest = <<>>)
    BY <1>1, <2>1, SplitSeq
  <2>3. /\ (a \o first) \o rest = a \o h
        /\ \A later \in Seq(Wire) : (a \o first) \o (rest \o later) = a \o (h \o later)
    <3>1. /\ first \o rest = h
          /\ (a \o first) \o rest = a \o h
      <4> HIDE DEF n, h, a
      <4>1. first \o rest = h
        BY <1>1, <2>1, SplitSeq
      <4>2. (a \o first) \o rest = a \o h
        BY <1>1, <1>2, <2>1, MoveSeq
      <4> QED
        BY <4>1, <4>2
    <3> HIDE DEF first, rest, n, h, a
    <3>2. ASSUME NEW later \in Seq(Wire)
          PROVE  (a \o first) \o (rest \o later) = a \o (h \o later)
      <4>1. AssociativeOn(Wire)
        BY Associative, Zenon
      <4>2. a \in Seq(Wire) /\ h \in Seq(Wire) /\ rest \in Seq(Wire) /\ first \in Seq(Wire)
        BY <1>1, <1>2, <2>2
      <4>3. a \o first \in Seq(Wire)
        BY <4>2
      <4>4. ((a \o first) \o rest) \o later = (a \o first) \o (rest \o later)
        BY <4>1, <4>2, <4>3, ZenonT(60) DEF AssociativeOn
      <4>5. (a \o h) \o later = a \o (h \o later)
        BY <4>1, <4>2, ZenonT(60) DEF AssociativeOn
      <4> QED
        BY <3>1, <4>4, <4>5, Zenon
    <3> QED
      BY <3>1, <3>2
  <2>4. a \o first \in Seq(Wire)
    BY <1>2, <2>2, ConcatProperties
  <2>5. unread' \in [Conns -> 0 .. SendBuffer]
    <3> HIDE DEF n
    <3> QED
      BY <1>1, <1>4, <2>1 DEF KernelInv, KernelTyped
  <2>6. ~ n < Len(h) => n = Len(h)
    BY <2>1, <1>2
  <2> HIDE DEF n, rest, first
  <2>7. /\ heard'[c] = a \o first /\ heard' = [heard EXCEPT ![c] = heard'[c]]
        /\ hand'[fd] = (IF nonblocking THEN <<>> ELSE rest)
        /\ hand' = [hand EXCEPT ![fd] = hand'[fd]]
        /\ <<>> \in Seq(Wire)
    <3>1. heard' = [heard EXCEPT ![c] = a \o first]
      BY <1>4, Zenon DEF first
    <3>2. hand' = [hand EXCEPT ![fd] = IF nonblocking THEN <<>> ELSE rest]
      BY <1>4, Zenon DEF rest
    <3>3. c \in DOMAIN heard /\ fd \in DOMAIN hand
      BY <1>1 DEF KernelInv, KernelTyped
    <3> DEFINE e == a \o first
               g == IF nonblocking THEN <<>> ELSE rest
    <3> HIDE DEF a, h, c, e, g
    <3>4. heard'[c] = e /\ hand'[fd] = g
      BY <3>1, <3>2, <3>3 DEF e, g
    <3>5. heard' = [heard EXCEPT ![c] = e] /\ hand' = [hand EXCEPT ![fd] = g]
      BY <3>1, <3>2, Zenon DEF e, g
    <3>6. <<>> \in Seq(Wire)
      OBVIOUS
    <3> QED
      BY <3>4, <3>5, <3>6, Zenon DEF e, g
  <2>8. ASSUME nonblocking => c \notin full' PROVE hand'[fd] = rest
    BY <1>4, <2>2, <2>6, <2>7, <2>8
  <2>9. ASSUME nonblocking => c \notin full' PROVE SendsAll(fd, c)
    BY <2>3, <2>7, <2>8, <2>9 DEF SendsAll
  <2> HIDE DEF a, h, c
  <2>10. heard'[c] \in Seq(Wire) /\ hand'[fd] \in Seq(Wire) /\ full' \in {full, full \cup {c}}
         /\ alive' \in BOOLEAN
    BY <1>4, <2>2, <2>4, <2>7 DEF KernelInv, KernelTyped
  <2> QED
    BY <1>1, <1>4, <2>5, <2>7, <2>9, <2>10 DEF c
<1>5. QED
  BY <1>3, <1>4 DEF Send

LEMMA SendKeeps ==
  ASSUME KernelInv, NEW fd \in Fds, NEW nonblocking \in BOOLEAN, Send(fd, nonblocking),
         nonblocking => kind = "epoll"
  PROVE  KernelInv'
<1> DEFINE c == sock[fd]
<1>1. /\ c \in Conns /\ heard'[c] \in Seq(Wire) /\ hand'[fd] \in Seq(Wire)
      /\ hand' = [hand EXCEPT ![fd] = hand'[fd]]
      /\ heard' = [heard EXCEPT ![c] = heard'[c]]
      /\ unread' \in [Conns -> 0 .. SendBuffer] /\ alive' \in BOOLEAN
      /\ \/ peer[c] = "gone" /\ UNCHANGED <<heard, full>>
         \/ peer[c] = "open" /\ full' \in {full, full \cup {c}}
      /\ peer[c] = "open" /\ (nonblocking => c \notin full') => SendsAll(fd, c)
  BY SendIs
<1>2. UNCHANGED <<kind, limit, backlog, sock, peer, sent, inq, closed>>
  BY DEF Send
<1>3. sock[fd] = c /\ c # NoConn
  BY <1>1, Kinds DEF c
<1> HIDE DEF c
<1> DEFINE heardC == heard'[c]
           handF == hand'[fd]
<1>4. /\ \A d \in Conns : heard'[d] = IF d = c THEN heardC ELSE heard[d]
      /\ \A f \in Fds : hand'[f] = IF f = fd THEN handF ELSE hand[f]
      /\ heard' = [heard EXCEPT ![c] = heardC] /\ hand' = [hand EXCEPT ![fd] = handF]
      /\ heardC \in Seq(Wire) /\ handF \in Seq(Wire)
  BY <1>1 DEF KernelInv, KernelTyped
<1>5. KernelTyped'
  <2>1. heard' \in [Conns -> Seq(Wire)] /\ hand' \in [Fds -> Seq(Wire)]
    <3> HIDE DEF heardC, handF
    <3> QED
      BY <1>4 DEF KernelInv, KernelTyped
  <2> QED
    BY <1>1, <1>2, <2>1 DEF KernelInv, KernelTyped
<1>6. \A f \in Fds : sock[f] = c => f = fd
  BY <1>3 DEF KernelInv, ConnsRight
<1>7. ConnsRight'
  <2> HIDE DEF handF
  <2> QED
    BY <1>2, <1>3, <1>4 DEF KernelInv, ConnsRight
<1>8. Untouched'
  <2> HIDE DEF heardC
  <2> QED
    BY <1>2, <1>3, <1>4 DEF KernelInv, Untouched, AllOf
<1>9. EchoRight'
  <2> SUFFICES ASSUME kind # "http"
               PROVE  /\ \A d \in closed : peer[d] = "gone"
                      /\ \A f \in Fds : \A d \in Conns : sock[f] = d /\ Owes(d)' =>
                           heard'[d] \o (hand'[f] \o inq[d]) = AllOf(d)
    BY <1>2 DEF EchoRight, AllOf
  <2>1. ASSUME NEW f \in Fds, NEW d \in Conns, sock[f] = d, Owes(d)'
        PROVE  heard'[d] \o (hand'[f] \o inq[d]) = AllOf(d)
    <3>1. Owes(d)
      BY <1>1, <1>2, <2>1 DEF Owes
    <3>2. heard[d] \o (hand[f] \o inq[d]) = AllOf(d)
      BY <2>1, <3>1 DEF KernelInv, EchoRight
    <3>3. CASE f = fd
      <4>1. d = c /\ peer[c] = "open"
        BY <1>3, <2>1, <3>1, <3>3 DEF Owes
      <4>2. nonblocking => c \notin full'
        BY <1>2, <2>1, <4>1 DEF Owes
      <4>3. inq[d] \in Seq(Wire)
        <5>1. inq[d] \in Seq(Pieces) /\ Seq(Pieces) \subseteq Seq(Wire)
          BY AllOfTyped DEF KernelInv, KernelTyped
        <5> QED
          BY <5>1
      <4>4. SendsAll(fd, c)
        BY <1>1, <4>1, <4>2
      <4> QED
        BY <3>2, <3>3, <4>1, <4>3, <4>4, Zenon DEF SendsAll
    <3>4. CASE f # fd
      BY <1>4, <1>6, <2>1, <3>2, <3>4
    <3> QED
      BY <3>3, <3>4
  <2> QED
    BY <2>1 DEF KernelInv, EchoRight
<1> QED
  BY <1>5, <1>7, <1>8, <1>9 DEF KernelInv

\* A reset takes from the end of what the client has not read.
Truncated(c) ==
  /\ heard' \in [Conns -> Seq(Wire)] /\ unread' \in [Conns -> 0 .. SendBuffer]
  /\ \A d \in Conns : d # c => heard'[d] = heard[d]
  /\ \E m \in Int : m <= Len(heard[c]) /\ heard'[c] = SubSeq(heard[c], 1, m)

LEMMA ResetIs ==
  ASSUME KernelTyped, NEW c \in Conns, Reset(c)
  PROVE  Truncated(c)
<1>1. /\ heard[c] \in Seq(Wire) /\ Len(heard[c]) \in Nat /\ unread[c] \in 0 .. SendBuffer
      /\ heard \in [Conns -> Seq(Wire)] /\ unread \in [Conns -> 0 .. SendBuffer]
  BY DEF KernelTyped
<1> DEFINE m == Len(heard[c]) - unread[c]
           cut == SubSeq(heard[c], 1, m)
           S == Seq(Wire)
<1>2. m \in Int /\ m <= Len(heard[c])
  BY <1>1, Kinds
<1>3. cut \in S
  <2>1. IsPrefix(heard[c], heard[c])
    BY <1>1, PrefixOfConcat
  <2> QED
    BY <1>1, <1>2, <2>1, PrefixOfPrefix
<1>4. heard' = [heard EXCEPT ![c] = cut] /\ unread' = [unread EXCEPT ![c] = 0]
  BY Zenon DEF Reset
<1>5. heard \in [Conns -> S] /\ 0 \in 0 .. SendBuffer
  BY <1>1, Kinds
<1> HIDE DEF cut, S, m
<1>6. heard' \in [Conns -> S] /\ unread' \in [Conns -> 0 .. SendBuffer]
  BY <1>1, <1>3, <1>4, <1>5
<1>7. heard'[c] = cut /\ \A d \in Conns : d # c => heard'[d] = heard[d]
  BY <1>4, <1>5
<1> QED
  BY <1>2, <1>6, <1>7 DEF Truncated, S, cut

\* close: the connection is closed for good, and its descriptor free.
LEMMA CloseKeeps ==
  ASSUME KernelInv, NEW fd \in Fds, CloseFd(fd), sock[fd] # NoConn, hand[fd] = <<>>,
         kind # "http" => peer[sock[fd]] = "gone"
  PROVE  LET c == sock[fd] IN
         /\ KernelInv' /\ OpenFds' = OpenFds \ {fd} /\ c \in Conns
         /\ \A f \in Fds : sock'[f] = IF f = fd THEN NoConn ELSE sock[f]
         /\ \A d \in Conns : d # c => heard'[d] = heard[d]
         /\ \/ heard'[c] = heard[c]
            \/ inq[c] # <<>> /\ \E m \in Int : m <= Len(heard[c])
                                               /\ heard'[c] = SubSeq(heard[c], 1, m)
<1> DEFINE c == sock[fd]
<1>1. /\ c \in Conns /\ c # NoConn /\ sock' = [sock EXCEPT ![fd] = NoConn]
      /\ closed' = closed \cup {c}
      /\ UNCHANGED <<kind, limit, alive, backlog, peer, sent, inq, full, hand>>
  BY Kinds DEF KernelInv, KernelTyped, CloseFd
<1>3. sock[fd] = c
  OBVIOUS
<1>5. UNCHANGED <<unread, heard>> \/ (inq[c] # <<>> /\ Reset(c))
  BY <1>3, Zenon DEF CloseFd
<1> HIDE DEF c
<1>6. /\ \A d \in Conns : d # c => heard'[d] = heard[d]
      /\ \/ heard'[c] = heard[c]
         \/ inq[c] # <<>> /\ \E m \in Int : m <= Len(heard[c])
                                            /\ heard'[c] = SubSeq(heard[c], 1, m)
      /\ heard' \in [Conns -> Seq(Wire)] /\ unread' \in [Conns -> 0 .. SendBuffer]
  <2>1. CASE UNCHANGED <<unread, heard>>
    BY <2>1 DEF KernelInv, KernelTyped
  <2>2. CASE inq[c] # <<>> /\ Reset(c)
    BY <1>1, <2>2, ResetIs DEF KernelInv, Truncated
  <2> QED
    BY <1>5, <2>1, <2>2
<1>7. \A f \in Fds : sock'[f] = IF f = fd THEN NoConn ELSE sock[f]
  BY <1>1 DEF KernelInv, KernelTyped
<1>8. OpenFds' = OpenFds \ {fd}
  BY <1>7 DEF OpenFds
<1>9. KernelTyped'
  BY <1>1, <1>6 DEF KernelInv, KernelTyped
<1>10. \A f \in Fds : sock[f] = c => f = fd
  BY <1>1, <1>3 DEF KernelInv, ConnsRight
<1>11. ConnsRight'
  <2>1. peer[c] # "away" /\ ~ Waiting(c)
    BY <1>1, <1>3 DEF KernelInv, ConnsRight
  <2>2. \A f \in Fds : sock'[f] # c
    BY <1>1, <1>7, <1>10
  <2>3. \A f \in Fds : \A d \in Conns : sock'[f] = d => sock[f] = d
    BY <1>1, <1>7, Kinds
  <2>4. /\ \A d \in Conns : peer'[d] = "away" =>
             sent'[d] = 0 /\ inq'[d] = <<>> /\ ~ Waiting(d)' /\ d \notin closed'
               /\ \A f \in Fds : sock'[f] # d
        /\ \A d \in Conns : Waiting(d)' => d \notin closed' /\ \A f \in Fds : sock'[f] # d
    BY <1>1, <2>1, <2>3 DEF KernelInv, ConnsRight
  <2>5. \A d \in closed' : \A f \in Fds : sock'[f] # d
    BY <1>1, <2>2, <2>3 DEF KernelInv, ConnsRight, KernelTyped
  <2>6. \A f, other \in Fds : sock'[f] = sock'[other] /\ sock'[f] # NoConn => f = other
    BY <1>7 DEF KernelInv, ConnsRight
  <2>7. \A f \in Fds : sock'[f] = NoConn => hand'[f] = <<>>
    BY <1>1, <1>7 DEF KernelInv, ConnsRight
  <2> QED
    BY <1>1, <2>4, <2>5, <2>6, <2>7 DEF KernelInv, ConnsRight
<1>12. Untouched'
  <2>1. \A d \in Conns : d # c => ((\A f \in Fds : sock'[f] # d) => \A f \in Fds : sock[f] # d)
    BY <1>3, <1>7
  <2> QED
    BY <1>1, <1>6, <2>1 DEF KernelInv, Untouched, AllOf
<1>13. EchoRight'
  <2> SUFFICES ASSUME kind # "http"
               PROVE  /\ \A d \in closed' : peer[d] = "gone"
                      /\ \A f \in Fds : \A d \in Conns : sock'[f] = d /\ Owes(d) =>
                           heard'[d] \o (hand[f] \o inq[d]) = AllOf(d)
    BY <1>1 DEF EchoRight, AllOf, Owes
  <2>1. ASSUME NEW f \in Fds, NEW d \in Conns, sock'[f] = d
        PROVE  sock[f] = d /\ heard'[d] = heard[d]
    BY <1>3, <1>6, <1>7, <1>10, <2>1, Kinds
  <2>2. \A f \in Fds : \A d \in Conns : sock[f] = d /\ Owes(d) =>
          heard[d] \o (hand[f] \o inq[d]) = AllOf(d)
    BY DEF KernelInv, EchoRight
  <2>3. \A f \in Fds : \A d \in Conns : sock'[f] = d /\ Owes(d) =>
           heard'[d] \o (hand[f] \o inq[d]) = AllOf(d)
    BY <2>1, <2>2
  <2>4. \A d \in closed' : peer[d] = "gone"
    BY <1>1, <1>3 DEF KernelInv, EchoRight
  <2> QED
    BY <2>3, <2>4
<1>14. KernelInv'
  BY <1>9, <1>11, <1>12, <1>13 DEF KernelInv
<1> QED
  BY <1>1, <1>3, <1>6, <1>7, <1>8, <1>14 DEF c

-----------------------------------------------------------------------------
(* The clients' steps                                                      *)

\* What a client sends comes behind what it has sent, and may cost it what it has
\* not read of a connection that is closed.
LEMMA PieceSent ==
  ASSUME KernelTyped, NEW c \in Conns, SendPiece(c)
  PROVE  /\ \E e \in Pieces :
              /\ AllOf(c)' = Append(AllOf(c), e) /\ inq'[c] = Append(inq[c], e)
              /\ \A d \in Conns : d # c => AllOf(d)' = AllOf(d) /\ inq'[d] = inq[d]
         /\ inq' \in [Conns -> Seq(Pieces)] /\ sent' \in [Conns -> 0 .. MaxSent]
         /\ peer[c] = "open" /\ \A d \in Conns : Arrived(d)' = Arrived(d)
         /\ heard' \in [Conns -> Seq(Wire)] /\ unread' \in [Conns -> 0 .. SendBuffer]
         /\ UNCHANGED heard \/ (c \in closed /\ Truncated(c))
<1> DEFINE n == sent[c] + 1
           e == <<c, n>>
<1>1. /\ sent[c] \in Nat /\ n \in 1 .. MaxSent /\ inq[c] \in Seq(Pieces)
      /\ sent' = [sent EXCEPT ![c] = n] /\ inq' = [inq EXCEPT ![c] = Append(@, <<c, sent'[c]>>)]
      /\ peer[c] = "open"
  BY Kinds DEF KernelTyped, SendPiece
<1>2. e \in Pieces
  BY <1>1 DEF Pieces
<1>3. sent'[c] = n /\ \A d \in Conns : d # c => sent'[d] = sent[d]
  BY <1>1 DEF KernelTyped
<1>4. sent' \in [Conns -> 0 .. MaxSent]
  BY <1>1, Kinds DEF KernelTyped
<1>5. inq'[c] = Append(inq[c], e) /\ inq' \in [Conns -> Seq(Pieces)]
      /\ \A d \in Conns : d # c => inq'[d] = inq[d]
  BY <1>1, <1>2, <1>3 DEF KernelTyped
<1>6. AllOf(c)' = Append(AllOf(c), e)
  <2>1. AllOf(c) \in Seq(Pieces) /\ Len(AllOf(c)) = sent[c]
        /\ \A k \in 1 .. sent[c] : AllOf(c)[k] = <<c, k>>
    BY AllOfTyped
  <2>2. AllOf(c)' = [k \in 1 .. n |-> <<c, k>>]
    BY <1>3 DEF AllOf
  <2>3. Append(AllOf(c), e) = [k \in 1 .. n |-> <<c, k>>]
    <3> DEFINE a == AllOf(c)
               p == Append(a, e)
               q == [k \in 1 .. n |-> <<c, k>>]
    <3>1. \A k \in 1 .. n : k \in 1 .. MaxSent /\ <<c, k>> \in Pieces
      <4>1. \A k \in 1 .. n : k \in 1 .. MaxSent
        BY <1>1, Kinds
      <4> QED
        BY <4>1, Zenon DEF Pieces
    <3>2. q \in Seq(Pieces) /\ Len(q) = n /\ \A k \in 1 .. n : q[k] = <<c, k>>
      BY <1>1, <3>1, SMTT(30)
    <3> HIDE DEF a, e, q, n
    <3>3. /\ p \in Seq(Pieces) /\ Len(p) = Len(a) + 1 /\ p[Len(a) + 1] = e
          /\ \A k \in 1 .. Len(a) : p[k] = a[k]
      BY <1>2, <2>1, AppendProperties DEF a
    <3>4. Len(p) = n /\ p[n] = <<c, n>> /\ \A k \in 1 .. n : k # n => p[k] = <<c, k>>
      BY <1>1, <2>1, <3>3 DEF a, n, e
    <3> HIDE DEF p
    <3>5. \A k \in 1 .. n : p[k] = q[k]
      BY <3>2, <3>4
    <3>6. p = q
      BY <3>2, <3>3, <3>4, <3>5, SeqEqual
    <3> QED
      BY <3>6 DEF p, q, a, e, n
  <2> QED
    BY <2>2, <2>3
<1>7. \A d \in Conns : d # c => AllOf(d)' = AllOf(d)
  BY <1>3 DEF AllOf
<1>8. \A d \in Conns : Arrived(d)' = Arrived(d)
  <2>1. Len(inq'[c]) = Len(inq[c]) + 1 /\ Len(inq[c]) \in Nat
    BY <1>1, <1>2, <1>5, AppendProperties
  <2>2. Arrived(c)' = Arrived(c)
    BY <1>1, <1>3, <2>1 DEF Arrived
  <2> QED
    BY <1>3, <1>5, <2>2 DEF Arrived
<1>9. /\ heard' \in [Conns -> Seq(Wire)] /\ unread' \in [Conns -> 0 .. SendBuffer]
      /\ UNCHANGED heard \/ (c \in closed /\ Truncated(c))
  <2>1. CASE UNCHANGED <<unread, heard>>
    BY <2>1 DEF KernelTyped
  <2>2. CASE c \in closed /\ Reset(c)
    BY <2>2, ResetIs DEF Truncated
  <2> QED
    BY <2>1, <2>2, Zenon DEF SendPiece
<1> HIDE DEF e
<1> QED
  BY <1>1, <1>2, <1>4, <1>5, <1>6, <1>7, <1>8, <1>9

\* Clients come, send, read and go.
LEMMA ClientKeeps ==
  ASSUME KernelInv, NEW c \in Conns, ClientStep(c)
  PROVE  KernelInv'
<1>1. CASE Connect(c)
  <2>1. /\ peer[c] = "away" /\ peer' = [peer EXCEPT ![c] = "open"]
        /\ backlog' = Append(backlog, c)
        /\ UNCHANGED <<kind, limit, alive, sock, sent, inq, unread, heard, closed, full, hand>>
        /\ backlog \in Seq(Conns)
    BY <1>1 DEF Connect, KernelInv, KernelTyped
  <2>2. /\ \A d \in Conns : peer'[d] = IF d = c THEN "open" ELSE peer[d]
        /\ peer' \in [Conns -> {"away", "open", "gone"}]
    BY <2>1 DEF KernelInv, KernelTyped
  <2>3. /\ backlog' \in Seq(Conns) /\ Elements(backlog') = Elements(backlog) \cup {c}
        /\ c \notin Elements(backlog) => Distinct(backlog')
    BY <2>1, AppendElements DEF KernelInv, ConnsRight
  <2>4. c \notin Elements(backlog) /\ c \notin closed /\ \A f \in Fds : sock[f] # c
    BY <2>1 DEF KernelInv, ConnsRight
  <2>5. KernelTyped'
    BY <2>1, <2>2, <2>3 DEF KernelInv, KernelTyped
  <2>6. ConnsRight'
    BY <2>1, <2>2, <2>3, <2>4 DEF KernelInv, ConnsRight
  <2>7. Untouched'
    BY <2>1 DEF KernelInv, Untouched, AllOf
  <2>8. EchoRight'
    <3>1. \A d \in Conns : AllOf(d)' = AllOf(d)
      BY <2>1 DEF AllOf
    <3>2. kind # "http" => \A d \in closed : peer'[d] = "gone"
      BY <2>2, <2>4 DEF KernelInv, EchoRight, KernelTyped
    <3>3. ASSUME kind # "http", NEW f \in Fds, NEW d \in Conns, sock[f] = d, Owes(d)'
          PROVE  heard[d] \o (hand[f] \o inq[d]) = AllOf(d)
      <4>1. d # c /\ Owes(d)
        BY <2>1, <2>2, <2>4, <3>3 DEF Owes
      <4> QED
        BY <3>3, <4>1, Zenon DEF KernelInv, EchoRight
    <3> SUFFICES ASSUME kind # "http"
                 PROVE  /\ \A d \in closed : peer'[d] = "gone"
                        /\ \A f \in Fds : \A d \in Conns : sock[f] = d /\ Owes(d)' =>
                             heard[d] \o (hand[f] \o inq[d]) = AllOf(d)
      BY <2>1, <3>1 DEF EchoRight
    <3> QED
      BY <3>2, <3>3
  <2> QED
    BY <2>5, <2>6, <2>7, <2>8 DEF KernelInv
<1>2. CASE SendPiece(c)
  <2>1. UNCHANGED <<kind, limit, alive, backlog, sock, peer, closed, full, hand>>
    BY <1>2 DEF SendPiece
  <2>2. PICK e \in Pieces :
           /\ AllOf(c)' = Append(AllOf(c), e) /\ inq'[c] = Append(inq[c], e)
           /\ \A d \in Conns : d # c => AllOf(d)' = AllOf(d) /\ inq'[d] = inq[d]
    BY <1>2, PieceSent DEF KernelInv
  <2>7. /\ inq' \in [Conns -> Seq(Pieces)] /\ sent' \in [Conns -> 0 .. MaxSent]
         /\ peer[c] = "open"
         /\ heard' \in [Conns -> Seq(Wire)] /\ unread' \in [Conns -> 0 .. SendBuffer]
         /\ \A d \in Conns : d # c \/ c \notin closed => heard'[d] = heard[d]
    BY <1>2, PieceSent, Zenon DEF KernelInv, Truncated
  <2>3. KernelTyped'
    BY <2>1, <2>7 DEF KernelInv, KernelTyped
  <2>4. ConnsRight'
    <3>1. \A d \in Conns : d # c => sent'[d] = sent[d]
      BY <1>2 DEF SendPiece, KernelInv, KernelTyped
    <3> QED
      BY <2>1, <2>2, <2>7, <3>1 DEF KernelInv, ConnsRight
  <2>5. Untouched'
    BY <2>1, <2>2, <2>7 DEF KernelInv, Untouched
  <2>6. EchoRight'
    <3>4. kind # "http" => \A d \in Conns : heard'[d] = heard[d]
      BY <2>7 DEF KernelInv, EchoRight
    <3> SUFFICES ASSUME kind # "http", NEW f \in Fds, NEW d \in Conns, sock[f] = d, Owes(d)
                 PROVE  heard[d] \o (hand[f] \o inq'[d]) = AllOf(d)'
      BY <2>1, <3>4 DEF KernelInv, EchoRight, Owes
    <3>1. heard[d] \o (hand[f] \o inq[d]) = AllOf(d)
      BY DEF KernelInv, EchoRight
    <3>2. CASE d # c
      BY <2>2, <3>1, <3>2
    <3>3. CASE d = c
      <4> DEFINE a == heard[d]
                 h == hand[f]
                 q == inq[d]
      <4>1. a \in Seq(Wire) /\ h \in Seq(Wire) /\ q \in Seq(Wire) /\ e \in Wire
        <5>1. q \in Seq(Pieces) /\ Pieces \subseteq Wire /\ Seq(Pieces) \subseteq Seq(Wire)
          BY AllOfTyped DEF KernelInv, KernelTyped
        <5> QED
          BY <5>1 DEF KernelInv, KernelTyped
      <4>2. inq'[d] = Append(q, e) /\ AllOf(d)' = Append(AllOf(d), e)
        BY <2>2, <3>3
      <4> HIDE DEF a, h, q
      <4>3. h \o q \in Seq(Wire)
        BY <4>1, ConcatProperties
      <4>4. h \o Append(q, e) = Append(h \o q, e)
        BY <4>1, ConcatAppend
      <4>5. a \o Append(h \o q, e) = Append(a \o (h \o q), e)
        BY <4>1, <4>3, ConcatAppend
      <4> QED
        BY <3>1, <4>2, <4>4, <4>5 DEF a, h, q
    <3> QED
      BY <3>2, <3>3
  <2> QED
    BY <2>3, <2>4, <2>5, <2>6 DEF KernelInv
<1>3. CASE ReadPiece(c)
  <2>1. /\ UNCHANGED <<kind, limit, alive, backlog, sock, peer, sent, inq, heard, closed, full, hand>>
        /\ unread' \in [Conns -> 0 .. SendBuffer]
    BY <1>3, Kinds DEF ReadPiece, KernelInv, KernelTyped
  <2>2. KernelTyped' /\ ConnsRight'
    BY <2>1 DEF KernelInv, KernelTyped, ConnsRight
  <2>3. \A d : AllOf(d)' = AllOf(d) /\ (Owes(d)' <=> Owes(d))
    BY <2>1 DEF AllOf, Owes
  <2> QED
    BY <2>1, <2>2, <2>3 DEF KernelInv, Untouched, EchoRight
<1>4. CASE Hangup(c)
  <2>1. /\ UNCHANGED <<kind, limit, alive, backlog, sock, sent, inq, unread, heard, closed, full, hand>>
        /\ \A d \in Conns : peer'[d] = IF d = c THEN "gone" ELSE peer[d]
        /\ peer' \in [Conns -> {"away", "open", "gone"}]
    BY <1>4 DEF Hangup, KernelInv, KernelTyped
  <2>2. KernelTyped' /\ ConnsRight'
    BY <2>1 DEF KernelInv, KernelTyped, ConnsRight
  <2>3. \A d \in Conns : AllOf(d)' = AllOf(d) /\ (Owes(d)' => Owes(d))
    BY <2>1 DEF AllOf, Owes
  <2> QED
    BY <2>1, <2>2, <2>3 DEF KernelInv, Untouched, EchoRight, KernelTyped
<1> QED
  BY <1>1, <1>2, <1>3, <1>4 DEF ClientStep
-----------------------------------------------------------------------------
(* The HTTP server's steps                                                 *)

\* A response is a header and what the file holds, never nothing.
LEMMA HandleIs ==
  ASSUME NEW path \in Asked
  PROVE  handle(path) \in Seq(Wire) /\ handle(path) # <<>>
<1>1. NotFound \in Seq(Wire) /\ NotFound # <<>>
  BY DEF NotFound, Wire, Headers
<1>2. ASSUME NEW file \in Asked, NEW n \in Nat
      PROVE  Found(file, n) \in Seq(Wire) /\ Found(file, n) # <<>>
  <2> DEFINE header == [status |-> 200, mime |-> getMimeType(file), length |-> n]
             pieces == [k \in 1 .. n |-> [body |-> file, piece |-> k]]
  <2>1. header \in Wire
    BY DEF Wire, Headers
  <2>2. pieces \in Seq(Wire)
    <3>1. \A k \in 1 .. n : [body |-> file, piece |-> k] \in Wire
      BY DEF Wire, Bodies
    <3> QED
      BY <3>1
  <2> HIDE DEF header, pieces
  <2>3. <<header>> \in Seq(Wire) /\ Len(<<header>>) = 1
    BY <2>1
  <2>4. <<header>> \o pieces \in Seq(Wire) /\ <<header>> \o pieces # <<>>
    BY <2>2, <2>3, ConcatProperties
  <2> QED
    BY <2>4 DEF Found, header, pieces
<1> DEFINE file == IF path = Root THEN Index ELSE path
<1>3. file \in Asked
  BY DEF Asked
<1> HIDE DEF file
<1>4. readFile(file) \in Nat
  BY HttpAssumption DEF readFile
<1> QED
  BY <1>1, <1>2, <1>3, <1>4 DEF handle, file

\* Whatever part of a request has arrived, there is a path to be found.
LEMMA ParsedAsked ==
  ASSUME NEW path \in Paths \cup {NoPath}, NEW arrived
  PROVE  parsed(arrived, path) \subseteq Asked
BY DEF parsed, Asked

LEMMA ParsedSome ==
  ASSUME NEW path \in Paths \cup {NoPath}
  PROVE  parsed(0, path) = {NoPath}
BY DEF parsed

\* read_request and handle: a response is in hand, and nothing has been sent yet.
LEMMA RequestKeeps ==
  ASSUME KernelInv, HttpTyped, NEW fd \in Fds, read_request(fd), hand[fd] = <<>>,
         inq[sock[fd]] = AllOf(sock[fd])
  PROVE  LET c == sock[fd] IN
         /\ KernelInv' /\ c \in Conns
         /\ \E path \in parsed(sent'[c] - Len(inq'[c]), want[c]) : hand'[fd] = handle(path)
         /\ hand' = [hand EXCEPT ![fd] = hand'[fd]]
         /\ \A d \in Conns : d # c => inq'[d] = inq[d]
         /\ UNCHANGED <<kind, limit, alive, backlog, sock, peer, sent, unread, heard, closed,
                        full, want>>
<1> DEFINE c == sock[fd]
<1>1. c \in Conns /\ kind = "http" /\ c # NoConn /\ want[c] \in Paths \cup {NoPath}
  BY Kinds DEF read_request, KernelInv, KernelTyped, HttpTyped
<1>2. PICK request \in Received(fd) \cup {<<>>} :
       /\ \/ request # <<>> /\ Recv(fd, request)
          \/ request = <<>> /\ RecvNothing(fd) /\ UNCHANGED <<kind, limit, alive, kernel>>
       /\ \E path \in parsed(Len(request), want[sock[fd]]) :
            hand' = [hand EXCEPT ![fd] = handle(path)]
  BY DEF read_request
<1>3. UNCHANGED <<kind, limit, alive, backlog, sock, peer, sent, unread, heard, closed, full, want>>
  BY <1>2 DEF Recv, read_request
<1>4. /\ inq' \in [Conns -> Seq(Pieces)] /\ \A d \in Conns : d # c => inq'[d] = inq[d]
      /\ sent'[c] - Len(inq'[c]) = Len(request)
  <2>0. inq[c] \in Seq(Pieces) /\ Len(inq[c]) = sent[c] /\ sent[c] \in Nat
    BY <1>1, AllOfTyped DEF KernelInv, KernelTyped
  <2>1. CASE request # <<>>
    <3>1. request \in Received(fd) /\ Recv(fd, request)
      BY <1>2, <2>1
    <3>2. PICK n \in 1 .. Len(inq[c]) :
            /\ Len(request) = n /\ inq'[c] = SubSeq(inq[c], n + 1, Len(inq[c]))
            /\ inq' = [inq EXCEPT ![c] = inq'[c]] /\ inq'[c] \in Seq(Pieces)
      BY <3>1, ReceivedIs DEF KernelInv
    <3>3. Len(inq'[c]) = Len(inq[c]) - n
      BY <2>0, <3>2, SplitSeq
    <3>4. inq' \in [Conns -> Seq(Pieces)] /\ \A d \in Conns : d # c => inq'[d] = inq[d]
      BY <1>1, <3>2 DEF KernelInv, KernelTyped
    <3>5. sent'[c] = sent[c] /\ n \in Int
      BY <1>3
    <3>6. sent'[c] - Len(inq'[c]) = Len(request)
      BY <2>0, <3>2, <3>3, <3>5
    <3> QED
      BY <3>4, <3>6
  <2>2. CASE request = <<>>
    <3>1. inq[c] = <<>> /\ inq' = inq
      BY <1>2, <2>2 DEF RecvNothing
    <3>2. sent'[c] = sent[c] /\ inq'[c] = <<>> /\ Len(<<>>) = 0
      BY <1>3, <3>1
    <3>3. sent'[c] - Len(inq'[c]) = Len(request)
      BY <2>0, <2>2, <3>1, <3>2
    <3> QED
      BY <3>1, <3>3 DEF KernelInv, KernelTyped
  <2> QED
    BY <2>1, <2>2
<1>13. PICK path \in parsed(Len(request), want[c]) : hand' = [hand EXCEPT ![fd] = handle(path)]
  BY <1>2
<1> DEFINE response == handle(path)
<1>5. response \in Seq(Wire)
  BY <1>1, <1>13, ParsedAsked, HandleIs
<1>6. hand'[fd] = response /\ hand' = [hand EXCEPT ![fd] = response]
      /\ \A f \in Fds : f # fd => hand'[f] = hand[f]
  <2>1. hand' = [hand EXCEPT ![fd] = response]
    BY <1>13
  <2> HIDE DEF response
  <2> QED
    BY <2>1 DEF KernelInv, KernelTyped
<1>7. \E p \in parsed(sent'[c] - Len(inq'[c]), want[c]) : hand'[fd] = handle(p)
  BY <1>4, <1>6, <1>13
<1> HIDE DEF c, response
<1>8. KernelTyped'
  <2>1. hand' \in [Fds -> Seq(Wire)]
    BY <1>5, <1>6 DEF KernelInv, KernelTyped
  <2> QED
    BY <1>3, <1>4, <2>1 DEF KernelInv, KernelTyped
<1>9. sock[fd] = c
  BY DEF c
<1>10. ConnsRight'
  <2>1. peer[c] # "away"
    BY <1>1, <1>9 DEF KernelInv, ConnsRight
  <2> QED
    BY <1>1, <1>3, <1>4, <1>6, <1>9, <2>1 DEF KernelInv, ConnsRight
<1>11. Untouched'
  BY <1>3, <1>4, <1>9 DEF KernelInv, Untouched, AllOf
<1>12. EchoRight'
  BY <1>1, <1>3 DEF EchoRight
<1> QED
  BY <1>1, <1>3, <1>4, <1>6, <1>7, <1>8, <1>10, <1>11, <1>12 DEF KernelInv, c

\* The part of OwnResponse about one connection.
Own(c) ==
  \E path \in parsed(Arrived(c), want[c]) :
    /\ IsPrefix(heard[c], handle(path))
    /\ c \in closed /\ peer[c] = "open" /\ inq[c] = <<>> => heard[c] = handle(path)

LEMMA OwnIs == OwnResponse <=> (kind = "http" => \A c \in Conns : Own(c))
BY DEF OwnResponse, Own

\* What ResponsesRight says of a connection and its descriptor.
Serves(fd, c) ==
  /\ phase[fd] = "recv" => heard[c] = <<>> /\ inq[c] = AllOf(c)
  /\ phase[fd] # "recv" =>
       \E path \in parsed(Arrived(c), want[c]) : Answer(c, fd, path)
Idle(fd) ==
  /\ sock[fd] = NoConn => phase[fd] = "recv"
  /\ phase[fd] # "send" => hand[fd] = <<>>

AllServed ==
  /\ \A fd \in Fds : Idle(fd)
  /\ \A fd \in Fds : \A c \in Conns : Has(fd, c) => Serves(fd, c)
  /\ \A c \in Conns : Own(c)

LEMMA AllServedIs == kind = "http" => (ResponsesRight <=> AllServed)
BY OwnIs DEF ResponsesRight, Serves, Idle, AllServed

LEMMA ResponsesAre ==
  /\ kind = "http" => (ResponsesRight <=> AllServed)
  /\ kind' = "http" => (ResponsesRight' <=> AllServed')
<1>1. (kind = "http" => (ResponsesRight <=> AllServed))'
  BY AllServedIs, PTL
<1> QED
  BY <1>1, AllServedIs

HttpInv == KernelInv /\ HttpTyped /\ ResponsesRight

\* A step changes what is served only at the descriptor it is about.
LEMMA ServesElsewhere ==
  ASSUME HttpInv, kind = "http", kind' = kind, want' = want,
         NEW f \in Fds, NEW d \in Conns, sock'[f] = d, sock[f] = d,
         phase'[f] = phase[f], hand'[f] = hand[f], heard'[d] = heard[d],
         inq'[d] = inq[d], sent'[d] = sent[d], peer'[d] = "open" => peer[d] = "open"
  PROVE  Serves(f, d)'
<1>1. Serves(f, d)
  BY ResponsesAre DEF HttpInv, AllServed
<1>2. AllOf(d)' = AllOf(d)
  BY DEF AllOf
<1>3. \A path : Answer(d, f, path) => Answer(d, f, path)'
  BY DEF Answer
<1>4. ASSUME phase'[f] = "recv" PROVE heard'[d] = <<>> /\ inq'[d] = AllOf(d)'
  BY <1>1, <1>2, <1>4 DEF Serves
<1>5. ASSUME phase'[f] # "recv"
      PROVE  \E path \in parsed(Arrived(d)', want'[d]) : Answer(d, f, path)'
  BY <1>1, <1>3, <1>5 DEF Serves, Arrived
<1> QED
  BY <1>4, <1>5 DEF Serves

LEMMA OwnStays ==
  ASSUME NEW d, Own(d), want' = want, heard'[d] = heard[d], Arrived(d)' = Arrived(d),
         (d \in closed' /\ peer'[d] = "open" /\ inq'[d] = <<>>) =>
           (d \in closed /\ peer[d] = "open" /\ inq[d] = <<>>)
  PROVE  Own(d)'
BY DEF Own

LEMMA StartKeeps ==
  ASSUME HttpInv, start
  PROVE  HttpInv' /\ \E fd \in Fds : OpenFds' = OpenFds \cup {fd}
<1>1. PICK fd \in Fds : AcceptAs(fd) /\ phase' = [phase EXCEPT ![fd] = "recv"]
  BY DEF start
<1> DEFINE c == Head(backlog)
<1>2. /\ kind = "http" /\ backlog # <<>> /\ sock' = [sock EXCEPT ![fd] = c]
      /\ UNCHANGED <<kind, limit, alive, peer, sent, inq, unread, heard, closed, full, hand, want>>
  BY <1>1 DEF start, AcceptAs
<1>3. /\ KernelInv' /\ c \in Conns
      /\ fd \notin OpenFds /\ OpenFds' = OpenFds \cup {fd}
  BY <1>1, <1>2, AcceptKeeps DEF HttpInv
<1>4. sock[fd] = NoConn /\ phase[fd] = "recv" /\ Waiting(c)
  <2>1. sock[fd] = NoConn
    BY <1>3 DEF OpenFds
  <2>2. Idle(fd)
    BY <1>2, ResponsesAre DEF HttpInv, AllServed
  <2>3. Waiting(c)
    BY <1>2, TailElements DEF HttpInv, KernelInv, KernelTyped
  <2> QED
    BY <2>1, <2>2, <2>3 DEF Idle
<1>5. phase' = phase
  BY <1>1, <1>4 DEF HttpInv, HttpTyped
<1>6. \A f \in Fds : sock'[f] = IF f = fd THEN c ELSE sock[f]
  BY <1>2 DEF HttpInv, KernelInv, KernelTyped
<1> HIDE DEF c
<1>7. HttpTyped'
  BY <1>2, <1>5 DEF HttpInv, HttpTyped
<1>8. \A f \in Fds : Idle(f)'
  BY <1>2, <1>3, <1>4, <1>5, <1>6, ResponsesAre DEF HttpInv, AllServed, Idle
<1>9. ASSUME NEW f \in Fds, NEW d \in Conns, sock'[f] = d PROVE Serves(f, d)'
  <2>1. CASE f = fd
    <3>1. d = c /\ \A g \in Fds : sock[g] # c
      BY <1>4, <1>6, <1>9, <2>1 DEF HttpInv, KernelInv, ConnsRight
    <3>2. c \notin closed
      BY <1>3, <1>4 DEF HttpInv, KernelInv, ConnsRight
    <3>3. heard[d] = <<>> /\ inq[d] = AllOf(d)
      BY <1>3, <3>1, <3>2 DEF HttpInv, KernelInv, Untouched
    <3> QED
      BY <1>2, <1>4, <1>5, <2>1, <3>3 DEF Serves, AllOf
  <2>2. CASE f # fd
    <3>1. sock[f] = d
      BY <1>6, <1>9, <2>2
    <3> QED
      BY <1>2, <1>5, <1>9, <3>1, ServesElsewhere
  <2> QED
    BY <2>1, <2>2
<1>10. \A d \in Conns : Own(d)'
  BY <1>2, OwnStays, ResponsesAre DEF HttpInv, AllServed, Arrived
<1>11. ResponsesRight'
  BY <1>2, <1>8, <1>9, <1>10, ResponsesAre DEF AllServed
<1> QED
  BY <1>3, <1>7, <1>11 DEF HttpInv
LEMMA ReadKeeps ==
  ASSUME HttpInv, NEW fd \in Fds, read_request(fd)
  PROVE  HttpInv' /\ OpenFds' = OpenFds
<1>0. PICK c \in Conns : sock[fd] = c /\ c # NoConn
  BY Kinds DEF read_request, HttpInv, KernelInv, KernelTyped
<1>1. kind = "http" /\ phase[fd] = "recv" /\ phase' = [phase EXCEPT ![fd] = "send"]
  BY DEF read_request
<1>2. hand[fd] = <<>>
  BY <1>1, ResponsesAre DEF HttpInv, AllServed, Idle
<1>3. /\ KernelInv' /\ c \in Conns
      /\ \E path \in parsed(Arrived(c)', want[c]) : hand'[fd] = handle(path)
      /\ hand' = [hand EXCEPT ![fd] = hand'[fd]]
      /\ \A d \in Conns : d # c => inq'[d] = inq[d]
      /\ UNCHANGED <<kind, limit, alive, backlog, sock, peer, sent, unread, heard, closed,
                     full, want>>
  <2>1. inq[c] = AllOf(c)
    BY <1>0, <1>1, ResponsesAre DEF HttpInv, AllServed, Serves
  <2> QED
    BY <1>0, <1>2, <2>1, RequestKeeps DEF HttpInv, Arrived
<1>4. sock[fd] = c /\ c # NoConn /\ want[c] \in Paths \cup {NoPath}
  BY <1>0 DEF HttpInv, HttpTyped
<1>5. /\ phase' \in [Fds -> {"recv", "send", "close"}]
      /\ \A f \in Fds : phase'[f] = IF f = fd THEN "send" ELSE phase[f]
      /\ \A f \in Fds : f # fd => hand'[f] = hand[f]
  <2> DEFINE h == hand'[fd]
  <2>1. hand' = [hand EXCEPT ![fd] = h]
    BY <1>3
  <2> HIDE DEF h
  <2> QED
    BY <1>1, <2>1 DEF HttpInv, HttpTyped, KernelInv, KernelTyped
<1>6. HttpTyped' /\ OpenFds' = OpenFds
  BY <1>3, <1>5 DEF HttpInv, HttpTyped, OpenFds
<1>7. \A f \in Fds : Idle(f)'
  BY <1>1, <1>3, <1>4, <1>5, ResponsesAre DEF HttpInv, AllServed, Idle
<1>11. heard[c] = <<>> /\ want' = want
  BY <1>1, <1>3, <1>4, ResponsesAre DEF HttpInv, AllServed, Serves
<1>12. PICK path \in parsed(Arrived(c)', want[c]) : hand'[fd] = handle(path)
  BY <1>3
<1> DEFINE response == handle(path)
<1>13. response \in Seq(Wire) /\ response # <<>>
  BY <1>4, <1>12, ParsedAsked, HandleIs
<1>14. /\ IsPrefix(<<>>, response) /\ <<>> \o response = response
       /\ hand'[fd] = response /\ heard'[c] = <<>>
  <2> HIDE DEF response
  <2>1. IsPrefix(<<>>, response) /\ <<>> \o response = response
    BY <1>13, PrefixOfConcat, ConcatEmptySeq
  <2> QED
    BY <1>3, <1>11, <1>12, <2>1 DEF response
<1> HIDE DEF response
<1>8. ASSUME NEW f \in Fds, NEW d \in Conns, sock[f] = d PROVE Serves(f, d)'
  <2>1. CASE f = fd
    <3>1. d = c /\ phase'[fd] = "send"
      BY <1>4, <1>5, <1>8, <2>1
    <3>2. Answer(c, fd, path)'
      BY <1>13, <1>14, <3>1 DEF Answer, response
    <3> QED
      BY <1>11, <1>12, <2>1, <3>1, <3>2 DEF Serves
  <2>2. CASE f # fd
    <3>1. d # c
      BY <1>4, <1>8, <2>2 DEF HttpInv, KernelInv, ConnsRight
    <3> QED
      BY <1>1, <1>3, <1>5, <1>8, <2>2, <3>1, ServesElsewhere
  <2> QED
    BY <2>1, <2>2
<1>9. ASSUME NEW d \in Conns PROVE Own(d)'
  <2>1. CASE d = c
    <3>1. c \notin closed'
      BY <1>3, <1>4 DEF HttpInv, KernelInv, ConnsRight
    <3> QED
      BY <1>11, <1>12, <1>14, <2>1, <3>1 DEF Own, response
  <2>2. CASE d # c
    <3>1. Own(d)
      BY <1>1, ResponsesAre DEF HttpInv, AllServed
    <3>2. Arrived(d)' = Arrived(d) /\ inq'[d] = inq[d]
      BY <1>3, <2>2 DEF Arrived
    <3> QED
      BY <1>3, <3>1, <3>2, OwnStays
  <2> QED
    BY <2>1, <2>2
<1>10. ResponsesRight'
  BY <1>1, <1>3, <1>7, <1>8, <1>9, ResponsesAre DEF AllServed
<1> QED
  BY <1>3, <1>6, <1>10 DEF HttpInv

LEMMA ResponseKeeps ==
  ASSUME HttpInv, NEW fd \in Fds, send_response(fd)
  PROVE  HttpInv' /\ OpenFds' = OpenFds
<1>0. PICK c \in Conns : sock[fd] = c /\ c # NoConn
  BY Kinds DEF send_response, Send, HttpInv, KernelInv, KernelTyped, ConnsRight
<1>1. /\ kind = "http" /\ phase[fd] = "send" /\ Send(fd, FALSE) /\ want' = want
      /\ phase' = [phase EXCEPT ![fd] = IF hand'[fd] = <<>> THEN "close" ELSE @]
  BY DEF send_response
<1>2. /\ c \in Conns /\ heard'[c] \in Seq(Wire) /\ hand'[fd] \in Seq(Wire)
      /\ hand' = [hand EXCEPT ![fd] = hand'[fd]]
      /\ heard' = [heard EXCEPT ![c] = heard'[c]]
      /\ \/ peer[c] = "gone" /\ UNCHANGED <<heard, full>>
         \/ peer[c] = "open"
      /\ peer[c] = "open" => SendsAll(fd, c)
  BY <1>0, <1>1, SendIs DEF HttpInv
<1>3. KernelInv' /\ UNCHANGED <<kind, limit, backlog, sock, peer, sent, inq, closed>>
  <2>1. KernelInv'
    BY <1>1, SendKeeps DEF HttpInv
  <2> QED
    BY <1>1, <2>1 DEF Send
<1>4. sock[fd] = c /\ c # NoConn /\ c \notin closed
  BY <1>0 DEF HttpInv, KernelInv, ConnsRight
<1>5. /\ phase' \in [Fds -> {"recv", "send", "close"}]
      /\ \A f \in Fds : f # fd => phase'[f] = phase[f] /\ hand'[f] = hand[f]
      /\ phase'[fd] = (IF hand'[fd] = <<>> THEN "close" ELSE "send")
      /\ \A d \in Conns : d # c => heard'[d] = heard[d]
  <2> DEFINE h == hand'[fd]
             a == heard'[c]
  <2>1. hand' = [hand EXCEPT ![fd] = h] /\ heard' = [heard EXCEPT ![c] = a]
        /\ phase' = [phase EXCEPT ![fd] = IF h = <<>> THEN "close" ELSE @]
    BY <1>1, <1>2
  <2> HIDE DEF h, a
  <2>2. /\ \A f \in Fds : f # fd => phase'[f] = phase[f] /\ hand'[f] = hand[f]
        /\ \A d \in Conns : d # c => heard'[d] = heard[d]
        /\ phase'[fd] = (IF h = <<>> THEN "close" ELSE "send")
        /\ phase' \in [Fds -> {"recv", "send", "close"}]
    BY <1>1, <2>1 DEF HttpInv, HttpTyped, KernelInv, KernelTyped
  <2> QED
    BY <2>2 DEF h
<1>6. HttpTyped' /\ OpenFds' = OpenFds
  BY <1>1, <1>3, <1>5 DEF HttpInv, HttpTyped, OpenFds
<1>7. \A f \in Fds : Idle(f)'
  BY <1>1, <1>3, <1>4, <1>5, ResponsesAre DEF HttpInv, AllServed, Idle
<1>8. PICK path \in parsed(Arrived(c), want[c]) : Answer(c, fd, path)
  BY <1>1, <1>2, <1>4, ResponsesAre DEF HttpInv, AllServed, Serves
<1> DEFINE response == handle(path)
<1>9. response \in Seq(Wire)
  BY <1>2, <1>8, ParsedAsked, HandleIs DEF HttpInv, HttpTyped
<1>15. parsed(Arrived(c), want[c]) = parsed(Arrived(c)', want'[c])
  BY <1>1, <1>3 DEF Arrived
<1> HIDE DEF response
<1>10. /\ peer[c] = "open" => heard'[c] \o hand'[fd] = response
       /\ IsPrefix(heard'[c], response)
  <2>1. /\ peer[c] = "open" => heard[c] \o hand[fd] = response
        /\ IsPrefix(heard[c], response)
    BY <1>1, <1>8 DEF Answer, response
  <2>2. CASE peer[c] = "open"
    <3>1. heard'[c] \o hand'[fd] = response
      BY <1>2, <2>1, <2>2 DEF SendsAll
    <3>2. IsPrefix(heard'[c], heard'[c] \o hand'[fd])
      BY <1>2, PrefixOfConcat
    <3> QED
      BY <3>1, <3>2
  <2>3. CASE peer[c] = "gone" /\ UNCHANGED <<heard, full>>
    BY <2>1, <2>3
  <2> QED
    BY <1>2, <2>2, <2>3
<1>11. Answer(c, fd, path)'
  <2>1. heard'[c] \o <<>> = heard'[c]
    BY <1>2, ConcatEmptySeq
  <2> QED
    BY <1>3, <1>5, <1>10, <2>1 DEF Answer, response
<1>12. ASSUME NEW f \in Fds, NEW d \in Conns, sock[f] = d PROVE Serves(f, d)'
  <2>1. CASE f = fd
    <3>1. d = c /\ phase'[fd] # "recv"
      BY <1>4, <1>5, <1>12, <2>1
    <3> QED
      BY <1>8, <1>11, <1>15, <2>1, <3>1 DEF Serves
  <2>2. CASE f # fd
    <3>1. d # c
      BY <1>4, <1>12, <2>2 DEF HttpInv, KernelInv, ConnsRight
    <3> QED
      BY <1>1, <1>3, <1>5, <1>12, <2>2, <3>1, ServesElsewhere
  <2> QED
    BY <2>1, <2>2
<1>13. ASSUME NEW d \in Conns PROVE Own(d)'
  <2>1. CASE d = c
    <3>1. IsPrefix(heard'[c], handle(path)) /\ c \notin closed'
      BY <1>3, <1>4, <1>10 DEF response
    <3> QED
      BY <1>8, <1>15, <2>1, <3>1 DEF Own
  <2>2. CASE d # c
    <3>1. Own(d)
      BY <1>1, ResponsesAre DEF HttpInv, AllServed
    <3> QED
      BY <1>1, <1>3, <1>5, <2>2, <3>1, OwnStays DEF Arrived
  <2> QED
    BY <2>1, <2>2
<1>14. ResponsesRight'
  BY <1>1, <1>3, <1>7, <1>12, <1>13, ResponsesAre DEF AllServed
<1> QED
  BY <1>3, <1>6, <1>14 DEF HttpInv

LEMMA EndKeeps ==
  ASSUME HttpInv, NEW fd \in Fds, handle_clientEnd(fd)
  PROVE  HttpInv' /\ OpenFds' = OpenFds \ {fd}
<1>1. /\ kind = "http" /\ phase[fd] = "close" /\ CloseFd(fd) /\ want' = want
      /\ phase' = [phase EXCEPT ![fd] = "recv"]
  BY DEF handle_clientEnd
<1>2. sock[fd] # NoConn /\ hand[fd] = <<>>
  BY <1>1, ResponsesAre DEF HttpInv, AllServed, Idle
<1>3. PICK c \in Conns : sock[fd] = c /\ c # NoConn
  BY <1>2, Kinds DEF HttpInv, KernelInv, KernelTyped
<1>4. /\ KernelInv' /\ OpenFds' = OpenFds \ {fd}
      /\ \A f \in Fds : sock'[f] = IF f = fd THEN NoConn ELSE sock[f]
      /\ \A d \in Conns : d # c => heard'[d] = heard[d]
      /\ \/ heard'[c] = heard[c]
         \/ inq[c] # <<>> /\ \E m \in Int : m <= Len(heard[c])
                                            /\ heard'[c] = SubSeq(heard[c], 1, m)
  BY <1>1, <1>2, <1>3, CloseKeeps DEF HttpInv
<1>5. /\ closed' = closed \cup {c}
      /\ UNCHANGED <<kind, limit, alive, backlog, peer, sent, inq, full, hand, want>>
  BY <1>1, <1>3 DEF CloseFd
<1>6. /\ phase' \in [Fds -> {"recv", "send", "close"}]
      /\ \A f \in Fds : phase'[f] = IF f = fd THEN "recv" ELSE phase[f]
  BY <1>1 DEF HttpInv, HttpTyped
<1>7. HttpTyped'
  BY <1>5, <1>6 DEF HttpInv, HttpTyped
<1>8. \A f \in Fds : Idle(f)'
  BY <1>1, <1>2, <1>4, <1>5, <1>6, ResponsesAre DEF HttpInv, AllServed, Idle
<1>9. ASSUME NEW f \in Fds, NEW d \in Conns, sock'[f] = d PROVE Serves(f, d)'
  <2>1. f # fd /\ sock[f] = d
    BY <1>4, <1>9, Kinds
  <2>2. d # c
    BY <1>3, <2>1 DEF HttpInv, KernelInv, ConnsRight
  <2> QED
    BY <1>1, <1>4, <1>5, <1>6, <1>9, <2>1, <2>2, ServesElsewhere
<1>10. Own(c)'
  <2>1. PICK path \in parsed(Arrived(c), want[c]) : Answer(c, fd, path)
    BY <1>1, <1>3, ResponsesAre DEF HttpInv, AllServed, Serves
  <2> DEFINE response == handle(path)
  <2>2. /\ response \in Seq(Wire) /\ heard[c] \in Seq(Wire)
        /\ IsPrefix(heard[c], response)
        /\ peer[c] = "open" => heard[c] = response
    BY <1>1, <2>1, ParsedAsked, HandleIs DEF HttpInv, HttpTyped, KernelInv, KernelTyped, Answer
  <2>3. parsed(Arrived(c), want[c]) = parsed(Arrived(c)', want'[c])
    BY <1>5 DEF Arrived
  <2> HIDE DEF response
  <2>4. IsPrefix(heard'[c], response)
    <3>1. CASE heard'[c] = heard[c]
      BY <2>2, <3>1
    <3>2. CASE \E m \in Int : m <= Len(heard[c]) /\ heard'[c] = SubSeq(heard[c], 1, m)
      BY <2>2, <3>2, PrefixOfPrefix
    <3> QED
      BY <1>4, <3>1, <3>2
  <2>5. peer'[c] = "open" /\ inq'[c] = <<>> => heard'[c] = response
    BY <1>4, <1>5, <2>2
  <2> QED
    BY <2>1, <2>3, <2>4, <2>5 DEF Own, response
<1>11. \A d \in Conns : d # c => Own(d)'
  BY <1>1, <1>4, <1>5, OwnStays, ResponsesAre DEF HttpInv, AllServed, Arrived
<1>12. ResponsesRight'
  BY <1>1, <1>5, <1>8, <1>9, <1>10, <1>11, ResponsesAre DEF AllServed
<1> QED
  BY <1>4, <1>7, <1>12 DEF HttpInv

\* Whatever a client does, it is answered as before.
LEMMA ClientKeepsResponses ==
  ASSUME HttpInv, NEW c \in Conns, ClientStep(c), UNCHANGED httpVars
  PROVE  HttpInv'
<1>1. KernelInv'
  BY ClientKeeps DEF HttpInv
<1>2. HttpTyped'
  BY DEF HttpInv, HttpTyped
<1>3. UNCHANGED <<kind, sock, closed, hand, want, phase>>
  BY DEF ClientStep, Connect, SendPiece, ReadPiece, Hangup
<1>8. /\ \A d \in Conns : Arrived(d)' = Arrived(d)
      /\ UNCHANGED heard \/ (c \in closed /\ Truncated(c) /\ inq'[c] # <<>>)
  <2>1. CASE SendPiece(c)
    <3>1. /\ \A d \in Conns : Arrived(d)' = Arrived(d)
          /\ UNCHANGED heard \/ (c \in closed /\ Truncated(c))
          /\ \E e \in Pieces : inq'[c] = Append(inq[c], e)
      BY <2>1, PieceSent, Zenon DEF HttpInv, KernelInv
    <3>2. inq'[c] # <<>>
      <4>1. inq[c] \in Seq(Pieces)
        BY DEF HttpInv, KernelInv, KernelTyped
      <4> QED
        BY <3>1, <4>1, AppendProperties, EmptySeq
    <3> QED
      BY <3>1, <3>2
  <2>2. CASE Connect(c) \/ ReadPiece(c) \/ Hangup(c)
    BY <2>2 DEF Connect, ReadPiece, Hangup, Arrived
  <2> QED
    BY <2>1, <2>2 DEF ClientStep
<1>9. \A d \in Conns : d \notin closed \/ d # c => heard'[d] = heard[d]
  BY <1>8 DEF Truncated
<1>4. /\ \A d \in Conns : d # c => inq'[d] = inq[d] /\ sent'[d] = sent[d] /\ peer'[d] = peer[d]
      /\ inq'[c] = <<>> => inq[c] = <<>>
      /\ peer'[c] = "open" /\ peer[c] # "open" => peer[c] = "away"
      /\ inq[c] = AllOf(c) => inq'[c] = AllOf(c)'
      /\ SendPiece(c) \/ UNCHANGED <<inq, sent>>
  <2>1. CASE SendPiece(c)
    <3>1. PICK e \in Pieces :
            /\ AllOf(c)' = Append(AllOf(c), e) /\ inq'[c] = Append(inq[c], e)
            /\ \A d \in Conns : d # c => AllOf(d)' = AllOf(d) /\ inq'[d] = inq[d]
      BY <2>1, PieceSent DEF HttpInv, KernelInv
    <3>2. inq'[c] # <<>>
      <4>1. inq[c] \in Seq(Pieces)
        BY DEF HttpInv, KernelInv, KernelTyped
      <4> QED
        BY <3>1, <4>1, AppendProperties, EmptySeq
    <3>3. UNCHANGED peer /\ \A d \in Conns : d # c => sent'[d] = sent[d]
      BY <2>1 DEF SendPiece, HttpInv, KernelInv, KernelTyped
    <3> QED
      BY <2>1, <3>1, <3>2, <3>3
  <2>2. CASE Connect(c) \/ ReadPiece(c) \/ Hangup(c)
    <3>1. UNCHANGED <<inq, sent>> /\ AllOf(c)' = AllOf(c)
      BY <2>2 DEF Connect, ReadPiece, Hangup, AllOf
    <3>2. /\ \A d \in Conns : d # c => peer'[d] = peer[d]
          /\ peer'[c] = "open" /\ peer[c] # "open" => peer[c] = "away"
      BY <2>2 DEF Connect, ReadPiece, Hangup, HttpInv, KernelInv, KernelTyped
    <3> QED
      BY <3>1, <3>2
  <2> QED
    BY <2>1, <2>2 DEF ClientStep
<1> SUFFICES ASSUME kind = "http" PROVE ResponsesRight'
  BY <1>1, <1>2, <1>3 DEF HttpInv, ResponsesRight
<1>5. \A f \in Fds : Idle(f)'
  BY <1>3, ResponsesAre DEF HttpInv, AllServed, Idle
<1>6. ASSUME NEW f \in Fds, NEW d \in Conns, sock[f] = d PROVE Serves(f, d)'
  <2>1. peer'[d] = "open" => peer[d] = "open"
    BY <1>4, <1>6 DEF HttpInv, KernelInv, ConnsRight
  <2>2. inq[d] = AllOf(d) => inq'[d] = AllOf(d)'
    <3>1. d # c => AllOf(d)' = AllOf(d)
      BY <1>4 DEF AllOf
    <3> QED
      BY <1>4, <3>1
  <2>3. Serves(f, d)
    BY <1>6, ResponsesAre DEF HttpInv, AllServed
  <2>7. want' = want /\ phase'[f] = phase[f] /\ hand'[f] = hand[f] /\ heard'[d] = heard[d]
    BY <1>3, <1>6, <1>9 DEF HttpInv, KernelInv, ConnsRight
  <2>4. \A path : Answer(d, f, path) => Answer(d, f, path)'
    BY <2>1, <2>7 DEF Answer
  <2>5. ASSUME phase'[f] = "recv" PROVE heard'[d] = <<>> /\ inq'[d] = AllOf(d)'
    BY <2>2, <2>3, <2>5, <2>7 DEF Serves
  <2>6. ASSUME phase'[f] # "recv"
        PROVE  \E path \in parsed(Arrived(d)', want'[d]) : Answer(d, f, path)'
    BY <1>8, <2>3, <2>4, <2>6, <2>7 DEF Serves
  <2> QED
    BY <2>5, <2>6 DEF Serves
<1>7. ASSUME NEW d \in Conns PROVE Own(d)'
  <2>1. Own(d)
    BY ResponsesAre DEF HttpInv, AllServed
  <2>2. (d \in closed' /\ peer'[d] = "open" /\ inq'[d] = <<>>) =>
          (d \in closed /\ peer[d] = "open" /\ inq[d] = <<>>)
    BY <1>3, <1>4 DEF HttpInv, KernelInv, ConnsRight
  <2>3. CASE heard'[d] = heard[d]
    BY <1>3, <1>8, <2>1, <2>2, <2>3, OwnStays
  <2>4. CASE heard'[d] # heard[d]
    <3>1. d = c /\ Truncated(c) /\ inq'[c] # <<>>
      BY <1>8, <1>9, <2>4
    <3>2. PICK path \in parsed(Arrived(c), want[c]) : IsPrefix(heard[c], handle(path))
      BY <2>1, <3>1 DEF Own
    <3>3. handle(path) \in Seq(Wire) /\ heard[c] \in Seq(Wire)
      BY <3>2, ParsedAsked, HandleIs DEF HttpInv, HttpTyped, KernelInv, KernelTyped
    <3>4. IsPrefix(heard'[c], handle(path))
      BY <3>1, <3>2, <3>3, PrefixOfPrefix DEF Truncated
    <3> QED
      BY <1>3, <1>8, <3>1, <3>2, <3>4 DEF Own
  <2> QED
    BY <2>3, <2>4
<1> QED
  BY <1>3, <1>5, <1>6, <1>7, ResponsesAre DEF AllServed
-----------------------------------------------------------------------------
(* The tables of the loops                                                 *)

\* erase of the n-th.
LEMMA RemoveElements ==
  ASSUME NEW X, NEW s \in Seq(X), NEW n \in 1 .. Len(s), Distinct(s), n # 1
  PROVE  /\ RemoveAt(s, n) \in Seq(X) /\ RemoveAt(s, n) # <<>>
         /\ RemoveAt(s, n)[1] = s[1]
         /\ Elements(RemoveAt(s, n)) = Elements(s) \ {s[n]}
         /\ Distinct(RemoveAt(s, n))
<1> DEFINE a == SubSeq(s, 1, n - 1)
           b == SubSeq(s, n + 1, Len(s))
           r == a \o b
<1>1. Len(s) \in Nat /\ n \in Nat /\ n > 1 /\ n <= Len(s)
      /\ \A k \in 1 .. Len(s) : s[k] \in X
  OBVIOUS
<1>2. a \in Seq(X) /\ Len(a) = n - 1 /\ \A k \in 1 .. n - 1 : a[k] = s[k]
  BY <1>1, SubSeqProperties
<1>3. b \in Seq(X) /\ Len(b) = Len(s) - n /\ \A k \in 1 .. Len(s) - n : b[k] = s[n + k]
  BY <1>1, SubSeqProperties
<1> HIDE DEF a, b
<1>4. r \in Seq(X) /\ Len(r) = Len(a) + Len(b)
      /\ \A k \in 1 .. Len(a) + Len(b) : r[k] = IF k <= Len(a) THEN a[k] ELSE b[k - Len(a)]
  <2>1. a \in Seq(X) /\ b \in Seq(X)
    BY <1>2, <1>3
  <2> QED
    BY <2>1, ConcatProperties
<1> HIDE DEF r
<1>5. Len(r) = Len(s) - 1
      /\ \A k \in 1 .. Len(r) : r[k] = IF k < n THEN s[k] ELSE s[k + 1]
  <2>1. Len(r) = Len(s) - 1
    BY <1>1, <1>2, <1>3, <1>4
  <2>2. ASSUME NEW k \in 1 .. Len(r), k < n PROVE r[k] = s[k]
    <3>1. k \in 1 .. n - 1 /\ k <= Len(a) /\ k \in 1 .. Len(a) + Len(b)
      BY <1>1, <1>2, <1>3, <2>1, <2>2
    <3> QED
      BY <1>2, <1>4, <3>1
  <2>3. ASSUME NEW k \in 1 .. Len(r), ~ k < n PROVE r[k] = s[k + 1]
    <3>1. /\ ~ k <= Len(a) /\ k \in 1 .. Len(a) + Len(b)
          /\ k - Len(a) \in 1 .. Len(s) - n /\ n + (k - Len(a)) = k + 1
      BY <1>1, <1>2, <1>3, <2>1, <2>3
    <3> QED
      BY <1>3, <1>4, <3>1
  <2> QED
    BY <2>1, <2>2, <2>3
<1>6. \A k \in 1 .. Len(r) : r[k] \in Elements(s) \ {s[n]}
  <2>1. SUFFICES ASSUME NEW k \in 1 .. Len(r) PROVE r[k] \in Elements(s) \ {s[n]}
    OBVIOUS
  <2>2. PICK j \in 1 .. Len(s) : r[k] = s[j] /\ j # n
    <3>1. k \in 1 .. Len(s) /\ k + 1 \in 1 .. Len(s) /\ k + 1 # k
      BY <1>1, <1>5
    <3>2. CASE k < n
      BY <1>1, <1>5, <3>1, <3>2
    <3>3. CASE ~ k < n
      BY <1>1, <1>5, <3>1, <3>3
    <3> QED
      BY <3>2, <3>3
  <2>3. s[j] # s[n]
    BY <1>1, <2>2 DEF Distinct
  <2> QED
    BY <2>2, <2>3 DEF Elements
<1>7. ASSUME NEW k \in 1 .. Len(s), k # n PROVE s[k] \in Elements(r)
  <2>1. CASE k < n
    <3>1. k \in 1 .. Len(r) /\ r[k] = s[k]
      BY <1>1, <1>5, <2>1
    <3> QED
      BY <3>1 DEF Elements
  <2>2. CASE k > n
    <3>1. k - 1 \in 1 .. Len(r) /\ r[k - 1] = s[k]
      BY <1>1, <1>5, <2>2
    <3> QED
      BY <3>1 DEF Elements
  <2> QED
    BY <1>1, <1>7, <2>1, <2>2
<1>8. Elements(r) = Elements(s) \ {s[n]}
  BY <1>6, <1>7 DEF Elements
<1>9. Distinct(r)
  BY <1>1, <1>5 DEF Distinct
<1>10. r # <<>> /\ r[1] = s[1]
  BY <1>1, <1>4, <1>5
<1> QED
  BY <1>4, <1>8, <1>9, <1>10 DEF RemoveAt, r, a, b

\* A loop that skips elements keeps the first, if it does not skip that one.
LEMMA KeepFirst ==
  ASSUME NEW X, NEW s \in Seq(X), NEW S, s # <<>>, s[1] \in S
  PROVE  Keep(s, S) # <<>> /\ Keep(s, S)[1] = s[1]
<1> DEFINE First(n) == Len(Kept(s, S)[n]) > 0 /\ Kept(s, S)[n][1] = s[1]
           T == {n \in Nat : n + 1 <= Len(s) => First(n + 1)}
<1>1. Len(s) \in Nat /\ Len(s) >= 1 /\ s[1] \in X
  OBVIOUS
<1>2. 0 \in T
  <2>1. Kept(s, S)[1] = Append(<<>>, s[1])
    BY <1>1, KeptTurns
  <2> QED
    BY <1>1, <2>1
<1>3. ASSUME NEW n \in T PROVE n + 1 \in T
  <2>1. ASSUME (n + 1) + 1 <= Len(s) PROVE First((n + 1) + 1)
    <3>1. (n + 1) + 1 \in 1 .. Len(s) /\ ((n + 1) + 1) - 1 = n + 1 /\ n + 1 \in 0 .. Len(s)
      BY <1>1, <2>1
    <3>2. First(n + 1)
      BY <2>1, <3>1
    <3>3. Kept(s, S)[n + 1] \in Seq(X) /\ s[(n + 1) + 1] \in X
      BY <3>1, KeptElements
    <3>4. Kept(s, S)[(n + 1) + 1] \in {Kept(s, S)[n + 1],
                                       Append(Kept(s, S)[n + 1], s[(n + 1) + 1])}
      BY <3>1, KeptTurns
    <3> DEFINE k == Kept(s, S)[n + 1]
               e == s[(n + 1) + 1]
    <3> HIDE DEF k, e
    <3>5. Len(Append(k, e)) > 0 /\ Append(k, e)[1] = k[1]
      BY <3>2, <3>3, AppendProperties DEF k, e
    <3> QED
      BY <3>2, <3>4, <3>5 DEF k, e
  <2> QED
    BY <2>1
<1>4. Len(s) - 1 \in T
  <2>1. Nat \subseteq T
    <3> HIDE DEF T
    <3> QED
      BY <1>2, <1>3, InductionOnSet
  <2> QED
    BY <1>1, <2>1
<1>5. (Len(s) - 1) + 1 = Len(s)
  BY <1>1
<1>6. First(Len(s))
  BY <1>1, <1>4, <1>5
<1> QED
  BY <1>6 DEF Keep

LoopInv == LoopTyped /\ TablesRight /\ EventsRight
EchoInv == KernelInv /\ LoopInv

LEMMA TableRange ==
  ASSUME LoopTyped
  PROVE  Range(table) = Elements(table) /\ (IsInjective(table) <=> Distinct(table))
<1>1. DOMAIN table = 1 .. Len(table)
  BY DEF LoopTyped
<1> QED
  BY <1>1 DEF Range, Elements, IsInjective, Distinct

\* What select, poll and epoll report.
LEMMA WatchedIs ==
  ASSUME KernelTyped, LoopTyped
  PROVE  /\ Watched \subseteq Elements(table) /\ Watched \subseteq Fds \cup {Listener}
         /\ Listener \in Watched => backlog # <<>>
         /\ \A fd \in Watched \ {Listener} :
              sock[fd] # NoConn /\ (inq[sock[fd]] = <<>> => peer[sock[fd]] = "gone")
<1>1. Watched \subseteq Elements(table)
  BY TableRange DEF Watched
<1>2. Elements(table) \subseteq Fds \cup {Listener}
  BY DEF Elements, LoopTyped
<1> QED
  BY <1>1, <1>2 DEF Watched, Readable

LEMMA EchoLeaves ==
  ASSUME KernelTyped, NEW fd \in Fds, Echo(fd)
  PROVE  /\ UNCHANGED <<kind, limit, alive, backlog, sock, peer, closed>> /\ OpenFds' = OpenFds
         /\ sock[fd] \in Conns
         /\ \A d \in Conns : d # sock[fd] => inq'[d] = inq[d]
<1>1. PICK pieces \in Received(fd) : Recv(fd, pieces)
  BY DEF Echo
<1>2. UNCHANGED <<kind, limit, alive, backlog, sock, peer, closed>>
      /\ sock[fd] \in Conns
      /\ inq' = [inq EXCEPT ![sock[fd]] = SubSeq(@, Len(pieces) + 1, Len(@))]
  BY <1>1 DEF Recv, KernelTyped
<1>3. OpenFds' = OpenFds
  BY <1>2 DEF OpenFds
<1>4. \A d \in Conns : d # sock[fd] => inq'[d] = inq[d]
  BY <1>2 DEF KernelTyped
<1> QED
  BY <1>2, <1>3, <1>4
LEMMA SendLeaves ==
  ASSUME NEW fd \in Fds, NEW nonblocking, Send(fd, nonblocking)
  PROVE  UNCHANGED <<kind, limit, backlog, sock, peer, sent, inq, closed>> /\ OpenFds' = OpenFds
BY DEF Send, OpenFds

\* The loop is not disturbed while it does not turn.
LEMMA LoopStays ==
  ASSUME KernelTyped, LoopInv, UNCHANGED <<loop, kind, sock>>,
         backlog # <<>> => backlog' # <<>>,
         \A c \in Conns : /\ inq'[c] = <<>> => inq[c] = <<>>
                          /\ peer[c] = "gone" => peer'[c] = "gone"
  PROVE  LoopInv'
<1>1. LoopTyped'
  BY DEF LoopInv, LoopTyped
<1>2. TablesRight'
  BY DEF LoopInv, TablesRight, OpenFds
<1>3. EventsRight'
  <2> SUFFICES ASSUME kind = "epoll", NEW fd \in ready \ {Listener}
               PROVE  sock[fd] # NoConn /\ (inq'[sock[fd]] = <<>> => peer'[sock[fd]] = "gone")
    BY DEF EventsRight
  <2>1. fd \in Fds /\ sock[fd] # NoConn /\ (inq[sock[fd]] = <<>> => peer[sock[fd]] = "gone")
    BY DEF LoopInv, EventsRight, LoopTyped
  <2>2. sock[fd] \in Conns
    BY <2>1 DEF KernelTyped
  <2> QED
    BY <2>1, <2>2
<1> QED
  BY <1>1, <1>2, <1>3 DEF LoopInv

LEMMA NotSending == ~ Sending => \A fd \in Fds : hand[fd] = <<>>
BY DEF Sending

\* What accept and close do to a table.
LEMMA TableGrows ==
  ASSUME LoopTyped, NEW fd \in Fds, Distinct(table), fd \notin Elements(table)
  PROVE  /\ Append(table, fd) \in Seq(Fds \cup {Listener}) /\ Append(table, fd) # <<>>
         /\ Elements(Append(table, fd)) = Elements(table) \cup {fd}
         /\ Distinct(Append(table, fd))
         /\ table # <<>> => Append(table, fd)[1] = table[1]
<1> DEFINE X == Fds \cup {Listener}
<1>1. table \in Seq(X) /\ fd \in X
  BY DEF LoopTyped
<1> HIDE DEF X
<1>2. /\ Append(table, fd) \in Seq(X) /\ Append(table, fd) # <<>>
      /\ table # <<>> => Append(table, fd)[1] = table[1]
  BY <1>1, AppendProperties
<1>3. /\ Elements(Append(table, fd)) = Elements(table) \cup {fd}
      /\ Distinct(Append(table, fd))
  BY <1>1, AppendElements
<1> QED
  BY <1>2, <1>3 DEF X

LEMMA TableKeeps ==
  ASSUME LoopTyped, NEW S, table # <<>>, table[1] = Listener, Distinct(table), Listener \notin S
  PROVE  LET kept == Keep(table, Range(table) \ S) IN
         /\ kept \in Seq(Fds \cup {Listener}) /\ kept # <<>> /\ kept[1] = Listener
         /\ Distinct(kept) /\ Elements(kept) = Elements(table) \ S
<1> DEFINE X == Fds \cup {Listener}
<1>1. table \in Seq(X)
  BY DEF LoopTyped
<1>2. Range(table) = Elements(table) /\ Listener \in Elements(table)
  <2>1. 1 \in 1 .. Len(table)
    BY <1>1
  <2> QED
    BY <2>1, TableRange DEF Elements
<1> HIDE DEF X
<1> DEFINE W == Range(table) \ S
<1>3. Listener \in W /\ Elements(table) \cap W = Elements(table) \ S
  BY <1>2
<1> HIDE DEF W
<1>4. /\ Keep(table, W) \in Seq(X) /\ Elements(Keep(table, W)) = Elements(table) \cap W
      /\ Distinct(Keep(table, W))
  BY <1>1, KeepElements
<1>5. Keep(table, W) # <<>> /\ Keep(table, W)[1] = Listener
  BY <1>1, <1>3, KeepFirst
<1> QED
  BY <1>3, <1>4, <1>5 DEF X, W

-----------------------------------------------------------------------------
(* select's steps                                                          *)

LEMMA SelectKeeps ==
  ASSUME EchoInv, select PROVE EchoInv'
<1>1. /\ kind = "select" /\ at = "wait" /\ ready' = Watched /\ at' = "accept"
      /\ UNCHANGED <<socketVars, table, i, disconnected>>
  BY DEF select
<1>2. KernelInv'
  BY <1>1, KernelStutters DEF EchoInv
<1>3. Watched \subseteq Fds \cup {Listener} /\ (Listener \in Watched => backlog # <<>>)
  BY WatchedIs DEF EchoInv, KernelInv, LoopInv
<1>4. LoopTyped'
  BY <1>1, <1>3 DEF EchoInv, LoopInv, LoopTyped
<1>5. TablesRight'
  BY <1>1, <1>3 DEF EchoInv, LoopInv, TablesRight, OpenFds
<1>6. EventsRight'
  BY <1>1 DEF EventsRight
<1> QED
  BY <1>2, <1>4, <1>5, <1>6 DEF EchoInv, LoopInv

LEMMA SelectAcceptKeeps ==
  ASSUME EchoInv, select_accept PROVE EchoInv'
<1>1. /\ kind = "select" /\ at = "accept" /\ at' = "visit" /\ i' = 2
      /\ UNCHANGED <<ready, disconnected>>
  BY DEF select_accept
<1>2. CASE UNCHANGED <<socketVars, table>>
  <2>1. KernelInv'
    BY <1>2, KernelStutters DEF EchoInv
  <2>2. LoopTyped' /\ TablesRight' /\ EventsRight'
    BY <1>1, <1>2 DEF EchoInv, LoopInv, LoopTyped, TablesRight, OpenFds, EventsRight
  <2> QED
    BY <2>1, <2>2 DEF EchoInv, LoopInv
<1>3. ASSUME NEW fd \in Fds, Listener \in ready, AcceptAs(fd), table' = Append(table, fd)
      PROVE  EchoInv'
  <2>1. KernelInv' /\ fd \notin OpenFds /\ OpenFds' = OpenFds \cup {fd}
    BY <1>1, <1>3, AcceptKeeps DEF EchoInv, LoopInv, TablesRight
  <2>2. kind' = kind
    BY <1>3 DEF AcceptAs
  <2>3. /\ disconnected = {} /\ table # <<>> /\ table[1] = Listener /\ Distinct(table)
        /\ Elements(table) = OpenFds \cup {Listener}
    BY <1>1 DEF EchoInv, LoopInv, TablesRight
  <2>4. fd \notin Elements(table)
    BY <2>1, <2>3, Kinds
  <2>5. /\ table' \in Seq(Fds \cup {Listener}) /\ table' # <<>> /\ table'[1] = Listener
        /\ Elements(table') = Elements(table) \cup {fd} /\ Distinct(table')
    BY <1>3, <2>3, <2>4, TableGrows DEF EchoInv, LoopInv
  <2>6. LoopTyped'
    BY <1>1, <2>5 DEF EchoInv, LoopInv, LoopTyped
  <2>7. TablesRight'
    BY <1>1, <2>1, <2>2, <2>3, <2>5 DEF TablesRight
  <2>8. EventsRight'
    BY <1>1, <2>2 DEF EventsRight
  <2> QED
    BY <2>1, <2>6, <2>7, <2>8 DEF EchoInv, LoopInv
<1> QED
  BY <1>2, <1>3 DEF select_accept

LEMMA SelectClientKeeps ==
  ASSUME EchoInv, select_client PROVE EchoInv'
<1>1. /\ kind = "select" /\ at = "visit" /\ ~ Sending /\ i <= Len(table) /\ i' = i + 1
      /\ UNCHANGED <<at, table, ready>>
  BY DEF select_client
<1>2. /\ table # <<>> /\ table[1] = Listener /\ Distinct(table) /\ i >= 2 /\ i \in Nat
      /\ Elements(table) = OpenFds \cup {Listener} \cup disconnected
      /\ OpenFds \cap disconnected = {}
  BY <1>1 DEF EchoInv, LoopInv, LoopTyped, TablesRight
<1> DEFINE fd == table[i]
<1>3. fd \in Fds
  <2>1. i \in 1 .. Len(table) /\ 1 \in 1 .. Len(table) /\ i # 1 /\ table[i] \in Fds \cup {Listener}
    BY <1>1, <1>2 DEF EchoInv, LoopInv, LoopTyped
  <2> QED
    BY <1>2, <2>1 DEF Distinct
<1>4. i' \in Nat \ {0} /\ i' >= 2
  BY <1>1, <1>2
<1>5. hand[fd] = <<>>
  BY <1>1, <1>3, NotSending
<1>6. CASE UNCHANGED <<socketVars, disconnected>>
  <2>1. KernelInv'
    BY <1>6, KernelStutters DEF EchoInv
  <2>2. LoopTyped' /\ TablesRight' /\ EventsRight'
    BY <1>1, <1>4, <1>6 DEF EchoInv, LoopInv, LoopTyped, TablesRight, OpenFds, EventsRight
  <2> QED
    BY <2>1, <2>2 DEF EchoInv, LoopInv
<1>7. CASE Echo(fd) /\ UNCHANGED disconnected
  <2>1. KernelInv'
    BY <1>1, <1>3, <1>5, <1>7, EchoKeeps DEF EchoInv
  <2>2. kind' = kind /\ OpenFds' = OpenFds /\ backlog' = backlog
    BY <1>3, <1>7, EchoLeaves DEF EchoInv, KernelInv
  <2>3. LoopTyped' /\ TablesRight' /\ EventsRight'
    BY <1>1, <1>4, <1>7, <2>2 DEF EchoInv, LoopInv, LoopTyped, TablesRight, EventsRight
  <2> QED
    BY <2>1, <2>3 DEF EchoInv, LoopInv
<1>8. CASE RecvNothing(fd) /\ CloseFd(fd) /\ disconnected' = disconnected \cup {fd}
  <2>1. sock[fd] # NoConn /\ peer[sock[fd]] = "gone"
    BY <1>8 DEF RecvNothing
  <2>2. KernelInv' /\ OpenFds' = OpenFds \ {fd}
    BY <1>3, <1>5, <1>8, <2>1, CloseKeeps DEF EchoInv
  <2>3. kind' = kind /\ backlog' = backlog /\ fd \in OpenFds
    BY <1>3, <1>8, <2>1 DEF CloseFd, OpenFds
  <2> HIDE DEF fd
  <2>4. LoopTyped'
    BY <1>1, <1>3, <1>4, <1>8 DEF EchoInv, LoopInv, LoopTyped
  <2>5. TablesRight'
    BY <1>1, <1>2, <1>4, <1>8, <2>2, <2>3 DEF TablesRight
  <2>6. EventsRight'
    BY <1>1, <2>3 DEF EventsRight
  <2> QED
    BY <2>2, <2>4, <2>5, <2>6 DEF EchoInv, LoopInv
<1> QED
  BY <1>6, <1>7, <1>8 DEF select_client

LEMMA SelectEndKeeps ==
  ASSUME EchoInv, select_end PROVE EchoInv'
<1>1. /\ kind = "select" /\ at' = "wait" /\ i' = 1 /\ ready' = {} /\ disconnected' = {}
      /\ table' = Keep(table, Range(table) \ disconnected) /\ UNCHANGED socketVars
  BY DEF select_end
<1>2. /\ table # <<>> /\ table[1] = Listener /\ Distinct(table) /\ disconnected \subseteq Fds
      /\ Elements(table) = OpenFds \cup {Listener} \cup disconnected
      /\ OpenFds \cap disconnected = {} /\ Listener \notin disconnected
  BY <1>1, Kinds DEF EchoInv, LoopInv, LoopTyped, TablesRight
<1>3. /\ table' \in Seq(Fds \cup {Listener}) /\ table' # <<>> /\ table'[1] = Listener
      /\ Distinct(table') /\ Elements(table') = Elements(table) \ disconnected
  BY <1>1, <1>2, TableKeeps DEF EchoInv, LoopInv
<1>4. KernelInv'
  BY <1>1, KernelStutters DEF EchoInv
<1>5. OpenFds' = OpenFds /\ Elements(table') = OpenFds \cup {Listener}
  BY <1>1, <1>2, <1>3 DEF OpenFds
<1>6. LoopTyped'
  BY <1>1, <1>3 DEF LoopTyped
<1>7. TablesRight'
  BY <1>1, <1>3, <1>5 DEF TablesRight
<1>8. EventsRight'
  BY <1>1 DEF EventsRight
<1> QED
  BY <1>4, <1>6, <1>7, <1>8 DEF EchoInv, LoopInv
-----------------------------------------------------------------------------
(* poll's steps                                                            *)

LEMMA PollKeeps ==
  ASSUME EchoInv, poll \/ poll_end PROVE EchoInv'
<1>1. /\ kind = "poll" /\ ready' \in {Watched, ready} /\ at' \in {"visit", "wait"} /\ i' = 1
      /\ UNCHANGED <<socketVars, table, disconnected>>
  BY DEF poll, poll_end
<1>2. KernelInv'
  BY <1>1, KernelStutters DEF EchoInv
<1>3. Watched \subseteq Fds \cup {Listener} /\ (Listener \in Watched => backlog # <<>>)
  BY WatchedIs DEF EchoInv, KernelInv, LoopInv
<1>4. LoopTyped'
  BY <1>1, <1>3 DEF EchoInv, LoopInv, LoopTyped
<1>5. TablesRight'
  BY <1>1, <1>3 DEF EchoInv, LoopInv, TablesRight, OpenFds
<1>6. EventsRight'
  BY <1>1 DEF EventsRight
<1> QED
  BY <1>2, <1>4, <1>5, <1>6 DEF EchoInv, LoopInv

LEMMA PollEntryKeeps ==
  ASSUME EchoInv, poll_entry PROVE EchoInv'
<1> DEFINE fd == table[i]
<1>1. /\ kind = "poll" /\ at = "visit" /\ ~ Sending /\ i <= Len(table)
      /\ ready' = ready \ {fd} /\ UNCHANGED <<at, disconnected>>
  BY DEF poll_entry
<1>2. /\ table # <<>> /\ table[1] = Listener /\ Distinct(table) /\ disconnected = {}
      /\ Elements(table) = OpenFds \cup {Listener}
      /\ Listener \in ready => backlog # <<>>
  BY <1>1 DEF EchoInv, LoopInv, TablesRight
<1>3. i \in 1 .. Len(table) /\ fd \in Fds \cup {Listener} /\ i \in Nat
      /\ (fd # Listener => i # 1 /\ fd \in Fds /\ hand[fd] = <<>>)
      /\ i + 1 \in Nat \ {0}
  BY <1>1, <1>2, NotSending DEF EchoInv, LoopInv, LoopTyped
<1>4. CASE i' = i + 1 /\ UNCHANGED <<socketVars, table>>
  <2>1. KernelInv'
    BY <1>4, KernelStutters DEF EchoInv
  <2>2. LoopTyped' /\ TablesRight' /\ EventsRight'
    BY <1>1, <1>3, <1>4 DEF EchoInv, LoopInv, LoopTyped, TablesRight, OpenFds, EventsRight
  <2> QED
    BY <2>1, <2>2 DEF EchoInv, LoopInv
<1>5. ASSUME NEW new \in Fds, fd \in ready, fd = Listener, AcceptAs(new),
             table' = Append(table, new), i' = i + 1
      PROVE  EchoInv'
  <2>1. KernelInv' /\ new \notin OpenFds /\ OpenFds' = OpenFds \cup {new}
    BY <1>2, <1>5, AcceptKeeps DEF EchoInv
  <2>2. kind' = kind /\ new \notin Elements(table)
    BY <1>2, <1>5, <2>1, Kinds DEF AcceptAs
  <2>3. /\ table' \in Seq(Fds \cup {Listener}) /\ table' # <<>> /\ table'[1] = Listener
        /\ Elements(table') = Elements(table) \cup {new} /\ Distinct(table')
    BY <1>2, <1>5, <2>2, TableGrows DEF EchoInv, LoopInv
  <2>4. LoopTyped'
    BY <1>1, <1>3, <1>5, <2>3 DEF EchoInv, LoopInv, LoopTyped
  <2>5. TablesRight'
    BY <1>1, <1>2, <1>5, <2>1, <2>2, <2>3 DEF TablesRight
  <2>6. EventsRight'
    BY <1>1, <2>2 DEF EventsRight
  <2> QED
    BY <2>1, <2>4, <2>5, <2>6 DEF EchoInv, LoopInv
<1>6. CASE fd # Listener /\ Echo(fd) /\ i' = i + 1 /\ UNCHANGED table
  <2>1. KernelInv'
    BY <1>1, <1>3, <1>6, EchoKeeps DEF EchoInv
  <2>2. kind' = kind /\ OpenFds' = OpenFds /\ backlog' = backlog
    BY <1>3, <1>6, EchoLeaves DEF EchoInv, KernelInv
  <2>3. LoopTyped' /\ TablesRight' /\ EventsRight'
    BY <1>1, <1>3, <1>6, <2>2 DEF EchoInv, LoopInv, LoopTyped, TablesRight, EventsRight
  <2> QED
    BY <2>1, <2>3 DEF EchoInv, LoopInv
<1>7. CASE fd # Listener /\ RecvNothing(fd) /\ CloseFd(fd)
             /\ table' = RemoveAt(table, i) /\ UNCHANGED i
  <2>1. sock[fd] # NoConn /\ peer[sock[fd]] = "gone"
    BY <1>7 DEF RecvNothing
  <2>2. KernelInv' /\ OpenFds' = OpenFds \ {fd}
    BY <1>3, <1>7, <2>1, CloseKeeps DEF EchoInv
  <2>3. kind' = kind /\ backlog' = backlog
    BY <1>7 DEF CloseFd
  <2>4. /\ table' \in Seq(Fds \cup {Listener}) /\ table' # <<>> /\ table'[1] = Listener
        /\ Elements(table') = Elements(table) \ {fd} /\ Distinct(table')
    <3> DEFINE X == Fds \cup {Listener}
    <3>1. table \in Seq(X)
      BY DEF EchoInv, LoopInv, LoopTyped
    <3> HIDE DEF X
    <3>2. /\ RemoveAt(table, i) \in Seq(X) /\ RemoveAt(table, i) # <<>>
          /\ RemoveAt(table, i)[1] = table[1]
          /\ Elements(RemoveAt(table, i)) = Elements(table) \ {table[i]}
          /\ Distinct(RemoveAt(table, i))
      BY <1>2, <1>3, <1>7, <3>1, RemoveElements
    <3> QED
      BY <1>2, <1>7, <3>2 DEF X
  <2> HIDE DEF fd
  <2>5. LoopTyped'
    BY <1>1, <1>7, <2>4 DEF EchoInv, LoopInv, LoopTyped
  <2>6. TablesRight'
    BY <1>1, <1>2, <1>7, <2>2, <2>3, <2>4 DEF TablesRight
  <2>7. EventsRight'
    BY <1>1, <2>3 DEF EventsRight
  <2> QED
    BY <2>2, <2>5, <2>6, <2>7 DEF EchoInv, LoopInv
<1> QED
  BY <1>4, <1>5, <1>6, <1>7 DEF poll_entry

-----------------------------------------------------------------------------
(* epoll's steps                                                           *)

LEMMA EpollKeeps ==
  ASSUME EchoInv, epoll_wait \/ epoll_end PROVE EchoInv'
<1>1. /\ kind = "epoll" /\ at' \in {"visit", "wait"}
      /\ ready' = Watched \/ ready' = ready
      /\ UNCHANGED <<socketVars, table, i, disconnected>>
  BY DEF epoll_wait, epoll_end
<1>2. KernelInv'
  BY <1>1, KernelStutters DEF EchoInv
<1>3. /\ Watched \subseteq Fds \cup {Listener} /\ (Listener \in Watched => backlog # <<>>)
      /\ \A fd \in Watched \ {Listener} :
           sock[fd] # NoConn /\ (inq[sock[fd]] = <<>> => peer[sock[fd]] = "gone")
  BY WatchedIs DEF EchoInv, KernelInv, LoopInv
<1>4. LoopTyped'
  BY <1>1, <1>3 DEF EchoInv, LoopInv, LoopTyped
<1>5. TablesRight'
  BY <1>1, <1>3 DEF EchoInv, LoopInv, TablesRight, OpenFds
<1>6. EventsRight'
  BY <1>1, <1>3 DEF EchoInv, LoopInv, EventsRight
<1> QED
  BY <1>2, <1>4, <1>5, <1>6 DEF EchoInv, LoopInv

LEMMA EpollAcceptKeeps ==
  ASSUME EchoInv, epoll_accept PROVE EchoInv'
<1>1. /\ kind = "epoll" /\ at = "visit" /\ Listener \in ready /\ ready' = ready \ {Listener}
      /\ UNCHANGED <<at, i, disconnected>>
  BY DEF epoll_accept
<1>2. /\ table # <<>> /\ table[1] = Listener /\ Distinct(table) /\ disconnected = {}
      /\ Elements(table) = OpenFds \cup {Listener}
      /\ backlog # <<>>
  BY <1>1 DEF EchoInv, LoopInv, TablesRight
<1>3. CASE UNCHANGED <<socketVars, table>>
  <2>1. KernelInv'
    BY <1>3, KernelStutters DEF EchoInv
  <2>2. LoopTyped' /\ TablesRight' /\ EventsRight'
    BY <1>1, <1>3 DEF EchoInv, LoopInv, LoopTyped, TablesRight, OpenFds, EventsRight
  <2> QED
    BY <2>1, <2>2 DEF EchoInv, LoopInv
<1>4. ASSUME NEW new \in Fds, AcceptAs(new), table' = Append(table, new)
      PROVE  EchoInv'
  <2>1. KernelInv' /\ new \notin OpenFds /\ OpenFds' = OpenFds \cup {new}
    BY <1>2, <1>4, AcceptKeeps DEF EchoInv
  <2>2. /\ UNCHANGED <<kind, peer, inq>> /\ new \notin Elements(table)
        /\ \A f \in Fds : f # new => sock'[f] = sock[f]
    BY <1>2, <1>4, <2>1, Kinds DEF AcceptAs, EchoInv, KernelInv, KernelTyped
  <2>3. /\ table' \in Seq(Fds \cup {Listener}) /\ table' # <<>> /\ table'[1] = Listener
        /\ Elements(table') = Elements(table) \cup {new} /\ Distinct(table')
    BY <1>2, <1>4, <2>2, TableGrows DEF EchoInv, LoopInv
  <2>4. LoopTyped'
    BY <1>1, <2>3 DEF EchoInv, LoopInv, LoopTyped
  <2>5. TablesRight'
    BY <1>1, <1>2, <2>1, <2>2, <2>3 DEF TablesRight
  <2>6. EventsRight'
    <3>1. \A f \in ready \ {Listener} :
            /\ f \in Fds /\ f # new
            /\ sock[f] # NoConn /\ (inq[sock[f]] = <<>> => peer[sock[f]] = "gone")
      BY <1>1, <2>1 DEF EchoInv, LoopInv, LoopTyped, EventsRight, OpenFds
    <3> QED
      BY <1>1, <2>2, <3>1 DEF EventsRight
  <2> QED
    BY <2>1, <2>4, <2>5, <2>6 DEF EchoInv, LoopInv
<1> QED
  BY <1>3, <1>4 DEF epoll_accept

LEMMA EpollClientKeeps ==
  ASSUME EchoInv, epoll_client PROVE EchoInv'
<1>1. /\ kind = "epoll" /\ at = "visit" /\ ~ Sending /\ UNCHANGED <<at, i, disconnected>>
  BY DEF epoll_client
<1>2. /\ table # <<>> /\ table[1] = Listener /\ Distinct(table) /\ disconnected = {}
      /\ Elements(table) = OpenFds \cup {Listener}
      /\ Listener \in ready => backlog # <<>>
  BY <1>1 DEF EchoInv, LoopInv, TablesRight
<1>3. PICK fd \in ready \ {Listener} :
       /\ ready' = ready \ {fd}
       /\ \/ Echo(fd) /\ UNCHANGED table
          \/ /\ inq[sock[fd]] = <<>> /\ CloseFd(fd)
             /\ table' = Keep(table, Range(table) \ {fd})
  BY DEF epoll_client
<1>4. /\ fd \in Fds /\ hand[fd] = <<>> /\ sock[fd] # NoConn
      /\ inq[sock[fd]] = <<>> => peer[sock[fd]] = "gone"
  BY <1>1, NotSending DEF EchoInv, LoopInv, LoopTyped, EventsRight
<1>5. \A f \in ready' \ {Listener} :
        /\ f \in Fds /\ f # fd /\ sock[f] # sock[fd] /\ sock[f] \in Conns
        /\ sock[f] # NoConn /\ (inq[sock[f]] = <<>> => peer[sock[f]] = "gone")
  BY <1>1, <1>3, <1>4
     DEF EchoInv, LoopInv, LoopTyped, EventsRight, KernelInv, KernelTyped, ConnsRight
<1>6. CASE Echo(fd) /\ UNCHANGED table
  <2>1. KernelInv'
    BY <1>1, <1>4, <1>6, EchoKeeps DEF EchoInv
  <2>2. /\ UNCHANGED <<kind, sock, backlog, peer>> /\ OpenFds' = OpenFds
        /\ \A d \in Conns : d # sock[fd] => inq'[d] = inq[d]
    BY <1>4, <1>6, EchoLeaves DEF EchoInv, KernelInv
  <2>3. LoopTyped' /\ TablesRight'
    BY <1>1, <1>3, <1>6, <2>2 DEF EchoInv, LoopInv, LoopTyped, TablesRight
  <2>4. EventsRight'
    BY <1>5, <2>2 DEF EventsRight
  <2> QED
    BY <2>1, <2>3, <2>4 DEF EchoInv, LoopInv
<1>7. CASE /\ inq[sock[fd]] = <<>> /\ CloseFd(fd)
           /\ table' = Keep(table, Range(table) \ {fd})
  <2>1. /\ KernelInv' /\ OpenFds' = OpenFds \ {fd}
        /\ \A f \in Fds : f # fd => sock'[f] = sock[f]
    BY <1>4, <1>7, CloseKeeps DEF EchoInv
  <2>2. UNCHANGED <<kind, backlog, peer, inq>>
    BY <1>7 DEF CloseFd
  <2>3. /\ table' \in Seq(Fds \cup {Listener}) /\ table' # <<>> /\ table'[1] = Listener
        /\ Distinct(table') /\ Elements(table') = Elements(table) \ {fd}
    <3> DEFINE S == {fd}
    <3>1. Listener \notin S
      BY <1>4, Kinds
    <3> HIDE DEF S
    <3>2. LET kept == Keep(table, Range(table) \ S) IN
          /\ kept \in Seq(Fds \cup {Listener}) /\ kept # <<>> /\ kept[1] = Listener
          /\ Distinct(kept) /\ Elements(kept) = Elements(table) \ S
      BY <1>2, <3>1, TableKeeps DEF EchoInv, LoopInv
    <3> QED
      BY <1>7, <3>2 DEF S
  <2>4. LoopTyped'
    BY <1>1, <1>3, <2>3 DEF EchoInv, LoopInv, LoopTyped
  <2>5. TablesRight'
    BY <1>1, <1>2, <1>3, <1>4, <2>1, <2>2, <2>3, Kinds DEF TablesRight
  <2>6. EventsRight'
    BY <1>5, <2>1, <2>2 DEF EventsRight
  <2> QED
    BY <2>1, <2>4, <2>5, <2>6 DEF EchoInv, LoopInv
<1> QED
  BY <1>3, <1>6, <1>7
-----------------------------------------------------------------------------
(* send, and the servers that have no table                                *)

LEMMA LoopSendKeeps ==
  ASSUME EchoInv, NEW fd \in Fds, NEW nonblocking \in BOOLEAN, Send(fd, nonblocking),
         nonblocking => kind = "epoll", UNCHANGED loop
  PROVE  EchoInv'
<1>1. KernelInv'
  BY SendKeeps DEF EchoInv
<1>2. UNCHANGED <<kind, limit, backlog, sock, peer, sent, inq, closed>>
  BY SendLeaves
<1>3. LoopInv'
  BY <1>2, LoopStays DEF EchoInv, KernelInv
<1> QED
  BY <1>1, <1>3 DEF EchoInv

LEMMA NoTable ==
  ASSUME LoopInv, kind \in {"threads", "once"}, kind' = kind,
         UNCHANGED <<table, ready, i, disconnected>>,
         at' = at \/ (kind = "once" /\ at' \in {"visit", "ended"})
  PROVE  LoopInv'
<1>1. LoopTyped'
  BY DEF LoopInv, LoopTyped
<1>2. TablesRight' /\ EventsRight'
  BY DEF LoopInv, TablesRight, EventsRight
<1> QED
  BY <1>1, <1>2 DEF LoopInv

LEMMA ThreadsKeep ==
  ASSUME EchoInv, thread_accept \/ \E fd \in Fds : handle_client(fd)
  PROVE  EchoInv'
<1>1. CASE thread_accept
  <2>1. PICK fd \in Fds : AcceptAs(fd)
    BY <1>1 DEF thread_accept
  <2>2. kind = "threads" /\ backlog # <<>> /\ UNCHANGED loop
    BY <1>1 DEF thread_accept
  <2>3. KernelInv' /\ kind' = kind
    BY <2>1, <2>2, AcceptKeeps DEF EchoInv, AcceptAs
  <2>4. LoopInv'
    BY <2>2, <2>3, NoTable DEF EchoInv
  <2> QED
    BY <2>3, <2>4 DEF EchoInv
<1>2. ASSUME NEW fd \in Fds, handle_client(fd) PROVE EchoInv'
  <2>1. kind = "threads" /\ sock[fd] # NoConn /\ UNCHANGED loop
    BY <1>2 DEF handle_client
  <2>2. CASE hand[fd] = <<>> /\ Echo(fd)
    <3>1. KernelInv' /\ kind' = kind
      BY <2>1, <2>2, EchoKeeps, EchoLeaves DEF EchoInv, KernelInv
    <3>2. LoopInv'
      BY <2>1, <3>1, NoTable DEF EchoInv
    <3> QED
      BY <3>1, <3>2 DEF EchoInv
  <2>3. CASE Send(fd, FALSE)
    BY <2>1, <2>3, LoopSendKeeps
  <2>4. CASE hand[fd] = <<>> /\ RecvNothing(fd) /\ CloseFd(fd)
    <3>1. peer[sock[fd]] = "gone"
      BY <2>4 DEF RecvNothing
    <3>2. KernelInv' /\ kind' = kind
      BY <2>1, <2>4, <3>1, CloseKeeps DEF EchoInv, CloseFd
    <3>3. LoopInv'
      BY <2>1, <3>2, NoTable DEF EchoInv
    <3> QED
      BY <3>2, <3>3 DEF EchoInv
  <2> QED
    BY <1>2, <2>2, <2>3, <2>4 DEF handle_client
<1> QED
  BY <1>1, <1>2

LEMMA OnceKeeps ==
  ASSUME EchoInv, once_accept \/ once_client
  PROVE  EchoInv'
<1>1. CASE once_accept
  <2>1. PICK fd \in Fds : AcceptAs(fd)
    BY <1>1 DEF once_accept
  <2>2. /\ kind = "once" /\ backlog # <<>> /\ at' = "visit"
        /\ UNCHANGED <<table, ready, i, disconnected>>
    BY <1>1 DEF once_accept
  <2>3. KernelInv' /\ kind' = kind
    BY <2>1, <2>2, AcceptKeeps DEF EchoInv, AcceptAs
  <2>4. LoopInv'
    BY <2>2, <2>3, NoTable DEF EchoInv
  <2> QED
    BY <2>3, <2>4 DEF EchoInv
<1>2. CASE once_client
  <2>1. PICK fd \in OpenFds :
       \/ ~ Sending /\ Echo(fd) /\ UNCHANGED at
       \/ Send(fd, FALSE) /\ UNCHANGED at
       \/ ~ Sending /\ RecvNothing(fd) /\ CloseFd(fd) /\ at' = "ended"
    BY <1>2 DEF once_client
  <2>2. kind = "once" /\ UNCHANGED <<table, ready, i, disconnected>>
    BY <1>2 DEF once_client
  <2>3. fd \in Fds /\ sock[fd] # NoConn /\ (~ Sending => hand[fd] = <<>>)
    BY NotSending DEF OpenFds
  <2>4. CASE ~ Sending /\ Echo(fd) /\ UNCHANGED at
    <3>1. KernelInv' /\ kind' = kind
      BY <2>2, <2>3, <2>4, EchoKeeps, EchoLeaves DEF EchoInv, KernelInv
    <3>2. LoopInv'
      BY <2>2, <2>4, <3>1, NoTable DEF EchoInv
    <3> QED
      BY <3>1, <3>2 DEF EchoInv
  <2>5. CASE Send(fd, FALSE) /\ UNCHANGED at
    BY <2>2, <2>3, <2>5, LoopSendKeeps
  <2>6. CASE ~ Sending /\ RecvNothing(fd) /\ CloseFd(fd) /\ at' = "ended"
    <3>1. peer[sock[fd]] = "gone"
      BY <2>6 DEF RecvNothing
    <3>2. KernelInv' /\ kind' = kind
      BY <2>2, <2>3, <2>6, <3>1, CloseKeeps DEF EchoInv, CloseFd
    <3>3. LoopInv'
      BY <2>2, <2>6, <3>2, NoTable DEF EchoInv
    <3> QED
      BY <3>2, <3>3 DEF EchoInv
  <2> QED
    BY <2>1, <2>4, <2>5, <2>6
<1> QED
  BY <1>1, <1>2

LEMMA EchoStepKeeps ==
  EchoInv /\ EchoStep => EchoInv' /\ kind \in EchoKinds /\ kind' = kind
<1> SUFFICES ASSUME EchoInv, EchoStep PROVE EchoInv' /\ kind \in EchoKinds /\ kind' = kind
  OBVIOUS
<1>1. ASSUME echo_send PROVE EchoInv'
  <2>1. PICK fd \in Fds : Send(fd, kind = "epoll")
    BY <1>1 DEF echo_send
  <2>2. UNCHANGED loop /\ (kind = "epoll") \in BOOLEAN
    BY <1>1 DEF echo_send
  <2> QED
    BY <2>1, <2>2, LoopSendKeeps
<1>2. EchoInv'
  BY <1>1, SelectKeeps, SelectAcceptKeeps, SelectClientKeeps, SelectEndKeeps, PollKeeps,
     PollEntryKeeps, EpollKeeps, EpollAcceptKeeps, EpollClientKeeps, OnceKeeps, ThreadsKeep
     DEF EchoStep, Loop
<1>3. kind \in EchoKinds
  BY DEF EchoStep, Loop, select, select_accept, select_client, select_end, poll, poll_entry,
         poll_end, epoll_wait, epoll_accept, epoll_client, epoll_end, echo_send, once_accept,
         once_client, thread_accept, handle_client, EchoKinds
<1>4. kind' = kind
  BY DEF EchoStep, Loop, select, select_accept, select_client, select_end, poll, poll_entry,
         poll_end, epoll_wait, epoll_accept, epoll_client, epoll_end, echo_send, once_accept,
         once_client, thread_accept, handle_client, AcceptAs, Echo, Recv, CloseFd, Send
<1> QED
  BY <1>2, <1>3, <1>4

LEMMA HttpStepKeeps ==
  ASSUME HttpInv, LoopInv, HttpStep, UNCHANGED loop
  PROVE  HttpInv' /\ LoopInv'
<1>1. HttpInv'
  BY StartKeeps, ReadKeeps, ResponseKeeps, EndKeeps DEF HttpStep, HttpThread
<1>2. kind = "http" /\ kind' = kind
  BY DEF HttpStep, HttpThread, start, read_request, send_response, handle_clientEnd, AcceptAs,
         Recv, CloseFd, Send
<1>3. LoopTyped' /\ TablesRight' /\ EventsRight'
  BY <1>2 DEF LoopInv, LoopTyped, TablesRight, EventsRight
<1> QED
  BY <1>1, <1>3 DEF LoopInv

-----------------------------------------------------------------------------
(* The invariant                                                           *)

LEMMA ServersInvIs == ServersInv <=> KernelInv /\ LoopInv /\ HttpTyped /\ ResponsesRight
BY DEF ServersInv, KernelInv, LoopInv

LEMMA ServersInitially == Init => ServersInv
<1> SUFFICES ASSUME Init PROVE ServersInv
  OBVIOUS
<1>1. SocketsInit
  BY DEF Init
<1>2. kind \in EchoKinds \cup {"http"} /\ want \in [Conns -> Paths \cup {NoPath}]
      /\ phase = [fd \in Fds |-> "recv"]
  BY DEF Init, EchoInit, HttpInit, NoHttp, select_start, poll_start, epoll_start,
         threads_start, once_start, EchoKinds
<1>3. KernelTyped
  <2>1. <<>> \in Seq(Conns) /\ <<>> \in Seq(Pieces) /\ <<>> \in Seq(Wire)
    OBVIOUS
  <2> QED
    BY <1>1, <1>2, <2>1, Kinds DEF SocketsInit, KernelTyped
<1>4. HttpTyped
  BY <1>2 DEF HttpTyped
<1>5. ConnsRight
  BY <1>1, Kinds DEF SocketsInit, ConnsRight, Elements, Distinct
<1>6. Untouched
  <2>1. \A c \in Conns : AllOf(c) = <<>>
    <3> SUFFICES ASSUME NEW c \in Conns PROVE AllOf(c) = <<>>
      OBVIOUS
    <3>1. sent[c] = 0
      BY <1>1 DEF SocketsInit
    <3>2. AllOf(c) \in Seq(Pieces) /\ Len(AllOf(c)) = 0
      BY <1>3, <3>1, AllOfTyped
    <3> QED
      BY <3>2
  <2> QED
    BY <1>1, <2>1 DEF SocketsInit, Untouched
<1>7. EchoRight
  BY <1>1, Kinds DEF SocketsInit, EchoRight
<1>8. /\ AtStart /\ disconnected = {} /\ table \in {<<>>, <<Listener>>}
      /\ kind \in {"threads", "once", "http"} => table = <<>>
      /\ kind \in {"select", "poll", "epoll"} => table = <<Listener>>
  BY DEF Init, EchoInit, HttpInit, NoLoop, select_start, poll_start, epoll_start,
         threads_start, once_start
<1>9. LoopTyped
  <2>1. <<>> \in Seq(Fds \cup {Listener}) /\ <<Listener>> \in Seq(Fds \cup {Listener})
    OBVIOUS
  <2>2. table \in Seq(Fds \cup {Listener})
    BY <1>8, <2>1
  <2> QED
    BY <1>8, <2>2 DEF LoopTyped, AtStart
<1>10. TablesRight
  <2>1. OpenFds = {}
    BY <1>1 DEF SocketsInit, OpenFds
  <2>2. <<Listener>> # <<>> /\ <<Listener>>[1] = Listener /\ Distinct(<<Listener>>)
        /\ Elements(<<Listener>>) = {Listener}
    BY DEF Distinct, Elements
  <2> QED
    BY <1>8, <2>1, <2>2 DEF TablesRight, AtStart
<1>11. EventsRight
  BY <1>8 DEF EventsRight, AtStart
<1>12. ResponsesRight
  <2> SUFFICES ASSUME kind = "http" PROVE AllServed
    BY ResponsesAre DEF ResponsesRight
  <2>1. \A fd \in Fds : Idle(fd)
    BY <1>1, <1>2 DEF SocketsInit, Idle
  <2>2. \A fd \in Fds : \A c \in Conns : sock[fd] # c
    BY <1>1, Kinds DEF SocketsInit
  <2>3. ASSUME NEW c \in Conns PROVE Own(c)
    <3>1. Arrived(c) = 0 /\ parsed(0, want[c]) = {NoPath} /\ NoPath \in Asked
      BY <1>1, <1>2, ParsedSome DEF SocketsInit, Arrived, Asked
    <3>2. handle(NoPath) \in Seq(Wire)
      BY <3>1, HandleIs
    <3>3. IsPrefix(<<>>, handle(NoPath)) /\ heard[c] = <<>> /\ c \notin closed
      BY <1>1, <3>2, PrefixOfConcat DEF SocketsInit
    <3> QED
      BY <3>1, <3>3 DEF Own
  <2> QED
    BY <2>1, <2>2, <2>3 DEF AllServed
<1> QED
  BY <1>3, <1>4, <1>5, <1>6, <1>7, <1>9, <1>10, <1>11, <1>12 DEF ServersInv

LEMMA ServersInductive == ServersInv /\ [Next]_vars => ServersInv'
<1> SUFFICES ASSUME ServersInv, [Next]_vars PROVE ServersInv'
  OBVIOUS
<1>1. KernelInv /\ LoopInv /\ HttpTyped /\ ResponsesRight
  BY ServersInvIs
<1> SUFFICES KernelInv' /\ LoopInv' /\ HttpTyped' /\ ResponsesRight'
  BY DEF ServersInv, KernelInv, LoopInv
<1>2. CASE EchoStep /\ UNCHANGED httpVars
  <2>1. EchoInv' /\ kind \in EchoKinds /\ kind' = kind
    BY <1>1, <1>2, EchoStepKeeps DEF EchoInv
  <2>2. HttpTyped'
    BY <1>1, <1>2 DEF HttpTyped
  <2>3. ResponsesRight'
    BY <2>1, Kinds DEF ResponsesRight
  <2> QED
    BY <2>1, <2>2, <2>3 DEF EchoInv
<1>3. CASE HttpStep /\ UNCHANGED loop
  BY <1>1, <1>3, HttpStepKeeps DEF HttpInv
<1>4. ASSUME NEW c \in Conns, ClientStep(c), UNCHANGED <<loop, httpVars>>
      PROVE  KernelInv' /\ LoopInv' /\ HttpTyped' /\ ResponsesRight'
  <2>1. HttpInv'
    BY <1>1, <1>4, ClientKeepsResponses DEF HttpInv
  <2>2. UNCHANGED <<kind, sock>> /\ (backlog # <<>> => backlog' # <<>>)
    BY <1>1, <1>4 DEF ClientStep, Connect, SendPiece, ReadPiece, Hangup, KernelInv, KernelTyped
  <2>3. \A d \in Conns : /\ inq'[d] = <<>> => inq[d] = <<>>
                         /\ peer[d] = "gone" => peer'[d] = "gone"
    BY <1>1, <1>4 DEF ClientStep, Connect, SendPiece, ReadPiece, Hangup, KernelInv, KernelTyped
  <2>4. LoopInv'
    BY <1>1, <1>4, <2>2, <2>3, LoopStays DEF KernelInv
  <2> QED
    BY <2>1, <2>4 DEF HttpInv
<1>5. CASE UNCHANGED vars
  <2>1. KernelInv'
    BY <1>1, <1>5, KernelStutters
  <2>2. LoopInv'
    BY <1>1, <1>5, LoopStays DEF KernelInv
  <2>3. HttpTyped'
    BY <1>1, <1>5 DEF HttpTyped
  <2>4. ResponsesRight'
    <3> SUFFICES ASSUME kind = "http" PROVE AllServed'
      BY <1>5, ResponsesAre DEF ResponsesRight
    <3>1. AllServed /\ kind' = kind /\ want' = want
      BY <1>1, <1>5, ResponsesAre
    <3>2. \A fd \in Fds : Idle(fd)'
      BY <1>5, <3>1 DEF AllServed, Idle
    <3>3. \A fd \in Fds : \A c \in Conns : sock[fd] = c => Serves(fd, c)'
      BY <1>1, <1>5, <3>1, ServesElsewhere DEF HttpInv
    <3>4. \A c \in Conns : Own(c)'
      BY <1>5, <3>1, OwnStays DEF AllServed, Arrived
    <3> QED
      BY <1>5, <3>2, <3>3, <3>4 DEF AllServed
  <2> QED
    BY <2>1, <2>2, <2>3, <2>4
<1> QED
  BY <1>2, <1>3, <1>4, <1>5 DEF Next
-----------------------------------------------------------------------------
(* What is on its way back                                                 *)

LEMMA FlattenOne ==
  ASSUME NEW x PROVE FlattenSeq(SetToSeq({x})) = x
<1>1. Cardinality({x}) = 1
  BY FS_Singleton
<1>2. SetToSeq({x}) = <<x>>
  <2> DEFINE F == [1 .. 1 -> {x}]
  <2>1. \A f \in F : f = <<x>>
    <3> SUFFICES ASSUME NEW f \in F PROVE f = <<x>>
      OBVIOUS
    <3>1. f \in Seq({x}) /\ Len(f) = 1 /\ f[1] = x
      OBVIOUS
    <3> QED
      BY <3>1
  <2>2. <<x>> \in F /\ IsInjective(<<x>>)
    BY DEF IsInjective
  <2>3. SetToSeq({x}) = CHOOSE f \in F : IsInjective(f)
    BY <1>1, Zenon DEF SetToSeq
  <2> HIDE DEF F
  <2> QED
    BY <2>1, <2>2, <2>3, Zenon
<1> DEFINE s == <<x>>
           Turn1(f, j) == IF j = 1 THEN s[j] ELSE f[j - 1] \o s[j]
           flat == CHOOSE f : f = [j \in 1 .. Len(s) |-> Turn1(f, j)]
<1>3. Len(s) = 1 /\ s[1] = x /\ 1 .. Len(s) = {1}
  OBVIOUS
<1>4. FlattenSeq(s) = flat[Len(s)]
  BY <1>3 DEF FlattenSeq
<1> HIDE DEF s
<1>5. flat = [j \in 1 .. Len(s) |-> Turn1(flat, j)]
  <2> DEFINE g == [j \in 1 .. Len(s) |-> x]
  <2>1. g = [j \in 1 .. Len(s) |-> Turn1(g, j)]
    BY <1>3
  <2> HIDE DEF g
  <2> QED
    BY <2>1
<1> HIDE DEF flat
<1>6. flat[1] = x
  BY <1>3, <1>5
<1> QED
  BY <1>2, <1>3, <1>4, <1>6 DEF s

LEMMA FlattenNone == FlattenSeq(SetToSeq({})) = <<>>
<1>1. Cardinality({}) = 0 /\ 1 .. 0 = {}
  BY FS_EmptySet
<1> DEFINE F == [1 .. 0 -> {}]
<1>2. \A f \in F : f = <<>>
  <2> SUFFICES ASSUME NEW f \in F PROVE f = <<>>
    OBVIOUS
  <2>1. f \in Seq({}) /\ Len(f) = 0
    BY <1>1
  <2> QED
    BY <2>1
<1>3. <<>> \in F /\ IsInjective(<<>>)
  BY <1>1 DEF IsInjective
<1>4. SetToSeq({}) = CHOOSE f \in F : IsInjective(f)
  BY <1>1, Zenon DEF SetToSeq
<1> HIDE DEF F
<1>5. SetToSeq({}) = <<>>
  BY <1>2, <1>3, <1>4, Zenon
<1>6. Len(<<>>) = 0
  OBVIOUS
<1> QED
  BY <1>5, <1>6 DEF FlattenSeq

LEMMA InHandIs ==
  ASSUME ConnsRight, NEW c \in Conns
  PROVE  /\ (\A fd \in Fds : sock[fd] # c) => InHand(c) = <<>>
         /\ \A fd \in Fds : sock[fd] = c => InHand(c) = hand[fd]
<1> DEFINE S == {hand[fd] : fd \in {f \in Fds : sock[f] = c}}
<1>1. (\A fd \in Fds : sock[fd] # c) => S = {}
  OBVIOUS
<1>2. ASSUME NEW fd \in Fds, sock[fd] = c PROVE S = {hand[fd]}
  <2>1. \A f \in Fds : sock[f] = c => f = fd
    BY <1>2, Kinds DEF ConnsRight
  <2> QED
    BY <1>2, <2>1
<1>3. InHand(c) = FlattenSeq(SetToSeq(S))
  BY Zenon DEF InHand
<1> HIDE DEF S
<1>4. (\A fd \in Fds : sock[fd] # c) => InHand(c) = <<>>
  BY <1>1, <1>3, FlattenNone
<1>5. ASSUME NEW fd \in Fds, sock[fd] = c PROVE InHand(c) = hand[fd]
  <2>1. S = {hand[fd]}
    BY <1>2, <1>5
  <2> QED
    BY <1>3, <2>1, FlattenOne, Zenon
<1> QED
  BY <1>4, <1>5

-----------------------------------------------------------------------------
(* Theorems                                                                *)

\* What holds in every state of every server: the kernel's connections, the
\* tables of the loops, the echo and the response by descriptor.
THEOREM ServersInvHolds == Spec => []ServersInv
BY ServersInitially, ServersInductive, PTL DEF Spec

\* Between two rounds select, poll and epoll watch just the descriptors that are
\* open (multi_client_select.cpp:105-109, multi_client_poll.cpp:72-77,
\* multi_client_epoll.cpp:104-108), each of them once.
THEOREM ServerTypesHold == Spec => []TypeOK
<1>1. ServersInv => TypeOK
  <2> SUFFICES ASSUME ServersInv PROVE TypeOK
    OBVIOUS
  <2>1. KernelTyped /\ LoopTyped /\ HttpTyped /\ TablesRight
    BY DEF ServersInv
  <2>2. Range(table) = Elements(table) /\ (IsInjective(table) <=> Distinct(table))
    BY <2>1, TableRange
  <2>3. IsInjective(table)
    <3>1. table = <<>> => Distinct(table)
      BY DEF Distinct
    <3> QED
      BY <2>1, <2>2, <3>1 DEF KernelTyped, TablesRight, EchoKinds
  <2>4. at = "wait" /\ table # <<>> => Range(table) = OpenFds \cup {Listener}
    BY <2>1, <2>2 DEF KernelTyped, TablesRight, EchoKinds
  <2>5. \A c \in Conns : inq[c] \in Seq(Pieces) /\ unread[c] \in 0 .. SendBuffer
    BY <2>1 DEF KernelTyped
  <2> QED
    BY <2>1, <2>3, <2>4, <2>5 DEF TypeOK, KernelTyped, LoopTyped, HttpTyped
<1> QED
  BY <1>1, ServersInvHolds, PTL

\* Every server sends a client back what it sent, in order, nothing of another
\* client's and nothing twice (multi_client_select.cpp:91-101,
\* multi_client_poll.cpp:71-81, multi_client_epoll.cpp:103-111,
\* multi_client_threaded.cpp, step4_recv_send.cpp).
THEOREM EchoExactHolds == Spec => []EchoExact
<1>1. ServersInv => EchoExact
  <2> SUFFICES ASSUME ServersInv, NEW c \in Conns, kind # "http", peer[c] = "open",
                      kind = "epoll" => c \notin full
               PROVE  (heard[c] \o InHand(c)) \o inq[c] = AllOf(c)
    BY DEF EchoExact, AllOf
  <2>1. KernelTyped /\ ConnsRight /\ Untouched /\ EchoRight
    BY DEF ServersInv
  <2>2. /\ heard[c] \in Seq(Wire) /\ inq[c] \in Seq(Wire) /\ \A fd \in Fds : hand[fd] \in Seq(Wire)
        /\ <<>> \in Seq(Wire)
    BY <2>1, AllOfTyped DEF KernelTyped
  <2>3. CASE \A fd \in Fds : sock[fd] # c
    <3>1. c \notin closed
      BY <2>1 DEF EchoRight
    <3>2. heard[c] = <<>> /\ inq[c] = AllOf(c) /\ InHand(c) = <<>>
      BY <2>1, <2>3, <3>1, InHandIs DEF Untouched
    <3>3. (<<>> \o <<>>) \o inq[c] = inq[c]
      BY <2>2, ConcatEmptySeq
    <3> QED
      BY <3>2, <3>3
  <2>4. ASSUME NEW fd \in Fds, sock[fd] = c
        PROVE  (heard[c] \o InHand(c)) \o inq[c] = AllOf(c)
    <3>1. heard[c] \o (hand[fd] \o inq[c]) = AllOf(c) /\ InHand(c) = hand[fd]
      BY <2>1, <2>4, InHandIs DEF EchoRight, Owes
    <3>2. AssociativeOn(Wire)
      BY Associative, Zenon
    <3>3. (heard[c] \o hand[fd]) \o inq[c] = heard[c] \o (hand[fd] \o inq[c])
      BY <2>2, <3>2, ZenonT(60) DEF AssociativeOn
    <3> QED
      BY <3>1, <3>3
  <2> QED
    BY <2>3, <2>4
<1> QED
  BY <1>1, ServersInvHolds, PTL

\* recv <= 0 closes a client only when it has gone, whichever order the events of
\* a batch come in and whichever descriptor is used again
\* (multi_client_epoll.cpp:103, multi_client_select.cpp:91).
THEOREM NobodyElseClosedHolds == Spec => []NobodyElseClosed
<1>1. ServersInv => NobodyElseClosed
  BY DEF ServersInv, EchoRight, NobodyElseClosed
<1> QED
  BY <1>1, ServersInvHolds, PTL

\* HttpServer.cpp:52-74: every connection is sent the response to what had arrived of
\* its own request when recv returned, to its own path if all of it had, and the
\* whole of it before it is closed.
THEOREM OwnResponseHolds == Spec => []OwnResponse
<1>1. ServersInv => OwnResponse
  BY DEF ServersInv, ResponsesRight, OwnResponse
<1> QED
  BY <1>1, ServersInvHolds, PTL
=============================================================================
