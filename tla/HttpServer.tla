------------------------------ MODULE HttpServer ------------------------------
(***************************************************************************)
(* http_server: a thread for each connection, which reads a request, sends *)
(* one response and closes (HttpServer.cpp, RequestHandler.cpp and         *)
(* FileUtils.cpp).                                                         *)
(*                                                                         *)
(* Data.  A request is two pieces, and TCP may cut it anywhere: both of    *)
(* them hold the whole path, the first alone any prefix of it.  A path is  *)
(* the sequence of its parts: "/", a name, an extension.  A response is a  *)
(* header piece and the pieces of the file.                                *)
(***************************************************************************)
EXTENDS Sockets

CONSTANTS
  Paths,      \* the paths that clients ask for
  Content     \* per file of static/, how many pieces it holds

ASSUME HttpAssumption == \A path \in DOMAIN Content : Content[path] \in Nat

VARIABLES
  want,       \* per connection, the path its client asks for
  phase       \* per descriptor, its thread: "recv", "send" or "close"

httpVars == <<want, phase>>

Root == <<"/">>
Index == <<"/", "index", "html">>
NoPath == <<>>

\* FileUtils::readFile: a file that cannot be read is an empty one.
readFile(path) == IF path \in DOMAIN Content THEN Content[path] ELSE 0

\* FileUtils::getMimeType
MimeOf == [html |-> "text/html", css |-> "text/css", js |-> "application/javascript",
           png |-> "image/png", jpg |-> "image/jpeg", ico |-> "image/x-icon"]
getMimeType(path) ==
  IF Len(path) >= 3 /\ Last(path) \in DOMAIN MimeOf THEN MimeOf[Last(path)]
  ELSE "text/plain"

\* The pieces of a response.
NotFound == <<[status |-> 404, mime |-> "text/plain"]>>
Found(path, length) ==
  <<[status |-> 200, mime |-> getMimeType(path), length |-> length]>>
    \o [n \in 1 .. length |-> [body |-> path, piece |-> n]]

\* ss >> method >> path: what it may find when `arrived' pieces of a request for
\* `path' have come.
parsed(arrived, path) ==
  CASE arrived = 0 -> {NoPath} [] arrived = 1 -> Prefixes(path) [] OTHER -> {path}

\* RequestHandler::handle, of the path that it found.
handle(path) ==
  LET file == IF path = Root THEN Index ELSE path
      content == readFile(file)
  IN  IF content = 0 THEN NotFound ELSE Found(file, content)

\* HttpServer::start: accept, and a thread for the connection.
start ==
  /\ kind = "http" /\ alive /\ backlog # <<>>
  /\ \E fd \in Fds : AcceptAs(fd) /\ phase' = [phase EXCEPT ![fd] = "recv"]
  /\ UNCHANGED want

\* read_request and RequestHandler::handle: one recv, whatever it returns.
read_request(fd) ==
  /\ kind = "http" /\ alive /\ sock[fd] # NoConn /\ phase[fd] = "recv"
  /\ \E request \in Received(fd) \cup {<<>>} :
       /\ \/ request # <<>> /\ Recv(fd, request)
          \/ request = <<>> /\ RecvNothing(fd) /\ UNCHANGED <<kind, limit, alive, kernel>>
       /\ \E path \in parsed(Len(request), want[sock[fd]]) :
            hand' = [hand EXCEPT ![fd] = handle(path)]
  /\ phase' = [phase EXCEPT ![fd] = "send"]
  /\ UNCHANGED want

send_responseOnce(fd) ==   \* mutant: send without waiting for room
  /\ kind = "http" /\ alive /\ phase[fd] = "send"
  /\ Send(fd, TRUE)
  /\ phase' = [phase EXCEPT ![fd] = "close"]
  /\ UNCHANGED want

\* send blocks until all of the response is in the socket.
send_response(fd) ==
  /\ kind = "http" /\ alive /\ phase[fd] = "send"
  /\ Send(fd, FALSE)
  /\ phase' = [phase EXCEPT ![fd] = IF hand'[fd] = <<>> THEN "close" ELSE @]
  /\ UNCHANGED want

\* The end of handle_client.
handle_clientEnd(fd) ==
  /\ kind = "http" /\ alive /\ phase[fd] = "close"
  /\ CloseFd(fd)
  /\ phase' = [phase EXCEPT ![fd] = "recv"]
  /\ UNCHANGED want

\* The socket is bound and listens, and no connection has been made.
HttpInit ==
  /\ kind = "http"
  /\ want \in [Conns -> Paths] /\ phase = [fd \in Fds |-> "recv"]

HttpThread(fd) == read_request(fd) \/ send_response(fd) \/ handle_clientEnd(fd)
HttpStep == start \/ \E fd \in Fds : HttpThread(fd)
=============================================================================
