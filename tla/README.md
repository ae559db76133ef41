# Specifications of build-your-own-stuff

The repository is a collection of small systems written from scratch: key-value
stores with persistence, slotted database pages, chat servers, an HTTP server,
a scanner, a parser, a Bloom filter, and demonstrations of threads and locks.
This directory models them in TLA+, checks the models with TLC and proves the
central properties with TLAPS. Paths below are relative to the repository.

## 1. The systems

| Component | State | Operations | Interacts with | What is hard | What makes it correct |
|---|---|---|---|---|---|
| WAL key-value store, `database/wal_kvstore/main.go` | `store` (map), `wal.log`, `mu` | `Put`, `Delete`, `NewKVStore` (recovery), `Display`, `Close` | goroutines of the client; the file outlives the process | the log is written outside the mutex; crash between log and map; half-way writes; lines the scanner cannot read | recovery replays the log exactly; memory and log agree; a failed write costs one line |
| File-backed key-value store, `simple-kv-cpp` (`file_based_kv_store.cpp`, `key_value_store_impl.cpp`) | `store_`, the text file | `put`/`get`/`remove` to `write`/`read`/`erase`; load, save | the file is rewritten by every change | truncate-then-write is not atomic; errors are ignored; keys and values may contain the separators | file agrees with the map between calls; never an older value; same answers as the in-memory engine |
| In-memory engine, `in_memory_kv_store.cpp` | `store_` | `write`, `read`, `erase` | swapped for the file engine behind `IStorageEngine` | nothing by itself | it is the specification of the other engine |
| Slotted pages and page manager, `database/simple_page_impl` | page (ID, TupleCount, FreeSpaceOffset, Slots, Data), file of pages | `AddTuple`, `DeleteTuple`, `Serialize`, `DeserializePage`, `ReadPage`, `WritePage`, `AllocateNewPage` | several `*Page` values may stand for one page of the file | space accounting, uint16 arithmetic, a layout that overlaps itself, panics | live slots lead to their tuples, in memory and on disk; writes of one page leave the others alone |
| Multi-client chat server, `cpp/socket_programming/multi_client_server` | `clients`, `client_mapp`, `client_mutex`, sockets | accept, login, direct, broadcast, online-users, logout, SIGINT | one detached thread per client, frames on TCP | a map used with and without its mutex; stale descriptors; interleaved frames; a handler that locks; sending while locked | messages reach the named user, whole; tables and sockets agree; no thread waits for ever |
| Chat room, `chatroom-app` | `Room::participants`, message queues, per-session buffers | accept, join, leave, read, deliver, write | callbacks of one `io_context` | lifetime of the written buffer, two writes in flight, truncation at 512 bytes | every other participant gets every message, in order |
| Bounded buffer and condition variables, `cpp/multi_threading/producer_consumer.cpp`, `condition_variable.cpp` | buffer, mutex, condition | produce, consume, wait, notify | threads | lost and misdirected wakeups | no value lost; the producer ends |
| Lock demonstrations, `cpp/multi_threading/*lock*.cpp`, `timed_mutex.cpp` | mutexes, counters | lock, try_lock, unlock | threads | lock order, livelock | no deadlock |
| Lox scanner, `jlox_interpriter` | `start`, `current`, `line`, `tokens` | `scanToken` | `Lox.error` | longest match, lines inside strings | tokens partition the source |
| SQL parser, `simple-parsing` | the stacks of a bison parser | shift, reduce | flex lexer | compressed tables, error recovery, a lookahead that is not always read | accepts exactly one query and prints its names |
| Bloom filter, `bloom-filter/main.go` | `bits` | `Add`, `Check` | - | collisions, sizes at the boundary | no false negatives |
| HTTP server, `http_server` | sockets, one detached thread per connection | accept, one recv, read file, send, close | clients | requests and responses in parts, clients that leave, reused descriptors | each connection gets the response to its own request, whole |
| Echo servers, `socket_prog/multi_client_*.cpp`, `step4_recv_send.cpp` | descriptor tables | select, poll and epoll loops, a thread per client, one client | clients | removing a descriptor while looping, blocking and partial sends, reused descriptors | a client gets back what it sent; the table holds the open descriptors; who may keep whom waiting |
| Simple client and server, socket steps, file, memory and Go tutorials | - | straight-line I/O | - | - | - |

`PROJECT.json` lists the same components with their status, and every hazard at
its line with the properties that would catch it.

## 2. Plan

Done, in this order: the components that keep data across restarts, because
durability is what the repository's documents promise most plainly; the
concurrent servers; the thread demonstrations; the sequential algorithms.

1. `KeyValueMap`, `WalKVStore`, `WalKVStoreProofs`
2. `InMemoryEngine`, `KVLines`, `FileKVStore`, `FileKVStoreProofs`
3. `PageStore`, `PageStoreProofs`
4. `ChatServer`, `ChatServerProofs`
5. `ChatRoom`, `ChatRoomProofs`
6. `Sockets`, `EchoServers`, `HttpServer`, `Servers`, `ServersProofs`
7. `ThreadDemos`, `DemoProofs`
8. `LoxScanner`, `SqlParser`, `BloomFilter`, `Algorithms`; `LoxScanner` and
   `BloomFilter` are proved about in `DemoProofs` too
9. `Subsequences`, `SubsequencesProofs`: what the proofs of 4 to 7 need to know
   of sequences with elements left out

There is one run for each question: per component one for the promise and, where
something fails, one for the faults; the six servers share a run, and so do
the twelve programs with threads and the three algorithms, since which of them
runs is part of the initial state.

## 3. Modules

| Module | What it is |
|---|---|
| `KeyValueMap` | abstract: a map that changes one key at a time; restarts are stuttering |
| `WalKVStore` | `database/wal_kvstore/main.go` |
| `MCWalKVStore` | instances for TLC: three keys, lossless and lossy JSON encodings |
| `WalKVStoreProofs` | theorems about `WalKVStore` |
| `InMemoryEngine` | `in_memory_kv_store.cpp`: what a client of `IStorageEngine` sees |
| `KVLines` | the text format of `saveToFile` and `loadFromFile` on characters |
| `FileKVStore` | `file_based_kv_store.cpp` behind `key_value_store_impl.cpp` |
| `MCFileKVStore` | instances: strings with `=` and newlines, effects of their lines computed with `KVLines` |
| `FileKVStoreProofs` | theorems about `FileKVStore` |
| `PageStore` | `storage/page.go` and `storage/page_,manager.go` |
| `MCPageStore` | instances: pages of 9 words |
| `PageStoreProofs` | theorems about `PageStore` |
| `ChatServer` | `multi_client_server/server.cpp`, with `client.cpp` as the peer |
| `MCChatServer` | instances: two or three connections on two descriptors |
| `ChatServerProofs` | theorems about `ChatServer` |
| `ChatRoom`, `MCChatRoom` | `chatroom-app/chatRoom.cpp`, `chatRoom.hpp`, `message.hpp`, with `client.cpp` as the peer |
| `ChatRoomProofs` | theorems about `ChatRoom` |
| `Sockets` | the kernel's TCP sockets and the clients of the next two modules |
| `EchoServers` | `multi_client_select.cpp`, `multi_client_poll.cpp`, `multi_client_epoll.cpp`, `multi_client_threaded.cpp`, `step4_recv_send.cpp` |
| `HttpServer` | `http_server`: `HttpServer.cpp`, `RequestHandler.cpp`, `FileUtils.cpp` |
| `Servers`, `MCServers` | any one of these servers with its clients, and the properties |
| `ServersProofs` | theorems about `Servers` |
| `ThreadDemos`, `MCThreadDemos` | the twelve programs of `cpp/multi_threading` whose threads synchronise |
| `DemoProofs` | theorems about `ThreadDemos`, `BloomFilter` and `LoxScanner` |
| `Subsequences` | the elements of a sequence that are in a set: `std::remove` |
| `SubsequencesProofs` | lemmas about `Subsequences`, and induction over the naturals |
| `LoxScanner` | `Scanner.java`, and the part of `Lox.java` that runs it |
| `SqlParser` | `parser.tab.c` with `lexer.l` |
| `BloomFilter` | `bloom-filter/main.go` |
| `Algorithms`, `MCAlgorithms` | any one of the three, on any small input |

### 3.1 WalKVStore

`log` is the sequence of newline-terminated lines of `wal.log` and `tail` the
bytes after the last newline; `store` is `kv.store`; `mode` and `pos` say
whether the process runs and how far `recoverFromWAL`'s scanner is; `pending[t]`
is the record goroutine `t` has logged and not yet applied. `doubt` is history:
keys on which memory and log may differ because two calls were changing them at
once, or because their record met the bytes of a half-way write; `torn` counts
those writes for the bound.

`Put` and `Delete` are the append (`Logged`, line 95, outside the mutex);
`Apply` is the critical section (lines 69-71 and 82-84). `WriteFails` is a
`Write` that stops anywhere in the record, so `Join` says what the next
`O_APPEND` write makes of the rest. `NewKVStore`, `RecoverLine`, `RecoverDone`
and `RecoverFails` are recovery, one token per step, so a crash may fall inside
it. `Crash` and `PowerFail` end the process; the second also drops any suffix of
the file, since nothing is synced, be the cut in a line or in the bytes behind the
last newline.

A record is the pair it assigns. `TooLong`, `WireKey` and `WireValue` are what
`bufio.MaxScanTokenSize` and `encoding/json` do to it: a record that is too long
is a line the scanner stops at, and invalid UTF-8 comes back as U+FFFD. A record
is too long by itself or not at all; two short ones glued together are not.
The record of a retried short write is not modelled (the code does not retry).

### 3.2 FileKVStore

`store`, `answer` and `phase` are the engine's map, the result of the current or
last call, and the place in it; `unsaved` are the keys `saveToFile`'s loop has
still to write. `file` is the map that loading the file now would give: the file
is only truncated, appended to and loaded whole, so nothing else about its bytes
matters. What one line does to that map is the constant `Line[k][v]`, and what
its proper prefixes do is `CutLines[k][v]`; `MCFileKVStore` computes both from
the text format, and the proofs hold for every choice that satisfies
`LineAssumption`. Buffering of the stream is covered: at any point of a save the
file may hold what was written so far or, after a failure, that and a part of
one more line; an earlier prefix is the crash of an earlier step.

`write`, `erase` and `read` are the calls up to `saveToFile`; `open`,
`openFails`, `saveLine`, `close`, `writeFails` are `saveToFile`, in the order of
any hash map; `loadFromFile` and `loadFails` are the constructor. A load that fails
sees nothing of the file or, when reading stops in the middle, some of its keys;
the value that an earlier line of the same file gave one is left out. `saved` and
`synced` are history.

### 3.3 PageStore

Words instead of bytes (all quantities of the format are even when tuples have
an even length): a header of four, two per slot. `page[h]` is the `Page` that
variable `h` of a client points to, `file` the pages of the database file, word
by word; tuples are changed through the handles in `Editors`, a bound that keeps
a second handle to `ReadPage` and `WritePage`. Slices out of range panic and end the process (`AddTuplePanics`,
`ReadPagePanics`, `WritePagePanics`). `kept`, `fresh`, `opened`, `written` and
`overrun` are history: what was put in each slot, which handles come from
`AllocateNewPage`, what was last written to each page, and whether some page
was written whose directory met its data. I/O errors of `ReadAt`, `WriteAt` and
`Stat` leave everything as it was and have no action.

### 3.4 ChatServer

A connection also names the thread that `main()` starts for it. `sock` is the
descriptor table of the process (which connection a descriptor is open for),
`fd[c]` the `client_socket` of thread `c`; `clients`, `client_mapp` and
`client_mutex` are the globals of the program; `pc`, `user`, `todo` and
`accepted` are where a thread is, the name in the request it handles, the sends
it has still to make, and the result of `accept()`. `peer` and `unread` are the
clients' side. `names`, `halfway` and the field `for` of a send are history.

- Requests: `Request` and `Invalid` let `recv` return any message the server
  tells apart, in any order. That is also what it makes of a stream whose frames
  it has lost: a `recv` that returns less than `msgLength` is taken for the whole
  message, and a message of length 0 is a logout. A `msgLength` beyond the
  buffer is undefined behaviour and not modelled.
- Sends: `sendMessageToClient` makes two sends, and each is a step of its own
  (`Send`, `SendInVain`), so that anything may happen between the length and the
  body. A send waits for room in the client's buffer; one to a closed descriptor
  fails, which nobody looks at; one to a client that has left may instead raise
  SIGPIPE (`BrokenPipe`). A send that waits has not begun in the model: if its
  descriptor is closed meanwhile it fails or goes to the new owner.
- Handlers: those that lock (`broadcastMessage`, `LockUsers`, `LockLogout`,
  `LockPush`) keep the mutex as long as their `lock_guard` lives: up to
  the last send (`Finish`), or to the end of the block (`Cleanup`, `Push`).
  `handleLoginClient`, `FindReceiver` and `IndexReceiver` do not lock. Two
  threads in `client_mapp` at the same instant, one of them changing it, are a
  data race: what follows is undefined and the behaviour ends (`Race`). All the
  orders of accesses that do not collide remain.
- Ends: a client logs out or leaves (`Disconnected`), and `Close` frees the
  descriptor, which `Accept` may hand out again at once (the lowest free one).
  `Interrupt` is SIGINT on any thread, which stops where it is;
  `shutdownServer` needs the mutex. A second SIGINT is not modelled.

### 3.5 ChatRoom

One thread runs `io_context`, so a handler is one action and the interleavings
are those of handlers, clients and the kernel. `session`, `reading` and
`participants` are the Sessions, whether one waits in `async_read_until`, and
`Room::participants`. `accept_connection`, `async_read` (a line: consume,
`Room::deliver` to all others, read again) and `readError` (leave the room, the
Session ends) are whole handlers; `Room::deliver` and `Session::write` empty
their queues before they return, so the queues have no variable. `Message` cuts
a line at `maxBytes` and `decodeHeader` looks at the length it wrote.

`sock[c]` is the writing side of a socket as boost::asio keeps it: `unread` is
what the client has not read, `ops` the writes that wait for room, `posted`
those that sent a part and whose completion has still to run. A write that is
not first is tried only after the others (`Start`, `writable`), and the rest of
a partial one goes behind those that wait (`writeMore`). It then reads a
parameter of `async_write` that is gone (`Dangling`): the bytes may be anything.
If the Session is gone too, so is the socket (`writeMoreClosed`), and the
behaviour ends. `log`, `since` and `waited` are history; `sent` counts the lines
of all clients for the bound.

### 3.6 Sockets, EchoServers, HttpServer, Servers

`Sockets` has the descriptor table (`sock`), the backlog, per connection what
the server has not received (`inq`) and the client not read (`unread`), and per
descriptor what is on its way back (`hand`). `accept` returns the lowest free
descriptor or fails when there is none; `recv` returns any non-empty part of
what is there that fits its buffer; `send` waits for room unless the socket is
non-blocking, loses what does not fit if it is, and to a client that has gone
either loses its bytes or raises SIGPIPE, which ends the process. A connection is
reset when the server closes it with something unread, or when its client sends
after the close; what the client had not read of `heard` may then be lost (`Reset`).

`EchoServers` keeps each loop's table, what the kernel reported (`ready`) and
where the loop is, so that clients and the kernel may act between any two calls
of a round. select looks at the descriptors in `clients` and removes the closed
ones after the round; poll erases an entry and steps its index back; epoll takes
the events in any order, with non-blocking sockets, and close takes a descriptor
off the interest list. In `HttpServer` every connection has a thread with three
steps: one `recv`, whatever it returns; the response, sent in as many parts as
the client makes room for; close. A request is two pieces. When both have come its
path is found; when one has, TCP may have cut it anywhere, so `parsed` is any
prefix of the path, such as `/` of `/style.css`, which is answered with
`index.html`, or no path at all. `Servers` chooses the server at the start.

### 3.7 ThreadDemos

`demo` names the program, `pc`, `k` and `tmp` are the threads' places, loop
counters and read values, `owner`, `depth` and `asleep` the mutexes, the depth
of the recursive one, and the waiters of the condition variable; `log` is
history. An increment is a read and a write, so a missing lock would lose one.
Programs differ in where they lock: per iteration, around the loop, once more
per call, with `try_lock_for` (`timeout`), one of two mutexes, two in an order,
`std::lock` and `std::try_lock` (which give back what they have when the next
one is taken). `wait` tests its condition and goes to sleep in one step, since
it holds the mutex; it may wake for no reason (`wakeup`), and `notify_one` wakes
one sleeper (`Wakes`), as a step of its own after the unlock.

### 3.8 LoxScanner, SqlParser, BloomFilter

One step of the scanner is one turn of `scanTokens`' loop. `TokensRight` compares
it with a definition of lexemes that knows nothing of the scanner's order: at
every position the longest piece of the source that is a lexeme
(`LongestLexemes`). The tokens are a function of these pieces (`OneTokenEach`):
each that is not blank or a comment has one, with the type of its word
(`TypeOf`), its place and the line on which it ends, in the order of the pieces,
and `EOF` follows the last. The scanner's maps are functions of a set of pairs
(`MapOf`), a form that TLC and the provers share. `SqlParser` has
the tables of the C file and the labels of `yyparse` as actions, and
`ParsesQueries` compares what it accepts and prints with the grammar of
`parser.y`. The hash function of `BloomFilter` is any function of item and seed,
chosen at the start; the index is its value modulo the size as a `uint32`, and
where that is 0 `Add` panics (`AddPanics`). `Algorithms` chooses program and input.

## 4. What is checked

| Run | Bounds | Shows |
|---|---|---|
| `wal_crash` | 2 goroutines, 2 keys, 2 values, 4 lines, no half-way write | `LoggedBeforeApplied`; `LogImplementsMap`: the log is an atomic durable map through calls, crashes and recoveries |
| `wal_torn` | 2 goroutines, 3 keys (two of which are encoded alike), 3 values (one too long), 3 lines, one half-way write or power loss | `TypeOK`, `RecoveredPrefix`, `MemoryMatchesLog`, `LossBounded`, `UpOnlyWhenAllRead`, `RecoveryEnds` |
| `file_clean` | keys "", a, b; values with and without `=`; no fault | `BehavesAsInMemory`: same answers as `InMemoryEngine`, restarts included |
| `file_faults` | keys "", a, b, `a=`; a value with a newline; two faults | `TypeOK`, `MemoryMatchesFile`, `NothingOlder` |
| `page_pages` | 2 handles (tuples are changed through one), 2 pages of 9 words, 3 slots, 3 writes, tuples of 0, 2 and all words | `TypeOK`, `FreshTuplesIntact`, `TuplesOnDisk`, `DirectoryOnDisk`, `PagesStayApart` |
| `chat_tables` | 3 connections, 2 names, 2 descriptors, buffers of 1 part, 2 requests | `TypeOK`, `LockedSendsReach`, `TablesMatchSockets` |
| `chat_ends` | 2 connections, 1 name, 2 requests, with fairness | `LogoutEnds`, `ShutdownEnds` |
| `chat_direct` | 2 connections, 1 name, 2 requests | violated: "Send a direct message to a specific user" (client.cpp:68) |
| `room_room` | 3 clients, 2 lines (the first longer than a Message), send buffers of 3 pieces, with fairness | `TypeOK`, `OwedIsWritten`, `LinesInOrder`, `LinesReachRoom`, `LeaversLeave` |
| `servers` | each of 6 servers; 2 clients, 1 or 2 descriptors, 2 pieces per client, send buffers of 1 piece, the paths `/` and `/style.css`, with fairness | `TypeOK`, `EchoExact`, `NobodyElseClosed`, `OwnResponse`, `EveryoneServed` |
| `threads` | each of 12 programs; 5 rounds, a buffer of 2, with fairness | `TypeOK`, `NothingLost`, `SectionsWhole`, `NoCircularWait`, `ThreadsEnd` |
| `algorithms` | every source of up to 4 of 12 characters; every input of up to 7 words; 3 items, up to 4 bits and 2 hashes, every hash function into {0, 1, 2}, which stand for all values of a `uint32` | `TokensRight`, `ParsesQueries`, `NoFalseNegatives` |

Why the bounds are enough. In the WAL store everything is about one key at a
time and pairs of calls: two goroutines give every overlap, three lines give a
damaged line with one before and one after it, and a third key is needed only
for two that are encoded alike. Half-way writes are independent of each other
(two were tried as well). In the file engine two faults let a failed load meet a
failed save; the strings chosen contain one whose text begins another's, one
with the separator, and one that is a line of its own. On pages, 9 words hold
three slots that overflow the page, two words of data meet the directory of two
slots, and a tuple as large as the page replaces the header; three writes are an
allocation, a damage and a write after reading it back. `Word` is 12 there
instead of 65536: it only has to exceed the page and the words in use, and
TupleCount wraps at it; a count past `MaxSlots` is not lowered further. In the
chat server three connections on two descriptors make one of them reused, two
requests are a login and what is done with the name (leaving costs no request),
and buffers of one part make every message wait for its reader. Deadlock is not
checked there: the server does stop, when it was interrupted, when every client
has left, or when the SIGINT handler waits for a mutex its own thread holds.
The second handle on the pages makes the older copy and the page that another
header took over; three clients make the room deliver one line to two, of which
one reads and one does not; the first line is longer than a Message and the
second is not, so a cut line is followed by a whole one, and a send buffer of
three pieces takes one message and a part of the next. In `servers` two clients
and one or two descriptors give every order of events of a batch, a descriptor
that is reused and one that is missing; two pieces are an echo in one or two
parts or a request that comes in two; one piece of room splits every response
and fills every socket. In `threads` five is consumeXY's own count, and each
program has the two or three threads its `main` starts. In `algorithms` there is
one character of each kind that `scanToken` tells apart, and four of them make
each pair of lexemes, a number with a dot, an unfinished string and a comment
with its newline; a query is five words, so seven are one with what follows it,
or an error with what follows that. Deadlock is not checked in the last four
runs: the servers wait for clients that no longer come, and programs end.

Fairness is assumed in five runs. In `wal_torn`, for `RecoveryEnds`: a started recovery
goes on (it is sequential code in the starting process) and a goroutine that
waits for `kv.mu` gets it (Go's mutex is starvation free). Nothing makes anyone
call or restart. In `chat_ends`: threads, the signal handler and the receiving
threads of the clients go on; nothing makes a client send, leave or connect, or
a signal arrive. `std::mutex` promises no order, and none is assumed: a waiting
thread gets it because the others make finitely many requests, and weak fairness
needs no more. In `room_room`: `io_context` runs a handler that stays ready; in
`servers`: the loop, the accepting thread and each client's thread go on. Clients
need not do anything; where a server depends on them, `EveryoneServed` says so
(`Reads`), and epoll depends on none. A client is excused for want of a descriptor
only while it is in the backlog: once it is accepted, a server with threads owes
it an answer whatever the other one does. In `threads`: a thread that can go on does,
and since weak fairness is asked of each thread's steps together, a thread that
waits for a mutex gets it because the others' loops are finite. `lock_in_cpp.cpp`
never ends and `consumeXY` may spin for good, so nothing is claimed of their ends.

Every property of a passing run has a mutant in `PROJECT.json`: a change of one
definition, such as a dropped check or a missing reset, which the same run
refutes.

## 5. What is proved

All proofs are for every value of the constants that satisfies the named
assumptions of the module (`WalAssumption`, `WireAssumption`, `FileAssumption`,
`LineAssumption`, `PageAssumption`, `ChatAssumption`, `RoomAssumption`,
`SocketsAssumption`, `HttpAssumption`, `DemosAssumption`, `BloomAssumption`,
`LoxAssumption`), in
particular for any number of goroutines, connections, descriptors, keys, lines,
half-way writes and faults, and any size of pages and buffers. Each inductive invariant was model-checked on the
component's run before it was proved.

| Component | Every invariant its runs check is proved | Except |
|---|---|---|
| WAL store | `TypeOK`, `RecoveredPrefix`, `MemoryMatchesLog`, `UpOnlyWhenAllRead`, `LossBounded`; `LoggedBeforeApplied`, `LogImplementsMap` | liveness |
| File engine | `TypeOK`, `MemoryMatchesFile`, `NothingOlder`; `BehavesAsInMemory` | |
| Pages | `TypeOK`, `FreshTuplesIntact`, `TuplesOnDisk`, `DirectoryOnDisk`; `PagesStayApart` | |
| Chat server | `TypeOK`, `TablesMatchSockets`, `LockedSendsReach` | liveness |
| Chat room | `TypeOK`, `OwedIsWritten`, `LinesInOrder` | liveness |
| Servers | `TypeOK`, `EchoExact`, `NobodyElseClosed`, `OwnResponse` | liveness |
| Threads | `TypeOK`, `NothingLost`, `SectionsWhole`, `NoCircularWait` | liveness |
| Bloom filter | `NoFalseNegatives` | |

`WalKVStoreProofs`. `IInv` is inductive: to `TypeOK`, `RecoveredPrefix` and the
part about memory it adds that nobody is in a call before recovery ends
(`QuietUntilUp`), that recovery is never past a line it cannot read
(`ReadSoFar`), that what is in the file reads back unchanged (`WireClosed`), and
`MemoryInStep`, which strengthens `MemoryMatchesLog` from keys at rest to keys
with one call under way: the value the call will leave is the one the log
already determines. `MemoryMatchesLog` alone is not inductive because it says
nothing of a logged call until it is applied. The proofs reason about
`Determines` (the last line on a key) by lemmas on how appending a line changes
it. From `IInv` follow `RecoveryRebuildsPrefix`, `MemoryMatchesLogHolds` and
`UpOnlyWhenAllReadHolds`. `LogImplementsMapHolds` and `LoggedBeforeAppliedHolds`
add the assumptions under which they are true: no write stops half-way
(`MaxTorn = 0`) and, for the first, no record is too long and JSON loses
nothing. With `MaxTorn = 1` TLC refutes `LoggedBeforeApplied`:
after a `Write` that stopped half-way, the next record is appended to its bytes
on one line that cannot be parsed, and the call succeeds. `LossBoundedHolds` is
an induction of its own: with the types, `LossBounded` is inductive, since the
set of spoiled lines is finite and each append adds at most one to it, which is
then one that `torn` has counted.

`FileKVStoreProofs`. `IInv` adds to the invariants that inside the loop the file
holds the lines written and nothing of those to come (`HalfSaved`), and that a
call that has to save is not synced before its save ends (`NotYetSynced`).
`BehavesAsInMemoryHolds` assumes no fault (`MaxFaults = 0`) and that every pair
callers pass owns its text; section 6 shows why.

`PageStoreProofs`. `PageInv` adds to the three invariants that while every page
written had room for its directory, a handle's page has the ID it was opened
with and a page of the file the ID of its place (`IdsRight`): `ReadPage` seeks
to the ID it is asked for, and `WritePage` to the one in the page. That makes
`PagesStayApart` a property of each step: a step that changes a page of the file is
`WritePage` of a handle, and the page is the one that this very handle was
opened as, whoever else holds it. `AllocateNewPage` changes no page that is there. Below it are lemmas on what
`Serialize` puts at each word, that `DeserializePage` takes it out again, and
that a tuple added above `FreeSpaceOffset` leaves those below it alone, with the
arithmetic of two words per `uint32`. `Tuples` may be any sequences shorter than
a word can count, so the length that `AddTuple` cuts to 16 bits is the tuple's.

`ChatServerProofs`. `TablesMatchSockets` says of open descriptors whose they are,
and to keep it while the lowest free descriptor is handed out again, `ChatInv`
needs the converse: an open descriptor is the `client_socket` of the one thread
that has not ended, or of the connection `main()` has just accepted
(`SocketsRight`, `AcceptedRight`). `MutexRight` says who holds `client_mutex` at
which place, so that nobody erases from the tables during a broadcast, and
`SendsRight` that what is sent under the mutex goes to descriptors in `clients`.
`handleLoginClient` and `operator[]` write `client_mapp` without the mutex;
`MapRight` survives because the first enters its thread's own descriptor and the
second, for a name that is gone, descriptor 0.

`ChatRoomProofs`. `OwedIsWritten` is about the stream of a client, what its
socket has still to write and what the log owes it. `RoomInv` adds that a
Session that does not exist yet has written nothing, that nothing is left to
write where no write had to wait, and that what is in a client's socket are its
own lines. Where a write had to wait only the amounts agree, because bytes
that a partial write left behind may be anything; taking them from one queue and
putting them in another keeps the amount (`writable`, `writeMore`). The lemmas
are about `FlattenSeq` (what a join of messages is after one more) and `Keep`.

`ServersProofs`. `ServersInv` has the kernel's part, the loops' and the HTTP
server's. Of the kernel (`KernelInv`): a connection is away, in the backlog once,
behind one descriptor or closed (`ConnsRight`), and before it has a descriptor
everything its client sent is still there (`Untouched`). `EchoRight` is
`EchoExact` said by descriptor, and `NobodyElseClosed`. Each kernel call keeps
`KernelInv` whichever server makes it (`AcceptKeeps`, `EchoKeeps`, `SendKeeps`,
`CloseKeeps`), with the assumptions under which it may be called; that a loop
meets them is what the rest is for. `TablesRight`: a table begins with the
listener and holds, each once, the open descriptors and those select has closed
and not yet erased; without the first, select's loop from the second entry could
treat the listener as a client, and without the second a descriptor could be
closed twice. `EventsRight`: when epoll looks at an event its descriptor is open,
and if there is nothing to receive its client has gone. That needs that no other
event of the batch closes, empties or reuses the descriptor, and it makes `recv <= 0`
on a non-blocking socket mean what the code takes it to mean. `ResponsesRight`
follows the response of a descriptor through its thread's three steps: what was
sent and what is in hand are together `handle`'s answer to a path that `parsed`
finds in what had arrived of this connection's request; a reset leaves a prefix of
what was sent (`Truncated`).

`DemoProofs`. `NoCircularWait` says nothing of a thread that does not block
yet, so the inductive `LocksInv` says what a thread may own at each place of its
program (`PairHolds`), and that the threads of `incrementXY` own no mutex but
their own. Two threads that wait for each other would both be at the second lock
of `dead_lock.cpp`, and both own `m1`. `CountsInv` is about the counters: who is
between a lock and its unlock owns the mutex (`HoldersRight`), so what it read
of its counter is still there when it writes (`CountsRight`); `depth` and the
calls still to come make up the rounds (`DepthRight`); and what a thread logged
under the lock it holds is the end of the log (`SectionsRight`). Of the Bloom
filter, `NoFalseNegatives` is itself inductive: bits are never taken back, and the
size and the number of hashes never change. It holds for every set of items,
every hash function and all sizes (`BloomAssumption`), those that divide by zero
included. `TokensRight` of the scanner is proved for sources of any length
over any characters. What a lexeme is, is first said of positions in the source
(`NumberIs`, `StringIs` and the like), so that two lexemes at one place can be
compared; for each kind of first character, `ScansRight` shows that where
`scanToken` stops is a lexeme and that none at that place is longer, or that there is
none and it reports an error. The grammar's definition of a comment admits any
stop before the newline, and a number one after any of its digits, which is why
the longest lexeme is the point. `LoxInv` then collects the turns of the loop: the
next one starts where the last one ended (`GoesOn`), the tokens are those of the
pieces so far (`TokensAre`), in order (`InOrder`) and, while the loop runs, all from
before `current` (`Behind`), so that one more keeps the order; `line` is one
more than the newlines before `current`, and an error was reported only where
there is no lexeme (`ErrorsRight`). `Behind`, `line` and `ErrorsRight` are the
strengthening that `TokensRight` lacks. The
programs share a module and nothing else.

`SubsequencesProofs`. The library's induction theorems have an operator as a
parameter, which the provers cannot instantiate. `InductionOnSet` has the set of
the numbers with the property instead and follows from the well-foundedness of
`<`. With it the recursions of `Keep` and of `FlattenSeq` are proved to have the
solution that their definitions choose.

Only model-checked: every liveness property (`RecoveryEnds`, `LogoutEnds`,
`ShutdownEnds`, `LinesReachRoom`, `LeaversLeave`, `EveryoneServed`,
`ThreadsEnd`), since TLAPS does not prove statements that rest on fairness; and
`ParsesQueries`, where a proof would have to follow bison's numeric tables
through every state of the parser, which is finite and which TLC does.
`FileKVStoreProofs` takes the text format as constants with `LineAssumption`;
that `KVLines` satisfies it is evaluated for the strings of the file engine's
runs. `DirectReachesReceiver` is false (section 6).

## 6. Where the code and its documents disagree

The run `chat_direct` expects a violation; `PROJECT.json` quotes the lines. The
receiver of a direct message may log out between the lookup and `operator[]`,
which then creates descriptor 0, or before the sends, when its descriptor is
closed or another client's. The sender is told that the message was sent.

Without a run, seen while modelling:

- `simple-kv-cpp/README.md:119`, "Data persists across program runs": a key that
  contains `=` is split at its first one when the file is loaded, and is another
  key after a restart. `Owned` in `FileKVStore` names the keys for which the
  promise holds.
- `simple_page_impl/main.go:27`, "Add another that reuses space": `DeleteTuple`
  forgets the size of the slot, so `AddTuple` never finds space to reuse, except
  for an empty tuple, where it panics (`AddTuplePanics`).
- `multi_client_server/client.cpp:13`, "receive a complete message": the length and the
  body of a message are two sends; direct messages and replies to a login take no
  lock, so their parts may mix with those of others. `LockedSendsReach` says that
  messages sent under `client_mutex` do not.
- `chatroom-app`: a message longer than `maxBytes` arrives without its newline,
  joined to the next; a write that has to wait sends what has become of its
  buffer's memory.
- `http_server`: a request that TCP cuts after its first part is answered with
  404.

The properties of passing runs also name what the code does not keep: the WAL
store may let map and log differ on a key that two calls change at once; a page
whose directory meets its data (line 113 of `page.go` counts two bytes per slot
and no header), a page whose TupleCount fell below its slots, and a page that
was read and written back are outside the guarantees that hold; so are the
server that is interrupted on a thread that holds the mutex (`ShutdownEnds`
leaves it out, and it hangs), the user whose name someone else logged in under,
the rest of an echo that epoll's socket had no room for, and select's and poll's
clients while one of them does not read.

## 7. What is not modelled

- `Display`, `Close`, `Stats`, logging and the clients' mains beyond the calls
  they make: no state. `Display` ranges over the map without the mutex; the Go
  runtime may stop the program when a `Put` writes meanwhile, which the model has
  as a crash.
- `WriteToFile` and `ReadFromFile` of `page.go`: never called. Two file engines
  open on one file at the same time: no code does it.
- The chat room client's own buffers: each of its reads has a new `streambuf`, and
  lines that came behind the one it was for are lost with it.
- Numbers of descriptors beyond `FD_SETSIZE`, failures of `socket`, `bind`,
  `listen`, `poll` and `epoll_ctl`; responses whose file could not be opened are
  those of an empty file, as in the code.
- `consumeXY` spinning for good, `std::lock` giving way for ever, and a mutex that
  starves a thread: the models contain the first two, and no property excludes them.
- The values of literals and the wording of reports of the scanner; the growth of
  the parser's stacks, which no input of this grammar reaches, and the memory of
  its words.
- Programs whose threads share nothing (`basic.cpp`, `async_cpp.cpp`,
  `future_and_promise.cpp`, `join_detach.cpp`, `sleep_vs_wait.cpp`), the simple
  client and server, and the straight-line demonstrations of one library call each
  (`socket_prog/step1` to `step3`, `cpp/file_management`, `cpp/memory_management`,
  `system-prog-go`): there is one order of steps.
