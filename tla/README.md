# A TLA+ verification of NetworkProgrammingDemo

The repository is a collection of network programs.  One of them is a system of
its own, `src/Windows/WinHttpServer/WinHttpServer/`: an HTTP server on a Windows
I/O completion port, with a pool of client contexts shared by one worker thread
per processor.  The others are demonstrations of one technique each.  This
project models the server first, because that is where threads, callbacks and
partial failures meet, and then the demonstrations that have more than one actor.

Paths below are relative to `src/Windows/WinHttpServer/WinHttpServer/` unless
they start with `src/`.

## 1. Inventory

| Component | State | Operations | Talks to |
|---|---|---|---|
| `IocpServer.{h,cpp}` | connected and free list, `m_nConnClientCnt`, AcceptIoContexts, worker handles | `IocpWorkerThread` dispatching to `handleAccept/Recv/Send/Close`; `send`, `postX`, `CloseClient`, `releaseClientContext`, `addClient`, `removeClient`, `allocateClientContext`; `start`, `stop`, `shutdown`, `exitIocpWorker` | the completion port; `ClientContext`; the `notify...` callbacks of a subclass |
| `ClientContext.{h,cpp}` | socket, `m_nPendingIoCnt`, `m_inBuf`, `m_outBuf`, `m_outBufQueue`, `m_csLock` | `reset`, `appendToBuffer` | the workers |
| `IoContext.{h,cpp}` | one OVERLAPPED per operation, receive buffer | `resetBuffer` | the completion port, which hands it back |
| `LockGuard.h` | a critical section (recursive) | constructor, destructor | all threads |
| `HttpServer.{h,cpp}` | none | `notifyPackageReceived`: decode, answer, close | `HttpCodec`, `IocpServer::send` |
| `Codec.{h,cpp}`, `HttpMessage`, `Slice` | request and response under construction, a Slice of `m_inBuf` | `tryDecode`, `writeResponse` | the memory of `m_inBuf` |
| `Buffer.{h,cpp}` | a block and two pointers into it | `write`, `insert`, `remove`, `read`, `clear`, `copy`, `reallocateBuffer`, `deallocateBuffer` | the Slices and WSABUFs taken from it |
| `main.cpp` | the server object | `start`, then nothing; the destructor when `start` fails | `HttpServer` |
| `Timer.{h,cpp}` | a waitable timer | walk over the connected list, post close packets | both locks; never started at this commit |
| `Net`, `Addr` | none | wrappers of Winsock calls | |
| `Mempool.h`, `Buffer_old`, `HttpCodec.{h,cpp}` | | unused, commented out, or a stub | |

The demonstrations, each a program of its own:

| Program | State | What happens at the same time |
|---|---|---|
| `src/Linux/LinuxHighPerformanceServerPrograming/http_parse.cpp` | a buffer and three indices | `recv` cuts the request anywhere |
| `src/Linux/Demo/.../nonBlockingConnect.cpp`, `2_NonblockConnect.cpp`, `src/Windows/Demo/.../Non-blockingConnect.cpp` | a socket, `errno` | the connection is established, refused or reset while the program looks |
| `src/Linux/Demo/.../nbc.cpp` | sockets of all hosts, two descriptor sets, counters | many connects, one `select`, its timeouts |
| `src/Windows/TCP-IPNetworkPrograming/IOCPEchoServ`, `IOCPDemo` | handle and I/O data on the heap, a completion port | worker threads, clients that close or reset |
| `.../CmplRouEchoServ` | one data block per client | completion routines queued to the one thread |
| `.../AsynNotiEcho` | two parallel arrays | network events of all clients |
| `src/Linux/TCP-IPNetworkPrograming/http_server` | descriptors, a shared variable | one thread per connection |
| `.../semaphore` | two semaphores, `num` | two threads |
| `.../signal/remove_zombie.c` | two children, a pending signal | children end, signals are merged |

What is hard here, and what makes each component correct:

* **The pending counter.**  A context may only be reused when no operation on
  it is in flight and no handler uses it, since the completion key *is* the
  pointer to the context.  Every worker that posts, fails to post, or dequeues
  has to keep `m_nPendingIoCnt` right, in the order the others happen to run.
* **The lists.**  A context is connected, free, or in the hands of one
  `handleAccept`, never two of these.
* **Closing.**  Two operations of one client fail at the same time on two
  workers; the socket must be closed once, and counted out once.
* **The limit.**  It is tested and counted in two steps.
* **The output path.**  The first `send` posts, later ones queue, `handleSend`
  drains: nobody may touch the bytes that WSASend was given, and the stream
  must stay in order.
* **Locks.**  A client lock is held across `CloseClient` and `removeClient`.
* **Failures.**  Association, AcceptEx, WSARecv, WSASend, setLinger and
  CancelIoEx can each fail half-way through a handler.
* **Buffer.**  Sizes at the edge of a block take different branches, and stale
  bytes stay behind the data.
* **The end.**  The workers leave by an event or by a packet while operations
  are in flight; handles and AcceptIoContexts must outlive the last user, also
  when `start` failed half-way, and `stop` must return.
* **The codec over the buffer.**  It reads memory that `remove` moves under it.
* **The demonstrations.**  Readiness that does not say what happened, results
  that are read off `errno`, data freed without counting its users, arrays
  changed while they are walked, a variable shared with a new thread, signals
  that are merged.

The hazards are listed one by one, with their lines and the properties that
watch them, in `PROJECT.json`.

## 2. Modules

### IocpServer.tla: the server with its echo callback

A worker's position in a handler is `pc[w]`; `ctx`, `sk`, `io`, `nb` are its
locals (context, socket, AcceptIoContext, bytes transferred), and `ret` is where
the code goes on after `CloseClient` and `releaseClientContext` return.  One
action is one critical section or one interlocked operation:

| Action | Code |
|---|---|
| `AcceptDone`, `RecvDone`, `SendDone`, `IoClosed` | a packet is dequeued in `IocpWorkerThread`; `RecvDone` includes `appendToBuffer` |
| `AcceptCheck`, `AcceptCount`, `AcceptAlloc`, `AcceptPost`, `AcceptAdd` | `handleAccept`, in order |
| `Echo`, `EchoDone` | `notifyPackageReceived` and `echo`, with `send` inside |
| `PostRecv` | `postRecv` and the test of its result at the end of `handleAccept` and `handleRecv` |
| `SendNext`, `SendQueued` | `handleSend` |
| `CloseTake`, `CloseCancel`, `CloseCount` | `CloseClient` |
| `Release`, `RemoveClient` | `releaseClientContext`, `removeClient` |
| `Unlock` | the way out of a `send` or `handleSend` that closed or released its client: the test of `m_outBuf` at line 652, the end of the `LockGuard` |

The state of a context is one function per field: `sock`, `cnt`
(`m_nPendingIoCnt`), `inBuf`, `outBuf`, `outQ`, and `lock`, the owner of
`m_csLock`.  The lock is written only when a handler keeps it beyond one action
(a failed `send`, and `handleSend` until it returns).  Both may put the context on
the free list before they let go of the lock, so another connection may be given a
context whose lock is still held (`Leaving`); its first handler that needs the lock
waits for `Unlock`.  That the `handleSend` on its way out still finds `m_outBuf` empty
is part of `SendBufferStable`.  `m_csClientList` protects
single steps and has no variable.  `connected` and `free` count how often a
context is on a list, so that a double insertion would be visible; their order
is left out, which lets `allocateClientContext` take any free context.

The completion port is external: `ops` holds the posted operations, and any
worker may dequeue any of them, with any number of bytes or as a failure, at any
time.  That covers the cancellation of operations, reordering between
operations, partial sends and a peer that closes.  A packet of a failed AcceptEx
is treated by the code like that of a successful one, and so it is here: the
socket is just one on which the next call may fail.  `Faults` lists the calls
that may fail.

Three pieces of the code have undefined behaviour, modelled by what the build
can do.  `m_outBufQueue.push(sendBuf)` copies the pointers of a local Buffer
whose destructor releases the block, so `handleSend` reads released memory
(`Garbage`, or a fault) and `pop` releases it again (`heap = "corrupt"`), after
which any later use may end the process (`HeapFault`) and a send may fail.

The model is that of the Release build: the two assertions in
`ClientContext::reset` are stated as properties instead.

### HttpServer.tla: the callback of the HTTP server

`EXTENDS IocpServer` and replaces `Echo` and `EchoDone` by `TryDecode` and
`Decoded`, the loop of `HttpServer::notifyPackageReceived`.  A request is
abstracted to the sign of `tryDecode`.  From the second round on the codec reads
what `remove` left in the block, so every result is possible again; a bound,
`MaxDecodes`, limits the rounds.  A refused request is answered by whatever the
codec's `m_outBuf` holds, which is nothing in the first round.  After the close
the handler goes on to `postRecv`, as the code does.

### Buffer.tla and ByteQueue.tla

`Buffer` keeps the whole block, stale bytes included, and checks every
`CopyMemory` and `MoveMemory` against it (`fault`).  `moved` says whether the
last operation replaced the block.  `Align` stands for 1024.  `copy` takes the
data of the source and the size of its block, since both are used.  `scan` is
left out: it changes nothing and nothing calls it.  `ByteQueue` is what the rest
of the server relies on: append, prepend, take from the front, assign.  `remove`
and `read` refuse a size beyond the *block* and clip one beyond the data, so the
abstract queue allows both.  `IocpServer` uses a Buffer as a plain sequence; that
this is sound is what `QueueSpec` states.

### HttpParse.tla: the Linux request parser

`src/Linux/LinuxHighPerformanceServerPrograming/http_parse.cpp` reads one request
from one client in whatever pieces `recv` returns and parses it line by line.
The state is that of `main`: `buffer`, `read_index`, `checked_index`,
`start_line` and `checkstate`, with the text of the client in `stream`.  The
text is a sequence of tokens, the characters that the code looks at and the
words it compares; upper and lower case and the text of a header are left out.
`Recv`, `RecvNothing` and `RecvFailed` are the three results of `recv`;
`ParseLine` is one round of the loop of `parse_content` that finds a line, and
`ParseEnd` the one that ends it.  `parse_line` and `parse_requestline` are
operators of the same names.  `Outcome` is the reference: the answer read off
the whole text, with no buffer and no indices.

### IocpExit.tla: start, shutdown, stop

The other half of `IocpServer.cpp`: the thread that owns the server, `owner`, goes
through `start` (`CreateListen`, `CreateWorker`, `PostAccept`, each of which may
fail and leads to the destructor), `shutdown` (`Shutdown`, `ShutdownAccept`) and
`stop` (`ExitSignal`, `ExitPost`, `ExitWait`, `StopAccept`, `DeleteAccept`,
`StopEnds`), once or twice, while the workers run their loop (`TestEvent`,
`TakePacket`, `Dispatch`, and one step for a handler).  An AcceptIoContext is in
flight, in a packet or with a worker; what a handler does to clients is the
subject of `IocpServer.tla` and is here only an operation that goes on or ends.
The completion port is a queue in order; AcceptEx ends when the listening or the
accepting socket is closed.  `main.cpp` itself never stops a server that has
started; the module has an owner that may.

### HttpCodec.tla and HttpInput.tla

`HttpCodec` is `tryDecode` with all it calls, as operators of the names in
`Codec.cpp` and `Slice.cpp` over sequences of tokens.  `HttpInput` is one
connection: `EXTENDS Buffer, HttpCodec`, so that `handleRecv` is the `write` of
Buffer and the end of a request its `remove`.  The codec's Slice is taken once
per notification and reads the block, stale bytes included, in every round of
the loop.  The module says what a client means by its requests (`Text`, `Legal`,
`Verdict`) independently of the decoder, and which requests a client writes
(`Requests`, `Written`): any three words as the start line, any number of field lines
of the usual shape, and a body of any characters and any length, whatever the fields
say of it.  A request is `Framed` if the server sees its end where the client puts
it.  One whose body is announced by `Content-Length` is not: the server looks only for
`content-length` and takes the body for the beginning of the next request.  The
verdict on a request at the beginning of `m_inBuf` is stated for all of them; which
request is there, and how many responses there are, where all are Framed (`AllFramed`).

### The demonstrations

* `Connect.tla`: all versions of connecting one socket; `version` says which
  function runs, and the versions differ in what they do after `select` or `poll`.
* `Nbc.tla`: `nbc.cpp`, many hosts with one `select`.
* `EchoPort.tla`: IOCPEchoServ and IOCPDemo; they differ in what follows a call
  that fails at once.
* `ApcEcho.tla`: CmplRouEchoServ; a queued routine runs when the thread sleeps.
* `EventEcho.tla`: AsynNotiEcho; `hSockArr` and `hEventArr` are sequences.
* `HttpThreads.tla`: `http_server.c`, with a descriptor table that gives out the
  lowest free number, to connections, to their duplicates and to the file that
  `send_data` opens and never closes.
* `Handoff.tla`: `semaphore.c`.  `Zombies.tla`: `remove_zombie.c`.

`MCPrograms` composes them into one specification for TLC.  They share nothing:
`prog` says which one was started, and the others stay where they begin, so the
states are the sum and not the product of theirs.

### MC modules

`MCIocpServer`, `MCHttpServer` and `MCHttpInput` add the symmetry sets and the requests
that a client sends.  `MCText` (Buffer and HttpParse) and `MCExitInput` (IocpExit and
HttpInput) put two components that share nothing into one specification, with the
bounded strings and texts: `part` says which of the two runs.

### Proof modules

`IocpServer_proofs` extends `IocpServer`, and `IocpPending_proofs` and
`HttpServer_proofs` extend it; `IocpExit_proofs`, `Buffer_proofs` and
`HttpParse_proofs` extend their component, `HttpInput_proofs` extends `HttpInput` and
`Buffer_proofs`, and `Programs_proofs` extends `MCPrograms`.

## 3. Runs

| Run | What it shows |
|---|---|
| `echo` | Two workers, two clients, every fault.  Pool, socket ownership, connection counter, pending counters, packets against contexts, send buffers and the echoed stream. |
| `race` | `AcceptBound`: three workers and two AcceptIoContexts at a limit of one.  Two workers stand between the test and the increment of the connection counter while the third closes or accepts; the limit is passed, and never by more than the number of AcceptIoContexts less one. |
| `live` | `AcceptReposted`: the server does not run out of pending accepts, as long as neither AcceptEx nor the association fails.  `WorkerReturns`: two workers that want the lock of one client never wait for ever. |
| `queue` (violation) | A context is reused with queued output: `assert(m_outBufQueue.empty())`. |
| `http_pool` | The lists survive the double release of a refused request. |
| `http_reset` (violation) | ... but the pending counter does not: `assert(0 == m_nPendingIoCnt)`. |
| `text` | Buffer stays inside its block, keeps the block when emptied, implements ByteQueue.  `http_parse.cpp` gives the answer of the whole text, however `recv` cuts it, and its indices stay inside the buffer; every first line of up to six tokens is accepted exactly when it is a request line. |
| `block` (violation) | `Buffer::remove` keeps a block that is larger than the rest needs, where its comment says that it replaces the memory every time. |
| `exit_input` | Every call of `start` may fail, `shutdown` runs under the workers, `stop` is called once or twice: nothing is released or deleted under a user (`ServerOutlivesWorkers`, `NoDeletedInUse`, `NoDeletedInFlight`), everything is given back (`StopReclaims`), and `stop` returns (`StopReturns`).  One connection: the decoder's verdict on a request is that of the reference, however it is cut and whatever its body is (`DecodeExact`); requests in at most half of their block are answered once (`AnsweredOnce`). |
| `legal` (violation) | A longer legal request closes the connection. |
| `programs` | The demonstrations: a connection reported is one that was established (`ConnectSound`, `RoundsSuffice`, `ConnectDecides`); `nbc.cpp` counts right and ends (`CountsAgree`, `NbcEnds`); echoes come in order from live data (`EchoInOrder`, `HandleOutlives`, `ApcClosesLeft`, `ApcTakesAll`); the arrays stay parallel and nobody starves (`ArraysParallel`, `EventsServed`); one answer per connection (`OneAnswerEach`, `AllAnswered`); no number is lost (`SumExact`); zombies are removed (`ZombieOnlyMerged`). |
| `nbc` (violation) | `nbc.cpp` reports a host as timed out that answered. |

Bounds.  Two workers suffice for every race in the code but that for the limit: each
is between one handler and another.  For the limit, `race` has a third worker and a
third connection, so that two accepts pass the test while a client is there or leaves;
no bytes are needed for that (`MaxBytes` is 0, and a receive ends as a failure or not
at all).  Two clients on two contexts with a limit of one give
accepting at the limit, reuse of a context, and two connections at once when a
close is under way.  Two bytes per client give a partial send and a message that
queues behind one in flight.  For starting and stopping, two workers take one packet each, the
wrong one too, and two accepts differ in where they are when `shutdown` or `stop`
meets them; one connection is enough to put an accept into a handler.
For Buffer, a unit of two bytes and up to five bytes reach every branch
on both sides of a block boundary, with blocks of one to three units; two
distinct bytes and the filler make any loss, repetition or mix-up visible, since
the code never looks at a byte.  No pass is due to a limit on contexts: `Contexts`
is as large as `Socks`, and a connection needs one of each.  For the request
parser three lines are a request line, a header and the empty line; each may be
ended by CR LF, a lone CR, a lone LF or CR CR LF, and three long lines fill the
16 places of the buffer.  Six tokens are a request line with one space more than
it needs, or with a scheme in front of its path.  For the codec, the block of 42
tokens holds the short requests in less than half and the long ones in more; the
requests combine right and wrong start lines with up to two right and wrong
fields, and pairs of requests, with a body and without, follow each other on one
connection; some have a body that their fields do not announce, announce otherwise, or
that has the words and the spaces of a start line (`Stray`).  `Rounds` is the 5 of the code and `Times` too; `Timeouts` stands for
10 and `WaitEvents` for 64, with enough hosts and clients to reach both.  Three
messages keep two workers busy with one client; three bytes are one and a half buffers.
Two connections of `http_server.c` let one reuse the descriptor that the other closed
and overtake it, and three descriptors for each are never used up: a connection, its
duplicate and a file.

Symmetry is used where only invariants are checked.  Deadlock is checked in every
run.  The legal ends are actions of their own: `Quiescent` (all workers wait for a
packet that no peer will cause, or the process died of the heap), `Destroyed`,
`Over`, and one per demonstration; `HandOver`, for one, needs both threads joined,
so the check of deadlock shows that `semaphore.c` comes to its end.

Fairness.  `Fairness` is weak fairness of each worker's next handler step: the
system scheduler runs a runnable thread, and a thread at the entry of a critical
section gets it, since the owner leaves it within its own fair steps and at most
one other worker waits.  Nothing is assumed of packets: clients may be silent for
ever.  `ExitFairness` adds that the system ends an AcceptEx whose socket was
closed, which is documented behaviour and what `stop` itself waits for; nobody has
to call `stop`.  `StopReturns` is stated for servers whose packets can be posted:
without them a worker may wait for ever, and so does the owner.  In `MCPrograms`
the steps of the program that runs are fair (`Task`): its threads run, and a
`select` with a timeout comes back.  Calls that fail are never forced, and neither
are the peers, except that a number is entered and that a request line arrives or
the client closes, without which the two programs that wait for these would wait.

## 4. Findings

* `ClientContext.cpp:49` asserts an empty queue at reuse; a send that fails while
  messages are queued leaves them there (`queue`).
* `ClientContext.cpp:48` asserts a zero counter at reuse; a refused request
  releases its context twice while an empty response is in flight (`http_reset`).
* `Codec.cpp:133` says that it is an illegal connection that is closed.  A legal
  GET that fills more than half of its block is answered, moved away by `remove`
  with its tail left under the codec's Slice, decoded again from there, answered
  again and closed (`legal`).  A request exactly as long as its block is not moved
  at all and is decoded for ever.
* `nbc.cpp:222` says that what remains in the set has timed out.  `select` empties
  the set when it times out and the `continue` does not restore it, so nothing that
  happens after the first quiet second is seen (`nbc`).
* `Buffer.h:16` says that `remove` replaces the memory every time.  It does so only
  when what is left still needs the whole block, and never when nothing is left, which
  is what the Slice of the codec relies on (`EmptyingKeepsBlock`, proved) (`block`).

Seen while modelling, and not stated as properties of a run, because the code makes
no promise about it or because another property bounds it: the limit of
`IocpServer.cpp:538` is passed when accepts race between the test and the increment
(`CountBound` and `AcceptBound`, both proved, say by how much, and `race` reaches it);
`handleSend` and `send` hold the lock of a context, and the first reads its `m_outBuf`,
after they gave it back to the pool; a full
buffer of `http_parse.cpp` makes `recv` return 0, which is taken for a client that
has closed (line 218); a second `stop` closes the thread handles again; a failed
extension lookup closes the listening socket twice; `shutdown` with nothing to
cancel leaves its contexts undeleted; `stop` closes no client, and a worker that is
still in a callback while `~HttpServer` runs calls that of the base class; the body
length is looked up as `content-length` only, so a body announced as
`Content-Length` is taken for the next request, and every POST is refused; a
pipelined request is lost with the one before it; `v2` of the connect demonstration
may go round for ever on a refused connection; a hole in `sockets[]` of `nbc.cpp`
hides the last socket; a WRITE packet of IOCPEchoServ may read freed handle data;
the 65th entry of AsynNotiEcho overruns its arrays, and an aborted socket stays in
them; `wsaBuf.len` of CmplRouEchoServ only shrinks; a second connection of
`http_server.c` may overwrite the descriptor before the first thread has read it;
`send_data` of `http_server.c` never closes the file, nor the stream if there is no file,
so every GET costs a descriptor;
`PostResultInvalidSocket` from `postSend` is ignored, so a
context closed by another worker at that moment keeps its count and is never
pooled; a failed association loses the context, the connection and the
AcceptIoContext; an empty message in the output queue ends the draining of the
queue and keeps its count; `parse_line` of `http_parse.cpp` skips a lone LF (the
`return LINE_BAD` for it is commented out), so it becomes part of the line.

## 5. Proofs

What TLC shows on a small instance the theorems show for every value of the
constants: any finite set of workers, contexts, sockets and accepts, every limit,
every fault set and every bound.  The assumptions are named in the modules that
declare the constants and say no more than the code does: the sets are finite,
`None` is in none of them, limits, units and buffer sizes are positive
(`ConstAssumption`, also for the set of AcceptIoContexts; `Times` and `Rounds` are
the literal 5 of their programs).  Each theorem has the same shape, Init => Inv,
Inv and a step give Inv', Inv => the property; what differs is the invariant.

| Module | Theorems |
|---|---|
| `IocpServer_proofs` | `TypeCorrect`, `PoolCorrect`, `OwnerCorrect`, `CountCorrect`, `AcceptCorrect` |
| `IocpPending_proofs` | `ReleaseCorrect`, `PendingCorrect`, `PacketCorrect`, `SendBufferCorrect`, `ResetPendingCorrect`, `EchoCorrect` |
| `HttpServer_proofs` | `HttpCorrect` |
| `IocpExit_proofs` | `ExitCorrect`, `UseCorrect`, `FlightCorrect`, `ReclaimCorrect` |
| `Buffer_proofs` | `BufferCorrect`, `EmptyingCorrect`, `BufferImplementsQueue` |
| `HttpParse_proofs` | `ParseCorrect`, `PiecesCorrect` |
| `HttpInput_proofs` | `InputInvariant`, `DecodeCorrect`, `AnsweredCorrect` |
| `Programs_proofs` | `ConnectCorrect`, `RoundsCorrect`, `NbcCorrect`, `HandleCorrect`, `EchoOrderCorrect`, `ApcCorrect`, `ArraysCorrect`, `ThreadsCorrect`, `HandoffCorrect`, `ZombiesCorrect` |

### The echo server

* `TypeCorrect`: `Spec => []TypeOK`.  TypeOK is inductive because it ties `ctx`,
  `io` and `sk` to the steps that use them.
* `PoolCorrect`: `Spec => []PoolDiscipline`.  The inductive invariant is
  `PoolInv`: a context that `new` has not returned yet is on no list and with no
  handler; without this the step that allocates a new context could hand out one
  that is already connected.
* `OwnerCorrect`: `Spec => []OneOwner`, inductive together with TypeOK.  Only
  three kinds of steps touch a socket: accepting it (fresh, so nobody else owns
  it), storing it, and taking it out of the context.
* `CountCorrect`: `Spec => [](ConnCountExact /\ CountBound)`.  The first part
  moves with OneOwner (a socket that is closed was open).  The second part needs
  `CountInv`: the increments still to come are counted as well, and the worker that
  passes the test is not among them yet, so at most the others are.
* `AcceptCorrect`: `Spec => []AcceptBound`.  `AcceptCountInv` counts the increments
  still to come against AcceptIoContexts instead of workers: `AcceptHeld` says that
  a worker in `handleAccept` holds one that nobody else has.
* `IocpPending_proofs` is about the pending counter.  `PendingInv` is stated per
  context, as nine parts that need each other: a context has one receive and at most
  one send (`UniqueInv`); before `enterIoLoop` and after the last `exitIoLoop` a
  worker has it for itself (`AloneInv`); the lock is kept by a worker that closes or
  releases the client, or leaves after that, also while the context serves another
  connection (`LockInv`); input waits only inside a callback (`InputInv`); somebody will notice
  a closed socket (`SocketInv`); packets belong to the connection (`StaleInv`);
  `m_outBuf` holds the bytes in flight (`OutputInv`); a free context is in nobody's
  hands, but for a worker that leaves with its lock (`FreeInv`); the counter covers operations and handlers (`CoverInv`).  A step
  touches one context and `FrameContext` disposes of the others; the lemmas
  `PendingMove`, `PendingDequeue` and their kin treat kinds of steps.  `PendingCovers`
  cannot be proved alone: that the counter reaches 0 only once is `AloneInv`, and that
  a closing handler does not meet a second receive is `UniqueInv`.  From PendingInv
  follow `NoEarlyRelease`, `PendingCovers`, `NoStalePacket`, `SendBufferStable`, and
  the assertion of `ClientContext.cpp:48` (`ResetPendingCorrect`), which the HTTP
  server breaks (`http_reset`) and the echo server keeps.
* `EchoCorrect`: `Spec => []EchoIntegrity`.  `ByteInv` says of each context where the
  bytes received and not yet returned are: on the wire, in the send in flight, in
  what a completed send left, and in `m_inBuf`, in this order and without a gap as
  long as nothing was queued.  Bytes that `send` could not post, and bytes queued,
  break the chain for good: `m_outBuf` is then never empty again and the client gets
  nothing more, or released memory is read and `heap` is no longer "ok".  `SockInv`
  ties an operation to the one context of its socket.
* `HttpCorrect`: pool, owners and counters for `HttpSpec`.  The lemmas about the
  shared handlers are reused; only `TryDecode` and `Decoded` are new.

### Start and stop

* `ExitCorrect`, `UseCorrect`, `FlightCorrect`: ServerOutlivesWorkers,
  NoDeletedInUse and NoDeletedInFlight.  The inductive invariant `ExitInv` has four
  parts: types; `HandlesInv`, which ties the position of the owner to the workers
  that may still run; `PlacesInv`, each AcceptIoContext is in one place at most (the
  system, one packet, one worker) and what the owner has not made is in none; and
  `DeletedInv`, where those that are deleted or about to be can still be: only in
  packets that no worker will look into, because `m_bIsShutdown` is set or all
  workers have left.
* `ReclaimCorrect`: StopReclaims.  `ReclaimInv`: what was made is listed, deleted or
  being closed, until `shutdown` empties the list.

### Buffer and the request parser

* `BufferCorrect`: `Spec => [](BufferType /\ NoFault)`, for every unit.  It rests on
  `RoundUpSize` (a size rounded up is at least the size and a multiple of the unit)
  and one lemma per memory primitive.  `EmptyingCorrect` follows from the same steps.
* `BufferImplementsQueue`: `Spec => QueueSpec`.  Each operation is shown to be the
  operation of the queue on the first `len` bytes of the block, from what the
  memory primitives do to that prefix.
* `ParseCorrect`: `ParseSpec => []ParseType` of HttpParse, for every buffer size and
  every set of texts.  ParseType is inductive given that the text is made of
  tokens; `ParseLineBounds` is the heart of it: where `parse_line` stops lies
  between `checked_index` and `read_index`, and so does what it overwrites.
* `PiecesCorrect`: `ParseSpec => []PiecesDoNotMatter`.  `PieceInv` says that while the
  request is read the text before `start_line` is complete lines (`Whole`), begun by a
  request line and without an empty one (`Headed`), that the buffer behind
  `start_line` is what was sent, that the place before it is NUL (so the `LF` branch of
  `parse_line` is never taken: every line end is found at its CR), and that no CR lies
  between `start_line` and `checked_index`.  The lemmas `AnswerNone`, `AnswerBad`,
  `AnswerLine` and `AnswerGet` compute `Outcome` from that in the four ways a call of
  `parse_content` can end.  `RequestLine` proves that `parse_requestline`, with its
  `strpbrk` and `strspn`, accepts exactly the lines that `IsRequestLine` describes.

### The codec over the buffer

`DecodeCorrect`: `InputSpec => []DecodeExact`, and `AnsweredCorrect`:
`InputSpec => []AnsweredOnce`, for every conversation of requests, of any number, with
any number of fields and any body, for every unit of the block
and every way `recv` cuts the stream.  The only condition on a request, `Written`, is the
shape of its field lines.  Both properties have a part that holds of every conversation
(the verdict on a request at the beginning of `m_inBuf`; no third round) and one that
is stated where the server sees the ends of the requests where they are (`AllFramed`):
a body under `Content-Length` is outside the second part, because there the
code loses the place.  `InputAssumption` says what a client writes,
that the bytes of the Buffer are the tokens of the codec, and that the bound
`MaxAnswers` does not stop the count.  The argument has four parts.

* *The decoder on the beginning of a request* (`DecodeHead`): the result is
  `Verdict`.  The characters of a request are placed by `HeadShape`, which gives the
  index at which each line begins; `getHeaderIs` shows that the first CR LF CR LF is
  that of the empty line, `FieldWords` and `StartWords` what `eatWord` returns on a
  line, and `FieldsOutcome` what `HeaderLines` has collected behind each line, from the
  last one back to the first.
* *The decoder on other characters*: on text that begins inside a request it never
  accepts (`DecodeTail`, `DecodeInside`: its first line has fewer than three words, or
  begins with the end of a body grown together with a method), on Nul
  it asks for more (`DecodeNul`), and what it has accepted it accepts again
  (`DecodeAgain`).
* *The stream and the Buffer*: `StreamShaped` says where the requests of a
  conversation are in the characters sent; `WriteInput` and `RemoveInput` what the
  operations of Buffer do to the data and to the bytes behind it.
* *The connection*: the inductive invariant `InputInv`.  The data of `m_inBuf` are
  the last characters received (`DataInv`); behind it there is nothing but Nul while
  the data never filled more than half of the block (`SpareInv`, which is why half is
  the border: only then does `remove` move Nul over all of the data); a phase of
  `notifyPackageReceived` fixes the values of its locals (`PhaseInv`); the first verdict
  of a notification is that of the request the data begins with (`HeadInv`); and, if all
  requests are framed, there are no
  more responses than legal requests taken (`CountInv`), and with one request at a
  time the requests answered are the first ones, all legal, and the next one begins
  where the data does (`TurnInv`).  `DecodeExact` alone is not inductive: that the
  codec looks at the beginning of a request is TurnInv, and TurnInv needs that the
  second round of the loop found nothing, or broke the connection for good.
  `InputInv` was checked by TLC on single requests, pairs and triples before it was
  proved.

The library's induction theorems cannot be used here, because they take an operator;
`LeastElement` and `Upward` put a set in its place.  Both functions that are defined by
their own equation, the one of `FlattenSeq` and the one of `HeaderLines`, are first
shown to exist, the first for one number of sequences after the other and the second
from the end of the header backwards.

### The demonstrations

Each is proved of `ProgramsSpec`; the steps of the other programs leave the variables
of one alone.

* `ConnectCorrect`: a socket that counts as connected was established at an earlier
  select, and `errno` is EISCONN only after that (`ConnSoundInv`).  `RoundsCorrect`:
  `RoundsInv` relates the round in which the connection was established to what the
  next `connect` will leave in `errno`.
* `NbcCorrect`: during the first loop every socket is in `wrfds` or counted in `n`,
  afterwards in `wrfds_orig` or counted, and what was told of is in neither
  (`NbcInv`).
* `HandleCorrect`: an I/O data block is in one place at most (`PacketInv`), the
  blocks of a client are used in order and only the last one receives (`ChainInv`),
  and a client is served by one worker at most, while no receive is under way
  (`ServeInv`).  `EchoOrderCorrect` builds on it: what was returned lies before all
  that may still be (`OrderInv`), and without a failure every message received is on
  its way or has arrived (`NoGapInv`).
* `ApcCorrect`: the receive length is BUF_SIZE or what a receive returned, hence
  never 0 (`ApcClientInv`).
* `ArraysCorrect`: the entries are as the property says even beyond the limit, the
  backlog holds only clients not yet accepted, so an accept adds a new entry
  (`BacklogInv`), and the listener never reports a read or a close, so it is never
  taken out (`ReportInv`).
* `ThreadsCorrect`: as long as no accept overtakes a thread, the descriptors of a
  connection and of its file are exactly those its thread holds (`ThreadInv`), never
  more than two, so there is always a free one (`FreeExists`); a thread that got to
  `send_data` ends with exactly one open, that of the file or of the stream, and the
  counter of leaks is the number of these threads.
* `HandoffCorrect`: one token is passed round between the semaphores and the threads.
  `ZombiesCorrect`: a pending or running signal stands for a zombie of its own unless
  two were merged.

### Only model-checked

All liveness (`AcceptReposted`, `WorkerReturns`, `StopReturns`, `ConnectDecides`,
`NbcEnds`, `ApcTakesAll`, `EventsServed`, `AllAnswered`) and freedom from deadlock,
which are beyond the prover.  Every invariant and the refinement that the passing runs
check are stated by a theorem.

## 6. Not modelled, and the plan

* `Timer.{h,cpp}`: nothing creates or starts the timer at this commit.
* `Net`, `Addr`: single system calls; their failures are the `Faults`.
* `Mempool.h`, `Buffer_old`, `HttpCodec.{h,cpp}`: unused, commented out or a stub.
  Operations of Slice that the codec never calls, `Buffer::scan`, `setKeepAlive`.
* AcceptExFunction: a sample of the platform documentation, straight-line code.
* The select, poll and epoll servers: `echo_selectserv.c` passes `fd_max` instead
  of `fd_max + 1`, so its listening socket is never watched and it only times out;
  `epoll_poll_test.c` ends at start in `inet_addr(NULL)`; `poll_test.c` asks once and
  ends; `reactor.cpp` does not compile.  None has a behaviour to check.
* The HTTP client, pipe, alarm, zombie, datagram, multicast and I/O call
  demonstrations: straight-line code, one actor.
* Logging, everywhere.

What is left to do: carry the invariant of the pending counters over to the callback of
the HTTP server as far as it holds there.
