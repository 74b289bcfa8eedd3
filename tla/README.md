# Formal model of the page-streaming programs

The repository holds programs that measure how fast pages can be moved over TCP or UDP:
a client/server pair over io_uring with many connections per thread
(`io_uring_fast_net_new`), the same pair over `poll(2)`, a family of older io_uring
experiments (`fast_net`, with liburing vendored beside them), and demos over DPDK,
Seastar and tokio-uring. This directory models them in TLA+, checks the models with TLC
and proves theorems about them with TLAPS. Every definition is translated from the
source; `PROJECT.json` gives, for each, the lines it stands for.

## 1. Inventory

### io_uring server, `io_uring_fast_net_new/src/server.cpp`

State shared by its threads: `connection_fds` (one vector of descriptors per worker,
no lock), `next_thread`, the atomics `accepting_connections` and `timer_started`, and
`server_start_time`. State of a worker: its ring, its buffers, `inflight`,
`message_count`, `fd_to_conn_index`, and its `ThreadResult`.

* `accept_connections` accepts without blocking, starts the timer at the first
  connection, deals connections round robin, and looks at the clock only when there
  is nothing to accept.
* `worker_thread` waits for `connections_per_thread` descriptors, then calls
  `handle_connection` again and again **on one ring** until the acceptor has stopped or
  the time is over.
* `handle_connection` prepares one operation per buffer (half duplex: a `send_zc` of a
  page; full duplex: a `recv` of a request), submits, then takes one completion per
  pass: `-EAGAIN` is prepared again, errors and a result of 0 break out of the loop
  *before* the completion is marked seen, a send or recv that went through is followed
  by the next operation of its buffer.
* `main` joins the workers, closes the listening socket, joins the acceptor.

Hard: completions in any order and two for every `send_zc`; a loop left with operations
in the ring and entered again with counters at zero; vectors read while the acceptor
reallocates them; three different places that decide that the time is over. Correct
means: the counters mean something definite, indexes are inside, nobody leaves early,
everybody leaves after the deadline, the message about a closed connection is true.

### io_uring client, `io_uring_fast_net_new/src/client.cpp`

Threads that share only the start time. A thread connects its sockets (a failed
connect only shortens the vector), fills the ring, and answers every completion with
the next operation of its buffer; it ends when the deadline has passed and `inflight`
is 0. The wait for a completion has **no timeout**. Correct means: `inflight` is the
number of operations under way, a buffer is in one operation at a time, a ring entry is
always free when one is needed, after the deadline the thread only drains, and it ends.

The two programs meet on a stream of bytes that neither frames: any received piece is a
request or a page, a short send is a whole one. Correct means at least that what a
receive waits for is on its way, however the stream is cut.

### poll(2) server and client, `server_s.cpp`, `client_s.cpp`

The same threads and the same dealing of connections; a worker polls its sockets,
receives and sends without blocking, and closes a descriptor on an error. The server
sends a page whenever `POLLOUT` says it may, whatever was requested. Hard: the
descriptors are numbers of the process, and are closed by one thread while another one
opens sockets.

### Configuration and the runs around it

`static_config.cpp` reads the environment, scales the queue depth and the operations
under way by the connections, and saves the configuration beside the report; `main` of
each program starts threads, joins them and sums what they return.

### liburing, `fast_net/libs/liburing/src`

Vendored, but the programs are little more than callers of it. `queue.c` and the inline
functions of `liburing.h` keep two rings shared with the kernel (heads and tails modulo
2^32, arrays of entries and completions) and the private `sqe_head`/`sqe_tail`, submit,
and wait for completions in a loop of look, system call, look again. `setup.c` and
`register.c` make a ring from mappings, huge pages or the program's memory, register and
close its descriptor and take it all down. Hard: the kernel runs beside it, a polling
kernel thread falls asleep beside a submit, counters wrap, completions overflow, calls are
cut short, old kernels have no timeouts, a set-up fails half-way. Correct means: three
queues in which nothing is lost, duplicated or reordered; a wait returns a completion or
an error; a wakeup is never lost; nothing of a ring given up is left.

### fast_net

`buffer_pool.hpp` (a ring of buffers with check-out and check-in, and a mode with one
block for everything), `simple_iou_server.cpp`/`simple_iou_client.cpp` (requests for
pages over one ring per connection), `max_server.cpp`/`max_client.cpp` (one-way
streams, totals), `server.cpp`/`client.cpp` and `server_iou.cpp`/`client_iou.cpp` (the
get-page protocol of `models/get_page.hpp`, one request at a time and in batches; not
built any more), and pure helpers. Hard: a buffer that is handed on while the kernel
reads it, windows that failures fill for ever, responses on a stack that is gone,
streams that an incomplete answer leaves out of step.

### Demos

`dpdk_demo` (UDP packets from a pool of mbufs, an ARP exchange first),
`dpdk_seastar_demo` (futures of one connection), `rust_io_uring_demo` (16 parallel
reads, 16 parallel writes on a stream).

The complete list of components, with what is modelled of each, is `components` in
`PROJECT.json`; what is hard to test in them is `hazards`.

## 2. How the model is split

| module | models | state and actions |
|---|---|---|
| `UringClient` | one thread of `client.cpp` | the ring as three queues `sq`, `kernel`, `cq`; `inflight`; `Connect`, `Setup`, `Start`, then `LoopTop`, `WaitFails` and one action per branch of the event loop (`Resubmit`, `ConnectionLost`, `SendDone`, `RecvEarly`, `RecvLate`); the kernel, the peer and the clock are actions of their own |
| `UringServer` | one worker of `server.cpp` once its connections are complete | the same three queues; `EnterHandleConnection`, one action per branch (`Resubmit`, `OperationError`, `ClosedByClient`, `SendDone`, `RecvDone`), `Leave` back to `worker_thread`; a `send_zc` leaves a notification behind |
| `ServerThreads` | acceptor, workers and `main` of `server.cpp` | the vectors `connection_fds`, a `push_back` that reallocates as two steps, the loops around `handle_connection`; the event loop is the one state `"serve"` |
| `PageStream` | client and server over one connection, full duplex | a stream of pieces each way, operations counted by stage; one action per kind of completion and end, receives of any length, short sends |
| `PollClient` | the threads of `client_s.cpp` | the descriptor table of the process, one action per system call |
| `PollServer` | acceptor, workers and `main` of `server_s.cpp` | the same table, the vectors of `ServerThreads`, one action per system call |
| `StaticConfig`, `BenchmarkRun` | `static_config.cpp` and its namesake of `fast_net`; the `main`s around the threads | a configuration is a record, sources are functions from keys to values; load, join, save, repeat |
| `UringQueues` | nothing by itself: what a ring promises | three queues; `Prepare`, `Take`, `Complete`, `GiveBack` |
| `IoUring` | `queue.c` and the ring functions of `liburing.h` | counters and arrays; a step is what a call does up to its next system call or its next look at memory the kernel changes; the kernel and its polling thread are actions of their own |
| `LiburingSetup` | `setup.c`, `register.c` | mappings and descriptors; one action per system call, each of which may fail |
| `BufferPool` | the buffers of one size of `buffer_pool.hpp` | a pool is a record; `CheckOut`, `CheckIn` are operators on it |
| `SimpleIouClient` | one thread of `simple_iou_client.cpp` over two pools | the ring; one action per prepared operation (`PrepareSend`, `PrepareRecv`), `Submit`, `Reap`, `Fail`, `EndPass`; the kernel's completions |
| `SimpleIouServer` | all threads of `simple_iou_server.cpp` | descriptor table, a ring and a pool per thread; `Main`, `EventLoop`, `Finish`, `DestroyPool` |
| `MaxStream` | `max_client.cpp`, `max_server.cpp` | windows, streams of pieces, totals; `Fill`, `Reap`, `HandleClient`, `EventLoop`, `Main` |
| `GetPageModel`, `GetPage`, `GetPageIou` | the get-page protocol and its two pairs of programs | requests and responses in halves on a stream; byte orders as a flag; the batched server's response as a frame of its stack |
| `Dpdk` | `dpdk_sender.c`, `dpdk_receiver.c` and their headers | mbufs counted by owner, frames on the wire |
| `SeastarDemo` | the Seastar pair | futures in the order they were made, halves of pages |
| `TokioUring` | the tokio-uring pair | tasks that interleave where they await |
| `Programs` | the ten smaller programs, one to a behaviour | `program` chooses an instance; the other instances' variables are unused |
| `MCUringServer`, `MCPrograms` | | instances for TLC: scenarios of the worker; sizes, modes and environments of the smaller programs |
| `Counting` | | how many elements of a queue are of a kind; sums over a set |
| `UringClientProofs`, `UringServerProofs`, `PollClientProofs`, `PollServerProofs`, `IoUringProofs` | | theorems about the modules they are named after |
| `FastNetProofs` | | theorems about `SimpleIouClient` and, as instances of `Programs`, `GetPage` and `GetPageIou` |
| `ProgramsProofs` | | theorems about `ServerThreads` and about the other instances of `Programs` |
| `CountLemmas` | | lemmas that several of those rest on |

A completed operation is one of four results: `"some"` bytes, `"none"`, `"again"`
(`-EAGAIN`) and `"error"`, because those are what the code tells apart. Where lengths
matter (`PageStream`, `MaxStream`, the get-page and demo modules) bytes are counted in
pieces, a few to a page. The contents of pages, per-second reports and report files are left out. Between two steps of
a thread anything else may happen; a step of the io_uring modules is what the thread
does between two calls that can block or that others can see, a step of the poll
modules is one system call, because there another thread's call in between matters.

Names are those of the code (`inflight`, `connection_fds`, `poll_fds`, `is_sending`,
...). Variables commented *history* have no counterpart and no effect; they let a
property speak of the past. Operators commented *Seeded fault* are not part of any
specification: each is a plausible bug in one definition, and `PROJECT.json` records
which property must fail when it takes the place of that definition.

### How the modules fit together

* `UringQueues` is the ring as `UringClient`, `UringServer` and `SimpleIouClient` use
  it: their `sq`, `kernel` and `cq`, in which entries are taken in order, complete in any
  order, and nothing is lost. `IoUring` implements it: `Implements` maps its counters
  and arrays to the three queues (`sq` is the slice of `sqes` from the kernel's head to
  the library's tail, `cq` the slice of `cqes` between head and tail and behind it what the
  kernel keeps for a full ring).
* `ServerThreads` and `UringServer` meet in two places: the fairness of `EndServing`
  ("the event loop ends after the deadline") is the property `DeadlineEndsWorker` of
  `UringServer`, and `UringServer` starts where `ServerThreads` has shown
  `connections_per_thread` descriptors to be.
* `PageStream` composes both ends of a connection. The bookkeeping of each end and
  failing operations are left to `UringClient` and `UringServer`.
* `SimpleIouClient` and `SimpleIouServer` share `BufferPool`; `GetPage` and `GetPageIou`
  share `GetPageModel`.
* `Programs` puts ten small modules into one specification. `program` says whose behaviour it is;
  the variables of the others keep the value `"unused"`. Each has its own instance, its own conjunct of
  a property and its own case of `ProgramsEnd`.

### Descriptors in the poll modules and the simple server

`table` (or `fds`) maps an open number to what it denotes. `socket()`,
`accept4()` and `io_uring_setup()` take the lowest free number; `close()` removes a
number, and of one that is
not open only says `EBADF`. A thread holds numbers, never sockets: whether the number
it uses still denotes what it was given for is what the properties are about.
A send on a lost connection may go through, fail, or raise `SIGPIPE` (neither program
masks it or passes `MSG_NOSIGNAL`), which ends the process: `"killed"`.

### Races

`connection_fds` is read while the acceptor appends to it. In `ServerThreads` a reader
in the middle of a reallocation sees any size of `TornSizes` and any element, and is
remembered in `torn`. In `PollServer` it sees the vector before or after the append, or
pointers of two different blocks, which ends the model in `"undefined"`: nothing is
claimed about the program from there on. Writing more than `connections_per_thread`
entries of `per_second_metrics` (`server_s.cpp:186`) ends there too. In `GetPageIou` a
response on the stack (`server_iou.cpp:70`) is what the frame holds when the kernel comes
to the write, not when it was prepared: the id of a response may be that of another
request of the batch.

## 3. Runs

| run | instance | what it asks |
|---|---|---|
| `client` | 2 connections, 4 buffers, 3 ring entries, both modes, every failure, one request before the deadline | does the bookkeeping of a client thread mean what it should, does it only drain after the deadline, does a half-duplex thread end |
| `client_full_duplex` | 2 buffers, no failures | *violated*: does a full-duplex thread end |
| `server` | 2 connections, 2 buffers, 3 ring entries, two calls of `handle_connection`, both modes, three scenarios: a client that closes with an operation refused, or with two messages; failing operations, waits and submits | what `inflight`, the report and the message about a closed connection mean, what happens to a failed operation, does the worker end |
| `server_closed_message` | half duplex, nobody closes | *violated*: is "Connection closed by client" true |
| `server_threads` | 2 workers of 3 connections, 7 clients (vectors grow with and without a reallocation), size 7 for a torn read, failing accepts and setups | indexes, timer, shutdown, does every worker get its share |
| `poll_client` | 2 threads, 1 connection each, 2 numbers, every failure, 2 passes | what is closed, whose socket a number is, one request at a time, the deadline |
| `poll_client_foreign_close` | the same, connections may be lost | *violated*: are only lost connections closed |
| `poll_server` | 2 workers, 1 connection each, 3 clients, 2 numbers, lost connections and failing polls | whose connections a worker serves and closes, leaks, reports, shutdown |
| `simple_iou_client` | a ring of 4, pools of 3, 5 requests of 2 ints, with and without registered buffers and `STUPID_BUFFER_MODE` | does the pool last, what is counted, does it end |
| `io_uring_ring` | rings of 2 and 2, counters modulo 4, 3 operations; a polling thread, an old kernel, and a new one whose calls fail and are cut short | are the counters sound, does the ring implement the queues, what do waits return, is a wakeup lost, does a timed wait return |
| `io_uring_old_timeout` | an old kernel, 1 operation | *violated*: does a wait return a completion or an error |
| `programs` | ten small programs, one to a behaviour | set-up, the simple server, max, the io_uring pair on a stream, get-page, batches, DPDK, Seastar, tokio-uring, a repeated benchmark |

What the passing runs show:

* **Client.** In half duplex `inflight` is the number of operations in the ring. In full
  duplex it is twice that, plus the completed requests, minus the operations started
  (`InflightAccounting`): each early response adds one that is never taken off. So a
  buffer is never in two operations, an operation keeps its descriptor through the
  16-bit packing, and a ring entry is always free when a completion is handled. A thread
  that leaves by the deadline leaves an empty ring -- which in full duplex can happen only
  if no response came before it (`CleanExit`).
* **Server worker.** In its first call `inflight` counts notifications out and every
  received request in; the exit for an idle ring is therefore reachable only in a later
  call, which starts from zero on a ring that still holds operations
  (both in `InflightAccounting`). A completion that broke out of the loop is never
  consumed, so it ends every later call at once (`LossIsNeverConsumed`) and with it the
  service of all connections of the worker, which then spins until the deadline but
  does end (`DeadlineEndsWorker`). The message about a closed connection means: closed,
  or the buffer of a `send_zc` released (`ClosedMeansClosedOrReleased`).
* **Server threads.** Round robin gives each worker exactly `connections_per_thread`
  connections if no more clients connect than configured, and then every index read
  again later stays inside (`IndexInBounds`); nobody serves before the timer runs,
  nobody leaves early, everybody leaves.
* **The pair on a stream.** Whatever the lengths in which receives cut it, the pages that
  the client's receives wait for are owed by the server, on the connection, or asked for
  on the connection, but for what short sends leave out (`AwaitedIsOnItsWay` in
  `StreamCounted`). Without short sends every buffer of the client is answered and
  retired after the deadline (`ProgramsEnd`); with one, two ends may wait for each other
  for ever (that is why `Over` has the exception).
* **poll client.** Whatever fails, a thread that has ended has none of its sockets open
  (`NothingLeaks`), even if another thread closed them first. Threads get at each
  other's sockets only if a connection is lost while somebody still connects
  (`ForeignOnlyAfterEarlyLoss`): later, closed numbers are not given out again. One
  request is under way per connection, unless a foreign request got on it
  (`ClosedLoop`).
* **poll server.** The acceptor is given the numbers the workers close, and still each
  number that is polled denotes an open connection dealt to that worker, and reports
  are indexed inside (`ServesOwn`),
  because a worker forgets what it closes within a call of `handle_connection`. Across
  calls it does not: `connection_fds` keeps the numbers, and without the condition
  `reentered = {}` the invariant fails after one failed `poll()`.
* **Simple client.** A block is checked in at both completions of a `send_zc`
  (`simple_iou_client.cpp:250`), first while the kernel may still read it. With whole
  pages and requests that go out in order this is harmless in a pool of three quarters
  of a ring (both conditions are needed, TLC finds a reused block
  without either), and such a pool is never exhausted (both in `BlocksSuffice`). The loop ends with the
  last receive prepared: at most half a ring is not counted, and what is
  counted is what was received (`CountsExactly`). With the condition that is commented
  out at 110-111 a client that received pieces of pages would not end, as it is it does
  (`AlwaysEnds`). What is counted and how it ends is said of buffers of their own only.
  In `STUPID_BUFFER_MODE`, the default, completions take the type of the operation
  prepared last: without `~stupid` TLC shows a client that fills the window of receives
  before anything completes, prepares one request more, takes all completed receives for
  requests, and turns in its loop for ever.
* **Ring.** NULL is returned for an entry exactly when the ring is full, the kernel keeps
  completions back only behind others, a completion that the program holds stays in its
  place as it was until it is given back (`RingSound`), all over the wrap of the
  counters. The ring implements the three queues whatever calls fail (`Implements`). On
  kernels with `IORING_FEAT_EXT_ARG` peek and the waits return 0 with a completion or an
  error (`ReturnsCqeOrError`). A polling thread that falls asleep while the program
  submits is woken or sees the tail itself (`NoLostWakeup`), and a timed wait returns on
  every kernel (`TimedWaitReturns`).
* **Set-up.** Whichever of its system calls fails, a ring given up leaves no descriptor and
  no mapping but the program's own memory, and while it lasts the descriptors that the
  library would use are open and the memory is what `io_uring_mlock_size` says
  (`RingSetupLeavesNothing`). Two things escape, and the property says so: a huge page, which is
  unmapped with a length that is not its own (`setup.c:322`, `441`), and half of the
  entries with `IORING_SETUP_SQE128` (`445`). One sequence of calls gives the ring up
  itself: register its descriptor, close the original, unregister.
* **Simple server.** No two operations share a block with plain sends; with `send_zc` no
  read shares its block; the pool throws only when all blocks are under way; a
  notification is never taken for the end of a client, because this program looks at the
  type of a completion before its result; only a thread that has ended takes a
  ring's registered buffers away (`BuffersServe`).
* **max.** Client completions and server bytes agree up to what short sends leave out;
  a failed send keeps its place in the window (`StreamCounted`), so the client may never
  end: that, and shortfalls of more than 5%, are the exceptions of `ProgramsEnd`.
* **get-page.** An answer that is checked is whole and answers its own request although
  the client goes on after incomplete ones, because what is incomplete ended the
  connection (`PagesAnswered`). In batches, requests and responses of two batches never
  mix, the ring always has entries, and without a loss all responses verify
  (`BatchesAnswered`).
* **DPDK, Seastar, tokio-uring.** Every mbuf of the sender is accounted for, at most a
  burst less one stays with the program after the ARP reply, and a pool of the size the
  property names never runs out (`FramesCounted`). Reads of the Seastar client get pages
  in order, half of them only when the server's end comes; tokio-uring's statistics
  count every byte once (`DemosAgree`).
* **Configuration.** A run repeated from the configuration an earlier one saved is scaled by the
  connections again (`RepeatScalesAgain`).

`programs`, `io_uring_ring`, `client_full_duplex` and `io_uring_old_timeout` do not check
deadlock: the programs of the first do stop, in the ring the program may be waiting for
a completion that never comes, and the other two refute something else.

### Findings

* `client_full_duplex`: `inflight` cannot return to 0 after a response before the
  deadline (`client.cpp:311`, `315`), and `io_uring_wait_cqe` (`223`) has no timeout:
  the thread that said "exiting loop" (`218`) waits on an empty ring for ever.
* `server_closed_message`: `server.cpp:432` takes the notification of a `send_zc`,
  whose result is 0, for the end of a stream.
* `poll_client_foreign_close`: after a failed receive the pass goes on with the closed
  number (`client_s.cpp:143`), and `152` closes it a second time: by then another thread
  may have been given it by `socket()`.
* `io_uring_old_timeout`: on a kernel without `IORING_FEAT_EXT_ARG` (before 5.11) a wait
  whose time is over returns 1, the number of entries it submitted for its timeout, and
  no completion (`queue.c:127`); the man page promises 0 with a completion, or an error.

### Bounds and why they are enough

Every bound is a CONSTANT named in a comment of its module. Two connections and two
threads are the fewest with which "the other one" exists. `InflightOps > QueueDepth` in
`client` is what makes a ring run short. One request completed before the deadline
is enough to tell the two ways of counting apart; the theorems below remove this and the
other bounds for the properties they state. `MaxPasses = 2` of `UringServer` is one re-entry, which is what
changes the counters' meaning; its scenarios separate the causes that multiply. `MaxAccepts` is one more than the server is configured
for, so that the surplus client and the reuse of a number happen. `Fds` of the poll
modules holds as many numbers as there are sockets, so that a closed number is the
next one given out.

`RingSize = 4` is the smallest ring for which both windows of `SimpleIouClient` are open,
`Capacity = 3` exactly their sum, and five requests are enough for the search to come around the
pool and hand out blocks again. Its kernel and server act only when the thread looks for
its next completion: completions are taken one by one in their order, and nothing else
of the kernel is visible to the thread, so the other orders show it nothing new.

In `io_uring_ring` three operations overflow a completion ring of two, `Wrap = 4` is twice
the rings' size, so that counters wrap within a few operations, and one internal timeout
at a time is one more entry than the program knows of. Failing calls are combined with
the new kernel only, where they change what is returned; the proofs have no such limit.

In `programs` each instance is the smallest with a second thread, batch or window to
get in the way of the first: two threads and two clients with blocks for fewer (`Serve`),
three requests in batches of two, five packets in bursts of two with a transmit ring of
three and a pool of exactly what the property asks for, two tasks, pages of two or three pieces.

### Fairness

`FairSpec` of each module says that every thread is scheduled (weak fairness of what it
does next), that time passes, and that a system call with a timeout returns
(`io_uring_wait_cqe_timeout` and `poll` with one second). The acceptor never blocks
(`SOCK_NONBLOCK`), and `accept4` fails once `main` has closed the socket. Nothing is assumed
of the peers: they may never answer, never close, never connect. `SimpleIouClient` assumes that an operation that can complete does (strong fairness,
because the model lets the kernel act only when the thread looks), and that a request
reaches a server that has not closed. The client's
`io_uring_wait_cqe` needs more, because it has no timeout: an operation that could
finish is not refused for ever (strong fairness of `Finish`); half duplex needs it, and
in full duplex the thread hangs even so. `IoUring` assumes that a call that can go on
does, that the kernel's polling thread is scheduled and that timeouts expire; other
operations may never complete, and nothing is assumed of the program. `Programs`
assumes weak fairness of each thread, of each end's kernel and of the clock, never of a
fault or of a foreign frame.

## 4. Proofs

All theorems hold for any number of threads, connections, buffers, ring entries and
requests, and for any set of failures. The assumptions are the `ASSUME`s of the modules:
counts are natural numbers, positive where the code divides by them or takes them modulo;
descriptors fit 16 bits in the client; the sizes of a ring divide the modulus of its
counters and are smaller than it (liburing rounds them up to powers of two, the counters
have 32 bits). What the theorems about a small program need is assumed in `Programs`, an
assumption per program (`PairAssumption`, `ServeAssumption`, ...), of the constants the
instance is given: sizes are natural numbers, a pool covers the reads that are started at
once, the entries of two batches fit a ring, the id of a request and the number of a page
fit a word, an environment holds numbers or text.

Everything is proved of `Spec` without fairness. Inductions are over steps, with one
exception: a few facts are about sums over a finite set of any size or about a function
defined from one number to the next (a pool searched in a circle, a power). The library's
induction theorems take an operator as parameter, so they cannot be cited; these go by
the set of numbers for which the fact holds, which has 0 and with a number the next one
(`AllNumbers` of `CountLemmas`).

**What is counted (`CountLemmas`).** Several invariants are about how many operations of
a kind a ring holds, that is about the size of a set of positions (`Count`). The lemmas
say what each thing the models do to a queue does to such a number: `CountAppend`,
`CountConcat`, `CountSplit`, `CountTail`, `CountRemoveAt`, `CountReplace`; none needs an
induction over a queue, each is an argument about two sets of positions. The
module also has sums over finite sets (`Total`: `TotalChanged`, `TotalGrows`,
`TotalZero`, by removing one element at a time, `Emptied`), and what the poll modules and `ServerThreads` share: the lowest of a set of
numbers exists (`SmallestOf`, for the number that `socket` and `accept` return), one
entry of one of several vectors is written (`EntryWritten`), and the arithmetic of round
robin (`UniqueResidue`, `DealOne`, `DealtAtMost`).

**Client (`UringClientProofs`).** The invariant is `ClientInv`. What has to be added to
`InflightAccounting` to make it inductive is that in the loop the ring never holds more
than the `Started` operations of the first loop and that a buffer is missing from it only
if it completed a request (`Outstanding + total_requests_completed >= Started`): only
with that does `inflight = 0` imply an empty ring. `StartKeepsInv` does the first loop and
the submit, `HandlerKeepsInv` the branches of the event loop, from two counting lemmas
(`EndIterationCounts`, `PrepareNextCounts`); `CompleteKeepsInv` the kernel. That every
operation carries its buffer's descriptor is kept as membership in `OwnedOps`, which
survives moving operations between queues without looking at positions. From the
invariant follow `InflightAccounting`, `CleanExit`, `SqeAlwaysAvailable`,
`BufferKeepsConnection` and the types. `OneOpPerBuffer` is inductive in another form: the
number of operations of a buffer, over the three queues, is at most one (`OnePerBuffer`).
`StartOnePerBuffer` shows it of the first loop, where operation `n` is of buffer `n - 1`;
`HandleCounts` and `CompleteCounts` say of every later step what it does to the
number of operations in any set, which also gives the action property
`NoRequestAfterDeadline`: of the step after the deadline neither all operations nor the
requests among them become more.

**Server threads (`ProgramsProofs`).** The invariant is `ThreadsInv`. Its heart is
`DealtRoundRobin`: thread `t` has been dealt the connections `n < next_thread` with
`n % ThreadCount = t`, stated as two inequalities without a division; `DealOne` shows
that dealing one connection keeps it. With it, `ExactlyEnough`
derives that a worker that waited for `connections_per_thread` connections has exactly
as many while no surplus client has come, so the size read at `server.cpp:298` is the one
read at `270` (`IndexAlwaysInBounds`). `TimerBeforePush` gives `TimerAlwaysFirst` also
under the race: `Growing` and a non-empty vector both imply that the timer runs.

**Server worker (`UringServerProofs`).** The invariant `ServerInv` follows two things
through the loop. `cq \in Seq(TrueCqes)`: a completion with result 0 that is in the ring
is a notification or belongs to a descriptor whose client has closed; with
`ClosedIsFirst` this is what the message at `server.cpp:432` amounts to
(`ClosedMessageAlways`). `FirstReport`: in the first call `message_count` is what was sent
(`ReportAlways`). `LossNeverConsumedAlways` is an action property: no action but a handler
takes the first completion of the ring, and every handler that does so goes on.
A second invariant, `RingInv`, counts what is in the ring during the first call: receives
by buffer, operations that are not notifications, all receives. Handlers that go on
(`GoesOnKeepsRing`) and handlers that break off (`BreaksOffKeepsRing`) are two lemmas, so
each branch only has to say which operations it takes and adds. `ReceivesWhileFirst` is
the strengthening needed: in full duplex a received request puts its receive back, so the
ring is never without one, `inflight` never 0, and the exit for an idle ring not taken.
From it follow `OneReceivePerBuffer` and `InflightAccounting`.

**The pair on a stream (the instance `Pair`, `ProgramsProofs`).** `AwaitedIsOnItsWay` is inductive once
buffers are counted (`BuffersKept`); it compares products of sizes and counts, which the
lemma `CoveredSteps` isolates: the four things a step can do to the two sides. From
`StreamAlwaysCounted` (whose `PageStream` part this is) follows `NobodyStarves`: without short sends, while a receive of the
client waits there is a piece on the connection or a request in the server's hands or on
its way, so the two ends never wait for each other.

**Ring (`IoUringProofs`).** Three layers. The first is about numbers and arrays only:
counters that advance modulo `Wrap` keep their distances (`DistanceGrows`, `DistanceShrinks`), a counter and its value modulo
`Wrap` name the same slot (`SlotAdvanced`, `SlotOfTail`, which is where the divisibility
is used), no two entries of a ring share one (`SlotsDiffer`); so putting, marking and
writing behind the tail act on the slice between head and tail as `Append`, `SubSeq` and
`\o` (`SlicePut`, `DropMarked`, `SliceWritten`). The second says the same of the parts
of steps: `PutSqeQueues`, `TakeEntriesQueues`, `PostQueues`, `FlushOverflowQueues`,
`GiveBackQueues`. The third has the invariant `Inv`: the queues (`QueueInv`), and of
the call in progress what its steps rely on: it asks for no more entries than it has shown
(`SubmitBound`), a completion it has found is still there when the system call
returns and no completion that the program holds is passed over as an internal timeout
(`CompletionHeld`), and where the kernel takes timeouts the waits submit nothing
(`NothingSubmitted`). One lemma per action shows that it keeps `Inv` and is a step of
`UringQueues` or none (`Mapped`). From these follow `RingSoundAlways`, `ReturnsAlways` and
the refinement `RingImplementsQueues`. `ReturnsAlways` needs `ext_arg`; for older kernels
the property is false (`io_uring_old_timeout`).

**Poll client (`PollClientProofs`).** Numbers of descriptors are confused in this program
(a thread closes a number twice, and another may have been given it in between), so the
invariant has two halves. `HeldInv` holds whatever is confused: every open socket of a
thread that still runs is held by that thread, in a place of its vector that it has not
passed or as the socket it is just opening. `PollClient` lets a foreign `close` take
a socket away, never add one, and therefore `NothingLeaks` needs no more. The other half
holds until a thread has used a socket of another (`~foreign`): what a thread holds is
its own, each number in one place (`OwnInv`, over `UniqueInv`: no socket has two
numbers), and no request is sent on a connection that waits for an answer (`LoopInv`),
which gives `ClosedLoop`. `StaleInv` says when a number that was closed and is still used
can do harm: as long as no connection was lost early, every thread has its sockets by
then, so the number stays free; that is `ForeignOnlyAfterEarlyLoss`.

**Poll server (`PollServerProofs`).** `PlaceInv` is about the vectors: a worker that is
not caught in a torn read sees a prefix of what was dealt to it, the connection under way
included (`Dealt`), and by the round robin this has at most a worker's share (`Shares`);
so its report is indexed inside. `NameInv`: connections are numbered and not reused.
`OwnInv`: until some worker enters `handle_connection` again, the numbers that a worker
has been dealt or is serving denote connections dealt to it, each in one place. The
acceptor can only be given numbers that nobody holds in that time, because a worker
forgets a number with its `close`. These give `ServesOwn`. `ServedInv` holds beyond that: a
connection that a worker has polled and that is open is still among the numbers it will
close (`ToServe`), whoever closed what in between; so `NothingServedLeaks`.

**Simple client (`FastNetProofs`).** Two invariants, one on the other.
`CountsInv` counts operations by kind, over `sq` and `kernel`, and the completion
that waits (`RingInv`: the thread takes one before the kernel posts the next). What
makes `CountsExactly` inductive are three sums (`Totals`): requests under way,
notifications outstanding and requests acknowledged are at most those prepared
(`SentFirst`); nothing is counted but what was consumed or, with one shared block, sent
(`ConsumedOrSent`, which bounds the total in `STUPID_BUFFER_MODE`); and with blocks of
their own every receive prepared is under way, posted or counted, and as long as none
was short each stands for a whole page (`CountedExactly`).

`BlocksInv` adds where the blocks are. `PoolInv`: a block for pages is out exactly while
one receive names it; a block for requests that is out is named by a request that has
not been handled (the converse is false, the early check-in leaves it behind).
`OrderInv` is about requests that go out in order: they can be given the numbers in which
they were prepared, request `k` has block `k % Capacity`, and the search for the next
free block stands at `send_index % Capacity`. A numbering is an existential of the
invariant (`Numbered`), carried through a step by `NumberedAppend` and `NumberedRemove`.
`Lag` ties both to the windows: the requests that are not acknowledged are at most
`Window`, because what was counted was acknowledged before. So two operations with one
block would have numbers less than `Capacity` apart with one remainder
(`NumberedBlocksDiffer`), the block where the search begins is free (`NextInCircle`), and
an exhausted pool would need a distinct operation under way for each of its blocks, more
than the windows let through (`EveryBlockTaken`, `NotExhausted`).

**The smaller programs (`ProgramsProofs`; get_page in `FastNetProofs`).** `InitOf` and `Dispatch` reduce a theorem about
`ProgramSpec` to the instance: `program` never changes, and what a program does is a step
of its own instance. Each has its own inductive invariant.

* *max client and server* (`StreamInv`). `StreamWindow`: what a thread has sent and not
  completed fits its window, and of that only sends on a connection that is gone have
  failed. `StreamCounts`: what the server has counted, what is unread and what was cut off
  add up to what the clients have completed, as sums over all threads. A step changes
  one summand, which is what `TotalChanged` says of the sum.
* *DPDK demo* (`FramesInv`). `FramesPlaces` says where the buffers of the pool can be
  in each state of the sender, from which the bound on the pool follows; `FramesReply`, that
  the ARP request has left before its reply is there (so that its buffer is not counted
  twice); `FramesArrive` counts the frames on their way.
* *Seastar demo* (`SeastarInv`). Three numbers, the futures served, the requests flushed
  and those answered, determine the streams: the halves of the pages between two of them,
  in order (`IsStream`). Each served future has its own page or, after the connection
  ended, nothing.
* *tokio-uring demo* (`TasksInv`). Every piece written is on the connection, in the
  `bytes_read` of a task that waits for the lock, or counted.
* *get_page* (`PagesInv`). There is at most one message on the connection, a request or
  its answer, whole or cut short by a reset (`PagesExchange`); so the answer that is
  checked is the answer to the request under way (`AnswerIsOwn`; swapping the bytes of
  a word twice gives the word, `SwappedTwice`). `PagesReport` counts what was verified,
  `PagesLost` says what a client that was killed has met with.
* *get_page in batches* (`BatchesInv`). `BatchServer`: every write is submitted together
  with a new read, so the server never has fewer than `BatchSize` reads nor more than
  two batches of entries. `BatchClient`: each receive of the batch under way is in the
  ring, in the kernel, posted or counted, `left` is the number not counted, and the sends
  are in order behind each other. `BatchFlow`: without a loss, twice the receives not ended
  are twice the sends not ended, plus the pieces that are on either stream or with the
  server (`Onward`); so once the last receive is counted no send is left over and the
  next batch finds rings and connection empty. `BatchData`: the pieces come in pairs
  (`Paired`), and each pair is a good question or a good answer. What a step does to
  these numbers is said once by `OpsOf` and `OfIsCount`.
* *simple io_uring server* (`ServeInv`). `ServeBlocks` counts for every block of a
  pool the reads and the sends that name it (`OnceHeld`): at most one read, and with it no
  send. `ServeNumbers` says what the numbers of descriptors denote: a ring only as long
  as its thread has not left `io_uring_queue_exit`, so buffers are lost only to a thread
  that uses its old number later (`BuffersKept`). `NumberFree`: there is always a free
  number, because a thread has at most a socket and a ring. The pool is built by a
  recursive function; `PoolUnfolds` shows that the function exists.
* *ring set-up* (`SetupInv`). `Undone` names the mappings of ordinary pages that are still
  to be undone: those the ring points to, and a probe's or a buffer ring's page; every
  other mapping is a huge page (`SetupKept`). `AllocatedRing` and `MappedRing` say that the
  sizes in the ring are those of its mappings, so that each `munmap` covers what it is
  for, after a failed step (`FailsKeepsSetup`) and in `io_uring_queue_exit` (`ExitUndoes`).
  `Descriptors` ties `int_flags` and `enter_ring_fd` to what is open. The answer of
  `io_uring_mlock_size` needs the sizes themselves (`RingSizes`, `RingPages`).
* *repeated runs* (`RunInv`). Every configuration after the first is the first one with
  queue depth and operations under way multiplied by a power of the connections
  (`Again`); `AgainOnce` says that loading what was saved goes on to the next power, and
  `PowerUnfolds` that the power, a recursive function, is what it is defined to be.

A few definitions were changed because they could not be reasoned about: the outcomes of a
read and the making of a pool in `SimpleIouServer`, and the events of `PollClient`, used a
`CASE` whose guards overlap, which denotes any of the branches whose guard holds, while
TLC evaluates the first. They now say which one is meant. The steps of `GetPageIou` name
the ring they change (`LET ring == ...`) instead of nesting one `@` in another, and `Of`
is the size of a set of positions, which the lemmas of `CountLemmas` are about. `roundup_pow2` lists its powers
of two, and `BenchmarkRun` has a recursive `Power`, because the prover knows `^` of no
number.

Only model-checked: liveness and everything that needs `ENABLED` or fairness
(`DeadlineEndsThread`, `HalfDuplexEnds`, `DeadlineEndsWorker`, `ShutsDown`,
`EveryWorkerServes`, `DeadlineEndsThreads`, `NoLostWakeup`, `TimedWaitReturns`,
`AlwaysEnds`, `ProgramsEnd`), which the prover cannot do. Every invariant that a passing
run checks is a theorem.

## 5. Not modelled

* What is in a page, a request or a packet, except where a program checks it (the
  get-page programs); the layout of headers; log texts.
* Per-second metrics and the files of reports, which no control depends on.
* Thread affinity and CPU pinning: where a thread runs, not what it does. NUMA placement.
* Of liburing: `IORING_SETUP_IOPOLL`, buffer rings other than their set-up, the
  preparation functions (each fills an entry), registrations that are one system call
  without state of the library's, the allocator and the system call stubs; its examples,
  tests and manual pages; spdlog.
* `dpdk_seastar_demo` and `rust_io_uring_demo` above the futures and tasks they make: the
  runtimes are external, modelled as these programs use them.
* Scripts, notebooks and recorded results.

What the standard library, the kernel, the runtimes and DPDK do is modelled as the code
uses it and marked *external* in `PROJECT.json`. A hazard of the list there without a
property has a note that says why.

## 6. What could come next

1. `ServerThreads` over `UringServer`: the state `"serve"` refined by the event loop; the
   two modules meet only in `EndServing` and in the number of descriptors now.
2. The same three queues for the remaining programs over io_uring (`SimpleIouServer`,
   `GetPageIou`), with `UringQueues` as their common ground.

## 7. Running

    tlc -config client.cfg UringClient          # likewise server.cfg MCUringServer, ...
    tlapm UringClientProofs.tla                 # likewise CountLemmas and the other *Proofs

`PROJECT.json` names the module of each run. The longest run takes two and a half minutes
on two cores. Most proof modules take a minute or two; `FastNetProofs` and `ProgramsProofs`,
which carry the definitions of all instances of `Programs`, take about twenty minutes each.
