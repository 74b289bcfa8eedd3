------------------------------- MODULE Programs -------------------------------
(***************************************************************************)
(* The smaller programs.  A behaviour is one program's, chosen at the      *)
(* start: its variables are its module's, and the variables it has no use  *)
(* for keep the value "unused".                                            *)
(***************************************************************************)
EXTENDS Integers, Sequences, FiniteSets

CONSTANTS
  EntryCounts, AppBuffers, Callers,                          \* of LiburingSetup
  PoolCapacity, ServeRingSize, ServeThreads, ServeModes,     \* of SimpleIouServer
  MaxOperations,
  StreamThreads, StreamRequests, StreamRingSize,             \* of MaxStream
  StreamPageSize, StreamFaults,
  ClientOps, ServerOps, RequestSize, PairPageSize,           \* of PageStream
  PairCapacity, PairFaults, MaxRequests, MaxShortfall,
  ClientSources, ServerSources, PagesFaults,                 \* of GetPage
  BatchRequests, BatchSize, BatchRingSize,                   \* of GetPageIou
  ClientPages, ServerPages, BatchFaults, MaxLosses,
  NumIterations, BurstSize, NumMbufs, RxRingSize,            \* of Dpdk
  TxRingSize, Routes, FrameFaults, MaxForeign,
  FutureRequests, FutureFaults,                              \* of SeastarDemo
  Parallel, TaskPageSize, TaskCapacity, MaxWritten,          \* of TokioUring
  TaskFaults,
  Environments, MaxCompleted, MaxRuns                        \* of BenchmarkRun

ASSUME PairAssumption ==
  /\ ClientOps \in Nat \ {0} /\ ServerOps \in Nat \ {0}
  /\ RequestSize \in Nat \ {0} /\ PairPageSize \in Nat \ {0}
  /\ PairCapacity \in Nat

ASSUME SetupAssumption == EntryCounts \subseteq Nat /\ AppBuffers \subseteq Nat

(* The reads that are started at once have their blocks, as with the sizes *)
(* of simple_consts.hpp:12 and 40.                                         *)
ASSUME ServeAssumption ==
  /\ PoolCapacity \in Nat \ {0} /\ ServeRingSize \in Nat
  /\ IsFiniteSet(ServeThreads) /\ ServeThreads = 1 .. Cardinality(ServeThreads)
  /\ \A m \in ServeModes :
       /\ m.registered \in BOOLEAN /\ m.stupid \in BOOLEAN
       /\ m.stupid \/ ServeRingSize \div 4 <= PoolCapacity

ASSUME StreamAssumption ==
  /\ StreamThreads \in Nat \ {0} /\ StreamRequests \in Nat
  /\ StreamRingSize \in Nat /\ StreamPageSize \in Nat \ {0}

ASSUME FramesAssumption ==
  /\ NumIterations \in Nat /\ BurstSize \in Nat \ {0} /\ NumMbufs \in Nat
  /\ RxRingSize \in Nat /\ TxRingSize \in Nat \ {0}

ASSUME FuturesAssumption == FutureRequests \in Nat \ {0}

ASSUME TasksAssumption ==
  Parallel \in Nat /\ TaskPageSize \in Nat /\ TaskCapacity \in Nat

ASSUME RunAssumption ==
  \A e \in Environments : \A key \in DOMAIN e : e[key] \in Int

VARIABLES
  program,
  pc, process, sent, i, lost, up, down, conn, thread, ring, fds,   \* of several programs
  params, no_sqarray, mapped,
  mode, sock, ring_fd, finished_threads, pools, buffers, kernel, cq, clients,
  completed, stream, servers, total, shortfall, lossy,
  client_config, response, correct, incorrect, unsent, server_config,
  left, responses, frame, rings, losses,
  sender, pool, burst, max_retries, frames, wire, receiver, counted, foreign,
  client, futures, flushing, listener, handler, partial,
  readers, bytes_read, total_bytes, total_pages, deadline, server, writers, written, unread,
  env, config, saved, running, results, report, first, runs,
  late, total_requests_completed

(***************************************************************************)
(* The programs.                                                           *)
(***************************************************************************)

Liburing == INSTANCE LiburingSetup

Serve == INSTANCE SimpleIouServer WITH
  Capacity <- PoolCapacity, RingSize <- ServeRingSize, Threads <- ServeThreads,
  Modes <- ServeModes, main <- process

Stream == INSTANCE MaxStream WITH
  ClientThreads <- StreamThreads, NumRequests <- StreamRequests, RingSize <- StreamRingSize,
  PageSize <- StreamPageSize, Faults <- StreamFaults,
  main <- process

Pair == INSTANCE PageStream WITH
  PageSize <- PairPageSize, Capacity <- PairCapacity, Faults <- PairFaults,
  expired <- deadline

Pages == INSTANCE GetPage WITH Faults <- PagesFaults, main <- process

(* What a file and an environment hold is text or numbers, and a request's *)
(* id goes through a word (client.cpp:58).                                 *)
ASSUME PagesAssumption ==
  /\ \A s \in ClientSources \cup ServerSources : \A k \in {1, 2} :
       \A key \in DOMAIN s[k] : s[k][key] \in Int
  /\ \A s \in ClientSources :
       LET loaded == Pages!load_config(s[1], s[2])
       IN  loaded.throws \/ loaded.config.NUM_REQUESTS <= Pages!Digits * Pages!Digits

Batches == INSTANCE GetPageIou WITH
  NumRequests <- BatchRequests, RingSize <- BatchRingSize, Faults <- BatchFaults

(* Two batches fit a ring (io_uring_utils.hpp:4, server_iou.cpp:23, 34),   *)
(* and the number of a page a word.                                        *)
ASSUME BatchesAssumption ==
  /\ BatchRequests \in Nat /\ BatchSize \in Nat \ {0}
  /\ BatchRingSize \in Nat /\ BatchRingSize >= 2 * BatchSize
  /\ ClientPages \in Nat \ {0} /\ ClientPages <= Batches!Digits * Batches!Digits
  /\ ServerPages \in Nat

Frames == INSTANCE Dpdk WITH Faults <- FrameFaults

Futures == INSTANCE SeastarDemo WITH Requests <- FutureRequests, Faults <- FutureFaults

Tasks == INSTANCE TokioUring WITH
  PageSize <- TaskPageSize, Capacity <- TaskCapacity, Faults <- TaskFaults,
  main <- process, expired <- deadline

Run == INSTANCE BenchmarkRun

(***************************************************************************)
(* What a program does not use.                                            *)
(***************************************************************************)

Unused(variable, users) == IF program \in users THEN TRUE ELSE variable = "unused"

InitUnused ==
  /\ Unused(pc, {"setup", "serve", "max", "pages", "batches", "run"})
  /\ Unused(process, {"serve", "max", "pages", "tasks"})
  /\ Unused(sent, {"serve", "max", "frames"}) /\ Unused(i, {"pages", "batches", "frames"})
  /\ Unused(lost, {"pages", "frames"}) /\ Unused(thread, {"pages", "batches"})
  /\ Unused(up, {"pair", "pages", "batches", "futures"})
  /\ Unused(down, {"pair", "pages", "batches", "futures"})
  /\ Unused(conn, {"pair", "pages", "batches", "futures", "tasks"})
  /\ Unused(ring, {"setup", "max"}) /\ Unused(fds, {"setup", "serve"})
  /\ Unused(params, {"setup"}) /\ Unused(no_sqarray, {"setup"}) /\ Unused(mapped, {"setup"})
  /\ Unused(mode, {"serve"}) /\ Unused(sock, {"serve"}) /\ Unused(ring_fd, {"serve"})
  /\ Unused(finished_threads, {"serve"}) /\ Unused(pools, {"serve"})
  /\ Unused(buffers, {"serve"}) /\ Unused(kernel, {"serve"}) /\ Unused(cq, {"serve"})
  /\ Unused(clients, {"serve"})
  /\ Unused(completed, {"max"}) /\ Unused(stream, {"max"}) /\ Unused(servers, {"max"})
  /\ Unused(total, {"max"}) /\ Unused(shortfall, {"max", "pair"}) /\ Unused(lossy, {"max"})
  /\ Unused(client_config, {"pages"}) /\ Unused(server_config, {"pages"})
  /\ Unused(response, {"pages"}) /\ Unused(correct, {"pages"}) /\ Unused(incorrect, {"pages"})
  /\ Unused(unsent, {"pages"})
  /\ Unused(left, {"batches"}) /\ Unused(responses, {"batches"}) /\ Unused(frame, {"batches"})
  /\ Unused(rings, {"batches"}) /\ Unused(losses, {"batches"})
  /\ Unused(sender, {"frames"}) /\ Unused(pool, {"frames"}) /\ Unused(burst, {"frames"})
  /\ Unused(max_retries, {"frames"}) /\ Unused(frames, {"frames"}) /\ Unused(wire, {"frames"})
  /\ Unused(receiver, {"frames"}) /\ Unused(counted, {"frames"}) /\ Unused(foreign, {"frames"})
  /\ Unused(client, {"pair", "futures"}) /\ Unused(futures, {"futures"})
  /\ Unused(flushing, {"futures"})
  /\ Unused(listener, {"futures"}) /\ Unused(handler, {"futures"})
  /\ Unused(partial, {"futures"})
  /\ Unused(readers, {"tasks"}) /\ Unused(bytes_read, {"tasks"}) /\ Unused(total_bytes, {"tasks"})
  /\ Unused(total_pages, {"tasks"}) /\ Unused(deadline, {"pair", "tasks"})
  /\ Unused(server, {"pair", "tasks"})
  /\ Unused(writers, {"tasks"}) /\ Unused(written, {"tasks"}) /\ Unused(unread, {"tasks"})
  /\ Unused(env, {"run"}) /\ Unused(config, {"run"}) /\ Unused(saved, {"run"})
  /\ Unused(running, {"run"}) /\ Unused(results, {"run"}) /\ Unused(report, {"run"})
  /\ Unused(first, {"run"}) /\ Unused(runs, {"run"})
  /\ Unused(late, {"pair"}) /\ Unused(total_requests_completed, {"pair"})

Kept(variables, users) == IF program \in users THEN TRUE ELSE UNCHANGED variables

KeepUnused ==
  /\ UNCHANGED program
  /\ Kept(pc, {"setup", "serve", "max", "pages", "batches", "run"})
  /\ Kept(process, {"serve", "max", "pages", "tasks"})
  /\ Kept(sent, {"serve", "max", "frames"}) /\ Kept(i, {"pages", "batches", "frames"})
  /\ Kept(lost, {"pages", "frames"}) /\ Kept(thread, {"pages", "batches"})
  /\ Kept(<<up, down>>, {"pair", "pages", "batches", "futures"})
  /\ Kept(conn, {"pair", "pages", "batches", "futures", "tasks"})
  /\ Kept(ring, {"setup", "max"}) /\ Kept(fds, {"setup", "serve"})
  /\ Kept(<<params, no_sqarray, mapped>>, {"setup"})
  /\ Kept(<<mode, sock, ring_fd, finished_threads, pools, buffers, kernel, cq, clients>>,
          {"serve"})
  /\ Kept(<<completed, stream, servers, total, lossy>>, {"max"})
  /\ Kept(shortfall, {"max", "pair"}) /\ Kept(client, {"pair", "futures"})
  /\ Kept(<<server, deadline>>, {"pair", "tasks"})
  /\ Kept(<<late, total_requests_completed>>, {"pair"})
  /\ Kept(<<client_config, server_config, response, correct, incorrect, unsent>>, {"pages"})
  /\ Kept(<<left, responses, frame, rings, losses>>, {"batches"})
  /\ Kept(<<sender, pool, burst, max_retries, frames, wire, receiver, counted, foreign>>,
          {"frames"})
  /\ Kept(<<futures, flushing, listener, handler, partial>>, {"futures"})
  /\ Kept(<<readers, bytes_read, total_bytes, total_pages, writers, written, unread>>, {"tasks"})
  /\ Kept(<<env, config, saved, running, results, report, first, runs>>, {"run"})

(***************************************************************************)
(* The specification.                                                      *)
(***************************************************************************)

ProgramInit ==
  /\ \/ program = "setup" /\ Liburing!Init
     \/ program = "serve" /\ Serve!Init
     \/ program = "max" /\ Stream!Init
     \/ program = "pair" /\ Pair!Init
     \/ program = "pages" /\ Pages!Init
     \/ program = "batches" /\ Batches!Init
     \/ program = "frames" /\ Frames!Init
     \/ program = "futures" /\ Futures!Init
     \/ program = "tasks" /\ Tasks!Init
     \/ program = "run" /\ Run!Init
  /\ InitUnused

SetupStep   == program = "setup" /\ Liburing!Next /\ KeepUnused
ServeStep   == program = "serve" /\ Serve!Next /\ KeepUnused
MaxStep     == program = "max" /\ Stream!Next /\ KeepUnused
PairStep    == program = "pair" /\ Pair!Next /\ KeepUnused
PagesStep   == program = "pages" /\ Pages!Next /\ KeepUnused
BatchesStep == program = "batches" /\ Batches!Next /\ KeepUnused
FramesStep  == program = "frames" /\ Frames!Next /\ KeepUnused
FuturesStep == program = "futures" /\ Futures!Next /\ KeepUnused
TasksStep   == program = "tasks" /\ Tasks!Next /\ KeepUnused
RunStep     == program = "run" /\ Run!Next /\ KeepUnused

ProgramNext ==
  \/ SetupStep \/ ServeStep \/ MaxStep \/ PairStep \/ PagesStep \/ BatchesStep \/ FramesStep
  \/ FuturesStep \/ TasksStep \/ RunStep

programs == <<program, Liburing!vars, Serve!server, Stream!max, Pair!stream, Pages!getpage,
              Batches!getpageiou, Frames!dpdk, Futures!seastar, Tasks!tokio, Run!run>>

ProgramSpec == ProgramInit /\ [][ProgramNext]_programs

(* Every thread and the kernel go on; faults need not happen.  The guard   *)
(* comes first: an action is about its own program's state.                *)
StepOf(name, Action) == program = name /\ Action /\ KeepUnused

ProgramFairness ==
  /\ WF_programs(StepOf("max", Stream!Main))
  /\ \A t \in 0 .. StreamThreads - 1 :
       /\ WF_programs(StepOf("max", Stream!Client(t)))
       /\ WF_programs(StepOf("max", Stream!Accept(t)))
       /\ WF_programs(StepOf("max", Stream!HandleClient(t)))
       /\ WF_programs(StepOf("max", Stream!EventLoop(t)))
       /\ WF_programs(StepOf("max", Stream!Send(t)))
  /\ WF_programs(StepOf("pair", Pair!ClientSendDone))
  /\ WF_programs(StepOf("pair", Pair!ClientRecvDone))
  /\ WF_programs(StepOf("pair", Pair!ServerRecvDone))
  /\ WF_programs(StepOf("pair", Pair!ServerSendDone))
  /\ WF_programs(StepOf("pair", Pair!ClientSend))
  /\ WF_programs(StepOf("pair", Pair!ServerSend))
  /\ WF_programs(StepOf("pair", Pair!ClientRecv))
  /\ WF_programs(StepOf("pair", Pair!ServerRecv))
  /\ WF_programs(StepOf("pair", Pair!Tick))
  /\ WF_programs(StepOf("pages", Pages!Client))
  /\ WF_programs(StepOf("pages", Pages!Accept))
  /\ WF_programs(StepOf("pages", Pages!HandleClient))
  /\ WF_programs(StepOf("batches", Batches!Client))
  /\ WF_programs(StepOf("batches", Batches!Accept))
  /\ WF_programs(StepOf("batches", Batches!EventLoop))
  /\ WF_programs(StepOf("batches", Batches!Kernel))
  /\ WF_programs(StepOf("frames", Frames!Sender))
  /\ WF_programs(StepOf("frames", Frames!ReceiverInit))
  /\ WF_programs(StepOf("frames", Frames!Receive))
  /\ WF_programs(StepOf("frames", Frames!Transmit))
  /\ WF_programs(StepOf("futures", Futures!Client))
  /\ WF_programs(StepOf("futures", Futures!Accept))
  /\ WF_programs(StepOf("futures", Futures!HandleConnection))
  /\ WF_programs(StepOf("tasks", Tasks!Client))
  /\ WF_programs(StepOf("tasks", Tasks!Accept))
  /\ \A t \in 1 .. Parallel :
       /\ WF_programs(StepOf("tasks", Tasks!Task(t)))
       /\ WF_programs(StepOf("tasks", Tasks!Write(t)))

FairProgramSpec == ProgramSpec /\ ProgramFairness

(***************************************************************************)
(* Properties.                                                             *)
(***************************************************************************)

(* Whatever the sizes, and whichever step fails, a ring given up leaves no *)
(* descriptor, and no mapping but the application's own memory, a huge     *)
(* page or half of the large entries; while it lasts it is reached through *)
(* a descriptor that is open, and it needs no more memory than             *)
(* io_uring_mlock_size says (liburing setup.c:322, 441, 507,               *)
(* register.c:303).                                                        *)
RingSetupLeavesNothing ==
  program = "setup" => Liburing!NothingLeaks /\ Liburing!RingReachable /\ Liburing!MlockSizeCovers

(* The requests and pages of the simple io_uring server do not share       *)
(* buffers, none is lost, a thread serves until its client has gone, and   *)
(* only a thread that has ended takes the buffers of another's ring away   *)
(* (simple_iou_server.cpp:127, 157).                                       *)
BuffersServe ==
  program = "serve" =>
    /\ Serve!BlocksOwned /\ Serve!PoolRunsOutOnlyInUse
    /\ Serve!ServesUntilClosed /\ Serve!BuffersKept

(* max_client and max_server: failed sends keep their place in the window, *)
(* and the client's completions and the server's bytes agree               *)
(* (max_client.cpp:103, max_server.cpp:162).  The full-duplex io_uring     *)
(* pair: what a client's receives wait for is owed, asked for or on the    *)
(* connection, but for what short sends leave out, however receives cut    *)
(* the streams (server.cpp:462, client.cpp:295).                           *)
StreamCounted ==
  /\ program = "max" => Stream!WindowKept /\ Stream!CountsAgree
  /\ program = "pair" => Pair!BuffersKept /\ Pair!AwaitedIsOnItsWay

(* The get_page client and server: an answer that is checked is whole and  *)
(* belongs to the request under way, nothing is left on the connection     *)
(* between requests, and the report adds up (client.cpp:82).               *)
PagesAnswered ==
  program = "pages" =>
    Pages!ResponseIsOwn /\ Pages!StreamsAligned /\ Pages!ReportAddsUp /\ Pages!KilledAfterLoss

(* The batched get_page client and server: batches do not mix, entries     *)
(* suffice, and without a loss every response verifies                     *)
(* (client_iou.cpp:90, server_iou.cpp:23, 70).                             *)
BatchesAnswered ==
  program = "batches" => Batches!SqesSuffice /\ Batches!BatchesApart /\ Batches!AllVerified

(* The DPDK sender keeps every buffer accounted for, and the receiver      *)
(* counts no packet twice (dpdk_sender.c:117, dpdk_receiver.c).            *)
FramesCounted == program = "frames" => Frames!BuffersAccounted /\ Frames!CountsArrivals

(* Every read the Seastar client is served is its own request's page,      *)
(* though it reads twice as often as it asks (simple_dpkd_client.cpp:30);  *)
(* the tokio-uring client's tasks count every byte once.                   *)
DemosAgree ==
  /\ program = "futures" => Futures!PagesInOrder /\ Futures!HalfIsNeverServed
  /\ program = "tasks" => Tasks!StatsAgree

(* A benchmark repeated from the environment it saved is scaled again      *)
(* (static_config.cpp:29).                                                 *)
RepeatScalesAgain == program = "run" => Run!RepeatScalesAgain

(* The programs end, each with its exceptions: a short, failed or lost     *)
(* transfer is never made good.                                            *)
ProgramsEnd ==
  <>CASE program = "max"     -> Stream!Over
      [] program = "pair"    -> Pair!Over
      [] program = "pages"   -> Pages!Over
      [] program = "batches" -> Batches!Over
      [] program = "frames"  -> Frames!Over
      [] program = "futures" -> Futures!Over
      [] program = "tasks"   -> Tasks!Over
      [] OTHER -> TRUE
=============================================================================
