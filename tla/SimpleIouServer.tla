-------------------------- MODULE SimpleIouServer ---------------------------
(***************************************************************************)
(* fast_net/src/simple_iou_server.cpp: main accepts CLIENT_THREADS         *)
(* clients, each served by a detached thread with a ring, a pool and reads *)
(* under way from the start; every request read is answered with a page    *)
(* and read for again.  All threads share the descriptor table.            *)
(*                                                                         *)
(* With ALLOCATE_REGISTERED_BUFFERS a page goes out by send_zc, whose      *)
(* second completion has result 0, and every operation needs the buffers   *)
(* that were registered with the ring.  In STUPID_BUFFER_MODE all requests *)
(* are one block; what is registered is a vector copied before that block  *)
(* was allocated (buffer_pool.hpp:34), which is refused or is not it.      *)
(***************************************************************************)
EXTENDS BufferPool, Sequences, SequencesExt, FiniteSets

CONSTANTS
  RingSize,              \* RING_SIZE
  Modes,                 \* builds: ALLOCATE_REGISTERED_BUFFERS, STUPID_BUFFER_MODE and
                         \* CLIENT_THREADS as [registered, stupid, threads, requests],
                         \* with a bound on the requests that all clients send
  Threads,               \* 1 .. the largest CLIENT_THREADS
  MaxOperations          \* bound: operations and completions of a ring, stupid mode

VARIABLES
  mode,                  \* the build
  main,                  \* "accept", "wait", or how the process ended
  pc,                    \* of each thread: "none", "queue_init", "buffer_pool", "event_loop",
                         \* "queue_exit", "finished", "destructor", "ended"
  fds,                   \* what each descriptor number denotes
  sock, ring_fd,         \* the numbers each thread uses
  finished_threads,
  pools,
  buffers,               \* of each ring: "none", "registered", "foreign", "lost"
  kernel, cq,            \* of each ring
  sent,                  \* by all clients
  clients                \* of each: requests not read yet, and its end

server == <<mode, main, pc, fds, sock, ring_fd, finished_threads, pools, buffers, kernel, cq,
            sent, clients>>

Numbers == 1 .. 2 * Cardinality(Threads)
Free == <<"free", 0>>
Reads == RingSize \div 4

Init ==
  /\ mode \in Modes
  /\ main = "accept" /\ finished_threads = 0
  /\ pc = [t \in Threads |-> "none"]
  /\ fds = [n \in Numbers |-> Free]
  /\ sock = [t \in Threads |-> 0] /\ ring_fd = [t \in Threads |-> 0]
  /\ pools = [t \in Threads |-> NewPool]
  /\ buffers = [t \in Threads |-> "none"]
  /\ kernel = [t \in Threads |-> <<>>] /\ cq = [t \in Threads |-> <<>>]
  /\ clients = [t \in Threads |-> [unread |-> 0, end |-> "open"]]
  /\ sent = 0

Running == main \in {"accept", "wait"}
client_num == Cardinality({t \in Threads : pc[t] # "none"})

LowestFree == CHOOSE n \in Numbers : fds[n] = Free /\ \A k \in 1 .. n - 1 : fds[k] # Free

(***************************************************************************)
(* main                                                                    *)
(***************************************************************************)

Accept(t) ==
  /\ main = "accept" /\ client_num < mode.threads /\ t = client_num + 1
  /\ sock' = [sock EXCEPT ![t] = LowestFree]
  /\ fds' = [fds EXCEPT ![LowestFree] = <<"socket", t>>]
  /\ pc' = [pc EXCEPT ![t] = "queue_init"]
  /\ UNCHANGED <<mode, main, ring_fd, finished_threads, pools, buffers, kernel, cq, sent, clients>>

(* exit(EXIT_FAILURE), or an exception that nobody catches. *)
Ends(how) ==
  /\ main' = how
  /\ UNCHANGED <<mode, pc, fds, sock, ring_fd, finished_threads, pools, buffers, kernel, cq,
                 sent, clients>>

Main ==
  \/ main = "accept" /\ client_num < mode.threads /\ Ends("accept failed")
  \/ main = "accept" /\ client_num = mode.threads /\ Ends("wait")
  \/ main = "wait" /\ finished_threads >= client_num /\ Ends("returned")

(***************************************************************************)
(* handle_client                                                           *)
(***************************************************************************)

QueueInit(t) ==
  /\ Running /\ pc[t] = "queue_init"
  /\ \/ Ends("queue_init failed")
     \/ /\ ring_fd' = [ring_fd EXCEPT ![t] = LowestFree]
        /\ fds' = [fds EXCEPT ![LowestFree] = <<"ring", t>>]
        /\ pc' = [pc EXCEPT ![t] = "buffer_pool"]
        /\ UNCHANGED <<mode, main, sock, finished_threads, pools, buffers, kernel, cq, sent, clients>>

(* The block of the next operation, and what is left of the pool. *)
Lasts(pool) == mode.stupid \/ CanCheckOut(pool)
Block(pool) == IF mode.stupid THEN 0 ELSE NextFree(pool)
After(pool) == IF mode.stupid THEN pool ELSE CheckOut(pool)
Returned(pool, block) == IF mode.stupid THEN pool ELSE CheckIn(pool, block)

(* An operation on a fixed buffer that is not registered fails. *)
Operation(t, kind, block) ==
  [kind |-> kind, block |-> block, fails |-> mode.registered /\ buffers'[t] # "registered"]

(* The first n blocks of a new pool. *)
PoolAfter[n \in Nat] == IF n = 0 THEN NewPool ELSE After(PoolAfter[n - 1])

(* The constructor of the pool, and the reads before the loop. *)
MakePool(t) ==
  /\ Running /\ pc[t] = "buffer_pool"
  /\ \/ mode.registered /\ Ends("runtime_error")
     \/ ~mode.stupid /\ Reads > Capacity /\ Ends("bad_alloc")
     \/ /\ mode.stupid \/ Reads <= Capacity
        /\ buffers' = [buffers EXCEPT ![t] =
             IF ~mode.registered THEN "none"
             ELSE IF mode.stupid THEN "foreign" ELSE "registered"]
        /\ kernel' = [kernel EXCEPT ![t] =
             [i \in 1 .. Reads |-> Operation(t, "read", Block(PoolAfter[i - 1]))]]
        /\ pools' = [pools EXCEPT ![t] = PoolAfter[Reads]]
        /\ pc' = [pc EXCEPT ![t] = "event_loop"]
        /\ UNCHANGED <<mode, main, fds, sock, ring_fd, finished_threads, cq, sent, clients>>

(* In the shared block stands the type of the operation prepared last,     *)
(* which is always a read.                                                 *)
EventType(cqe) == IF mode.stupid \/ cqe.kind = "read" THEN "READ_EVENT" ELSE "WRITE_EVENT"

(* Seeded fault: the answer is written into the block of the request. *)
AnswerInPlace(t, cqe) ==
  /\ kernel' = [kernel EXCEPT ![t] =
       @ \o <<Operation(t, "write", cqe.block), Operation(t, "read", cqe.block)>>]
  /\ UNCHANGED pools

Answer(t, cqe) ==
  /\ kernel' = [kernel EXCEPT ![t] =
       @ \o <<Operation(t, "write", Block(pools[t])), Operation(t, "read", cqe.block)>>]
  /\ pools' = [pools EXCEPT ![t] = After(@)]

(* A completion: a result of 0 ends the loop, an error is taken for a      *)
(* request like any other result.                                          *)
EventLoop(t) ==
  /\ Running /\ pc[t] = "event_loop" /\ cq[t] # <<>>
  /\ LET cqe == Head(cq[t])
     IN  CASE EventType(cqe) = "READ_EVENT" /\ cqe.res = 0 ->
                /\ fds' = [fds EXCEPT ![sock[t]] = Free]
                /\ pc' = [pc EXCEPT ![t] = "queue_exit"]
                /\ UNCHANGED <<mode, main, sock, ring_fd, finished_threads, pools, buffers,
                               kernel, cq, sent, clients>>
           [] EventType(cqe) = "READ_EVENT" /\ cqe.res # 0 /\ ~Lasts(pools[t]) ->
                Ends("bad_alloc")
           [] EventType(cqe) = "READ_EVENT" /\ cqe.res # 0 /\ Lasts(pools[t]) ->
                /\ Len(kernel[t]) + Len(cq[t]) < MaxOperations
                /\ UNCHANGED buffers
                /\ Answer(t, cqe)
                /\ cq' = [cq EXCEPT ![t] = Tail(@)]
                /\ UNCHANGED <<mode, main, pc, fds, sock, ring_fd, finished_threads, sent, clients>>
           [] OTHER ->
                /\ pools' = [pools EXCEPT ![t] = Returned(@, cqe.block)]
                /\ cq' = [cq EXCEPT ![t] = Tail(@)]
                /\ UNCHANGED <<mode, main, pc, fds, sock, ring_fd, finished_threads, buffers,
                               kernel, sent, clients>>

(* io_uring_queue_exit closes ring_fd before the pool is destroyed. *)
QueueExit(t) ==
  /\ Running /\ pc[t] = "queue_exit"
  /\ fds' = [fds EXCEPT ![ring_fd[t]] = Free]
  /\ kernel' = [kernel EXCEPT ![t] = <<>>] /\ cq' = [cq EXCEPT ![t] = <<>>]
  /\ buffers' = [buffers EXCEPT ![t] = "none"]
  /\ pc' = [pc EXCEPT ![t] = "finished"]
  /\ UNCHANGED <<mode, main, sock, ring_fd, finished_threads, pools, sent, clients>>

Finish(t) ==
  /\ Running /\ pc[t] = "finished"
  /\ finished_threads' = finished_threads + 1
  /\ pc' = [pc EXCEPT ![t] = "destructor"]
  /\ UNCHANGED <<mode, main, fds, sock, ring_fd, pools, buffers, kernel, cq, sent, clients>>

(* io_uring_unregister_buffers on the closed number, by now perhaps the    *)
(* ring of another thread, which loses its buffers.                        *)
DestroyPool(t) ==
  /\ Running /\ pc[t] = "destructor"
  /\ buffers' = [u \in Threads |->
       IF mode.registered /\ ~mode.stupid /\ fds[ring_fd[t]] = <<"ring", u>>
         /\ buffers[u] = "registered"
       THEN "lost" ELSE buffers[u]]
  /\ pc' = [pc EXCEPT ![t] = "ended"]
  /\ UNCHANGED <<mode, main, fds, sock, ring_fd, finished_threads, pools, kernel, cq, sent, clients>>

Thread(t) ==
  QueueInit(t) \/ MakePool(t) \/ EventLoop(t) \/ QueueExit(t) \/ Finish(t) \/ DestroyPool(t)

(***************************************************************************)
(* The kernel and the clients.                                             *)
(***************************************************************************)

ReadOutcomes(client) ==
  CASE client.end = "reset" -> {-1, 0}
    [] client.end # "reset" /\ client.unread > 0 -> {1}
    [] client.end = "closed" /\ client.unread <= 0 -> {0}
    [] OTHER -> {}

Outcomes(t, op) ==
  IF op.fails THEN {-1}
  ELSE CASE op.kind = "notif" -> {0}
         [] op.kind = "write" -> IF clients[t].end = "reset" THEN {-1} ELSE {1}
         [] op.kind = "read"  -> ReadOutcomes(clients[t])

Complete(t, k) ==
  LET op == kernel[t][k]
  IN  /\ Running
      /\ \E res \in Outcomes(t, op) :
           /\ cq' = [cq EXCEPT ![t] =
                       Append(@, [kind |-> op.kind, block |-> op.block, res |-> res])]
           /\ kernel' = [kernel EXCEPT ![t] =
                           IF op.kind = "write" /\ res > 0 /\ mode.registered
                           THEN [@ EXCEPT ![k].kind = "notif"]
                           ELSE RemoveAt(@, k)]
           /\ clients' = IF op.kind = "read" /\ res > 0
                         THEN [clients EXCEPT ![t].unread = @ - 1]
                         ELSE clients
      /\ UNCHANGED <<mode, main, pc, fds, sock, ring_fd, finished_threads, pools, buffers, sent>>

Client(t) ==
  /\ Running /\ pc[t] # "none" /\ clients[t].end = "open"
  /\ \/ /\ sent < mode.requests /\ sent' = sent + 1
        /\ clients' = [clients EXCEPT ![t].unread = @ + 1]
     \/ /\ UNCHANGED sent
        /\ \E end \in {"closed", "reset"} : clients' = [clients EXCEPT ![t].end = end]
  /\ UNCHANGED <<mode, main, pc, fds, sock, ring_fd, finished_threads, pools, buffers, kernel, cq>>

(* Nothing bounds the operations of a ring, only the model does. *)
AtBound == \E t \in Threads : Len(kernel[t]) + Len(cq[t]) >= MaxOperations

Terminated == (~Running \/ AtBound) /\ UNCHANGED server

Next ==
  \/ Main \/ Terminated
  \/ \E t \in Threads :
       Accept(t) \/ Thread(t) \/ Client(t) \/ \E k \in DOMAIN kernel[t] : Complete(t, k)

(***************************************************************************)
(* Properties.                                                             *)
(***************************************************************************)

Held(t) == kernel[t] \o cq[t]

(* With plain sends every operation has a block of its own, checked out    *)
(* until its completion is met.  With send_zc, whose block is free after   *)
(* the first of its completions (simple_iou_server.cpp:127), at least no   *)
(* read ever shares its block.                                             *)
BlocksOwned ==
  \A t \in Threads : pc[t] = "event_loop" /\ ~mode.stupid =>
    \A i, j \in DOMAIN Held(t) :
      /\ i # j /\ (~mode.registered \/ Held(t)[i].kind = "read") =>
           Held(t)[i].block # Held(t)[j].block
      /\ Held(t)[i].kind = "read" \/ ~mode.registered =>
           pools[t].state[Held(t)[i].block] = "CheckedOut"

(* check_out throws only when every block is a read's or a page's that is  *)
(* under way or whose completion has not been met: none was ever lost.     *)
PoolRunsOutOnlyInUse ==
  main = "bad_alloc" =>
    \E t \in Threads : {Held(t)[i].block : i \in DOMAIN Held(t)} = Blocks

(* The notification of a send_zc is not taken for the end of a client: a   *)
(* thread leaves its loop only when the client has gone (87).              *)
ServesUntilClosed ==
  \A t \in Threads :
    pc[t] \in {"queue_exit", "finished", "destructor", "ended"} => clients[t].end # "open"

(* A ring loses its buffers only to a thread that has ended, which         *)
(* unregisters those of a number it has closed (157, buffer_pool.hpp:111). *)
BuffersKept ==
  \A t \in Threads : buffers[t] = "lost" => \E u \in Threads \ {t} : pc[u] = "ended"
=============================================================================
