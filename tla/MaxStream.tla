----------------------------- MODULE MaxStream ------------------------------
(***************************************************************************)
(* fast_net/src/max_client.cpp and max_server.cpp: every client thread     *)
(* sends its share of NumRequests pages over a connection of its own as    *)
(* fast as a window of RingSize sends allows, the server's threads read    *)
(* and count what comes, all into one buffer.  The client counts           *)
(* completions, the server bytes, and main waits for 95% of them before it *)
(* joins its threads.                                                      *)
(*                                                                         *)
(* Bytes are counted in pieces, PageSize to a page.  A send may be cut     *)
(* short, a connection may fail to come about or break down.               *)
(***************************************************************************)
EXTENDS Integers, FiniteSets, FiniteSetsExt, Counting

CONSTANTS
  ClientThreads,         \* CLIENT_THREADS, on both sides
  NumRequests,           \* NUM_REQUESTS
  RingSize,              \* RING_SIZE
  PageSize,              \* pieces of a page
  Faults                 \* a subset of {"connect", "short", "reset", "exit"}

VARIABLES
  pc,                    \* of client threads: "setup_socket", "queue_init", "fill", "reap", "done"
  sent, completed,       \* requests_sent, requests_completed
  ring,                  \* of each client: sends under way, and completions by result
  stream,                \* of each connection: pieces not read yet, and its state
  servers,               \* of server threads: "none", "queue_init", "event_loop", "finished"
  main,                  \* of the server: "accept", "wait", "join", "returned", "exited"
  total,                 \* total_bytes_received
  shortfall, lossy       \* history: pieces that short sends left out; a connection failed

max == <<pc, sent, completed, ring, stream, servers, main, total, shortfall, lossy>>

Threads == 0 .. ClientThreads - 1
local_num_requests(t) ==
  LET requests_per_thread == NumRequests \div ClientThreads
  IN  IF t = ClientThreads - 1 THEN NumRequests - t * requests_per_thread
                               ELSE requests_per_thread

Init ==
  /\ pc = [t \in Threads |-> "setup_socket"]
  /\ sent = [t \in Threads |-> 0] /\ completed = [t \in Threads |-> 0]
  /\ ring = [t \in Threads |-> [kernel |-> 0, whole |-> 0, failed |-> 0]]
  /\ stream = [t \in Threads |-> [unread |-> 0, state |-> "none"]]
  /\ servers = [t \in Threads |-> "none"]
  /\ main = "accept" /\ total = 0 /\ shortfall = 0 /\ lossy = FALSE

(***************************************************************************)
(* The client.                                                             *)
(***************************************************************************)

SetupSocket(t) ==
  /\ pc[t] = "setup_socket"
  /\ \/ /\ "connect" \in Faults
        /\ pc' = [pc EXCEPT ![t] = "done"] /\ lossy' = TRUE
        /\ UNCHANGED stream
     \/ /\ main = "exited"
        /\ pc' = [pc EXCEPT ![t] = "done"]
        /\ UNCHANGED <<stream, lossy>>
     \/ /\ main # "exited"
        /\ pc' = [pc EXCEPT ![t] = "queue_init"]
        /\ stream' = [stream EXCEPT ![t].state = "waiting"]
        /\ UNCHANGED lossy
  /\ UNCHANGED <<sent, completed, ring, servers, main, total, shortfall>>

Close(t) == stream' = [stream EXCEPT ![t].state = IF @ = "reset" THEN @ ELSE "closed"]

QueueInit(t) ==
  /\ pc[t] = "queue_init"
  /\ \/ /\ "connect" \in Faults
        /\ pc' = [pc EXCEPT ![t] = "done"] /\ lossy' = TRUE
        /\ Close(t)
     \/ pc' = [pc EXCEPT ![t] = "fill"] /\ UNCHANGED <<stream, lossy>>
  /\ UNCHANGED <<sent, completed, ring, servers, main, total, shortfall>>

(* Seeded fault: failed sends are taken off the window. *)
WindowOfUnderWay(t) == RingSize - ring[t].kernel - ring[t].whole - ring[t].failed

Window(t) == RingSize - (sent[t] - completed[t])

Fill(t) ==
  /\ pc[t] = "fill"
  /\ IF completed[t] < local_num_requests(t)
     THEN LET n == Min({local_num_requests(t) - sent[t], Window(t)})
          IN  /\ sent' = [sent EXCEPT ![t] = @ + n]
              /\ ring' = [ring EXCEPT ![t].kernel = @ + n]
              /\ pc' = [pc EXCEPT ![t] = "reap"]
              /\ UNCHANGED stream
     ELSE /\ Close(t)
          /\ pc' = [pc EXCEPT ![t] = "done"]
          /\ UNCHANGED <<sent, ring>>
  /\ UNCHANGED <<completed, servers, main, total, shortfall, lossy>>

(* A short send counts like a whole one, a failed one never.               *)
Counted(t) == completed[t] + ring[t].whole

Reap(t) ==
  /\ pc[t] = "reap"
  /\ completed' = [completed EXCEPT ![t] = Counted(t)]
  /\ ring' = [ring EXCEPT ![t].whole = 0, ![t].failed = 0]
  /\ pc' = [pc EXCEPT ![t] = "fill"]
  /\ UNCHANGED <<sent, stream, servers, main, total, shortfall, lossy>>

Client(t) == SetupSocket(t) \/ QueueInit(t) \/ Fill(t) \/ Reap(t)

(***************************************************************************)
(* The server.                                                             *)
(***************************************************************************)

Accept(t) ==
  /\ main = "accept" /\ servers[t] = "none" /\ stream[t].state # "none"
  /\ servers' = [servers EXCEPT ![t] = "queue_init"]
  /\ stream' = [stream EXCEPT ![t].state = IF @ = "waiting" THEN "open" ELSE @]
  /\ main' = IF Cardinality({u \in Threads : servers'[u] # "none"}) = ClientThreads
             THEN "wait" ELSE "accept"
  /\ UNCHANGED <<pc, sent, completed, ring, total, shortfall, lossy>>

HandleClient(t) ==
  /\ servers[t] = "queue_init"
  /\ servers' = [servers EXCEPT ![t] = "event_loop"]
  /\ UNCHANGED <<pc, sent, completed, ring, stream, main, total, shortfall, lossy>>

(* A failed accept or ring ends the process, and with it every connection. *)
ServerExits ==
  /\ "exit" \in Faults
  /\ main = "accept" \/ \E t \in Threads : servers[t] = "queue_init"
  /\ main' = "exited" /\ servers' = [t \in Threads |-> "finished"]
  /\ stream' = [t \in Threads |->
       IF stream[t].state = "none" THEN stream[t] ELSE [unread |-> 0, state |-> "reset"]]
  /\ lossy' = TRUE
  /\ UNCHANGED <<pc, sent, completed, ring, total, shortfall>>

(* One read of the event loop: what is there, up to a page, or the end.    *)
EventLoop(t) ==
  /\ servers[t] = "event_loop"
  /\ \/ LET n == Min({stream[t].unread, PageSize})
        IN  /\ n > 0
            /\ stream' = [stream EXCEPT ![t].unread = @ - n]
            /\ total' = total + n
            /\ UNCHANGED servers
     \/ /\ stream[t].unread = 0 /\ stream[t].state \in {"closed", "reset"}
        /\ servers' = [servers EXCEPT ![t] = "finished"]
        /\ UNCHANGED <<stream, total>>
  /\ UNCHANGED <<pc, sent, completed, ring, main, shortfall, lossy>>

expected_total_bytes == NumRequests * PageSize

Waits == total < expected_total_bytes /\ total * 100 < 95 * expected_total_bytes

Main ==
  /\ \/ main = "wait" /\ ~Waits /\ main' = "join"
     \/ /\ main = "join" /\ \A t \in Threads : servers[t] = "finished"
        /\ main' = "returned"
  /\ UNCHANGED <<pc, sent, completed, ring, stream, servers, total, shortfall, lossy>>

(***************************************************************************)
(* The kernel and the network.                                             *)
(***************************************************************************)

Send(t) ==
  /\ ring[t].kernel > 0
  /\ \/ /\ stream[t].state \in {"waiting", "open"}
        /\ \E n \in {PageSize} \cup IF "short" \in Faults THEN {1, PageSize - 1} ELSE {} :
             /\ stream' = [stream EXCEPT ![t].unread = @ + n]
             /\ shortfall' = shortfall + PageSize - n
        /\ ring' = [ring EXCEPT ![t].kernel = @ - 1, ![t].whole = @ + 1]
     \/ /\ stream[t].state = "reset"
        /\ ring' = [ring EXCEPT ![t].kernel = @ - 1, ![t].failed = @ + 1]
        /\ UNCHANGED <<stream, shortfall>>
  /\ UNCHANGED <<pc, sent, completed, servers, main, total, lossy>>

(* What has not been read is lost. *)
Reset(t) ==
  /\ "reset" \in Faults /\ stream[t].state = "open"
  /\ stream' = [stream EXCEPT ![t] = [unread |-> 0, state |-> "reset"]]
  /\ lossy' = TRUE
  /\ UNCHANGED <<pc, sent, completed, ring, servers, main, total, shortfall>>

Steps(t) == Client(t) \/ Accept(t) \/ HandleClient(t) \/ EventLoop(t) \/ Send(t)

Next == Main \/ ServerExits \/ \E t \in Threads : Steps(t) \/ Reset(t)

(***************************************************************************)
(* Properties.                                                             *)
(***************************************************************************)

(* A failed send keeps its place in the window for ever: what is sent and  *)
(* not completed is under way, waits for the loop, or has failed, and      *)
(* without a broken connection nothing has (max_client.cpp:103).           *)
WindowKept ==
  \A t \in Threads :
    LET failed == sent[t] - completed[t] - ring[t].kernel - ring[t].whole
    IN  /\ sent[t] - completed[t] \in 0 .. RingSize
        /\ failed >= ring[t].failed
        /\ failed > 0 => stream[t].state = "reset" \/ pc[t] = "done"

(* What the server has counted and what it will still read is what the     *)
(* client's completions stand for, less what was short or lost, and main   *)
(* joins its threads only when at most 5% are missing (max_server.cpp:162).*)
CountsAgree ==
  LET counted == Total([t \in Threads |-> PageSize * (completed[t] + ring[t].whole)])
      arrived == total + Total([t \in Threads |-> stream[t].unread])
  IN  /\ arrived + shortfall <= counted
      /\ lossy \/ arrived + shortfall = counted
      /\ main \in {"join", "returned"} => 100 * total >= 95 * expected_total_bytes

(* Both programs end, unless a connection failed, after which the client's *)
(* loop may last for ever, or short sends have left out more than the 5%   *)
(* that the server does without.                                           *)
Over ==
  \/ lossy \/ 20 * shortfall > expected_total_bytes
  \/ (main = "returned" /\ \A t \in Threads : pc[t] = "done")
EndsUnlessLossy == <>Over
=============================================================================
