----------------------------- MODULE PageStream -----------------------------
(***************************************************************************)
(* The full-duplex pair io_uring_fast_net_new/src/client.cpp and           *)
(* server.cpp over one connection, a stream of bytes: the client's buffers *)
(* alternate a request and the receive of a page, the server answers every *)
(* receive with a page and receives again.  Neither program looks at how   *)
(* much a completion stands for: any received piece counts as a request or *)
(* as a page (client.cpp:295), a short send as a whole one (server.cpp:468)*)
(* so requests and pages do not match one to one.                          *)
(*                                                                         *)
(* UringClient and UringServer have the bookkeeping of each end and the    *)
(* failures of operations; here operations go through or the connection is *)
(* lost, operations of one kind are alike and are counted by stage.        *)
(***************************************************************************)
EXTENDS Integers

CONSTANTS
  ClientOps, ServerOps,  \* buffers of the connection at each end
  RequestSize, PageSize, \* in pieces
  Capacity,              \* pieces a direction of the connection holds
  Faults,                \* a subset of {"short", "lost"}
  MaxRequests,           \* bound: requests completed before the deadline
  MaxShortfall           \* bound: pieces that short sends leave out

VARIABLES
  client,                \* operations under way (send, recv) and their completions (sent,
                         \* received), and buffers retired after the deadline
  server,                \* the same of the server
  up, down,              \* pieces on the connection
  conn,                  \* "open" or "lost"
  total_requests_completed,
  expired, late,         \* the client's clock, and as last read by its loop
  shortfall              \* history: pieces that short sends left out, of requests and of pages

stream == <<client, server, up, down, conn, total_requests_completed, expired, late, shortfall>>

Init ==
  /\ client = [send |-> ClientOps, sent |-> 0, recv |-> 0, received |-> 0, retired |-> 0]
  /\ server = [send |-> 0, sent |-> 0, recv |-> ServerOps, received |-> 0]
  /\ up = 0 /\ down = 0 /\ conn = "open"
  /\ total_requests_completed = 0
  /\ expired = FALSE /\ late = FALSE
  /\ shortfall = [requests |-> 0, pages |-> 0]

Stage(ops, from, to) == [ops EXCEPT ![from] = @ - 1, ![to] = @ + 1]

(***************************************************************************)
(* The event loops.  The client's reads the clock before every wait.       *)
(***************************************************************************)

Handling == conn = "open" /\ (expired \/ total_requests_completed < MaxRequests)

ClientSendDone ==
  /\ Handling /\ client.sent > 0
  /\ client' = Stage(client, "sent", "recv")
  /\ late' = expired
  /\ UNCHANGED <<server, up, down, conn, total_requests_completed, expired, shortfall>>

ClientRecvDone ==
  /\ Handling /\ client.received > 0
  /\ total_requests_completed' = total_requests_completed + 1
  /\ client' = Stage(client, "received", IF late THEN "retired" ELSE "send")
  /\ late' = expired
  /\ UNCHANGED <<server, up, down, conn, expired, shortfall>>

ServerRecvDone ==
  /\ conn = "open" /\ server.received > 0
  /\ server' = [server EXCEPT !.received = @ - 1, !.send = @ + 1, !.recv = @ + 1]
  /\ UNCHANGED <<client, up, down, conn, total_requests_completed, expired, late,
                 shortfall>>

ServerSendDone ==
  /\ conn = "open" /\ server.sent > 0
  /\ server' = [server EXCEPT !.sent = @ - 1]
  /\ UNCHANGED <<client, up, down, conn, total_requests_completed, expired, late,
                 shortfall>>

(***************************************************************************)
(* The kernels, the network and the clock.                                 *)
(***************************************************************************)

(* What a send of size pieces may put on a direction that holds n. *)
Sends(size, n) ==
  {k \in 1 .. size :
     /\ n + k <= Capacity
     /\ k = size \/ "short" \in Faults
     /\ shortfall.requests + shortfall.pages + size - k <= MaxShortfall}

ClientSend ==
  /\ conn = "open" /\ client.send > 0
  /\ \E n \in Sends(RequestSize, up) :
       up' = up + n /\ shortfall' = [shortfall EXCEPT !.requests = @ + RequestSize - n]
  /\ client' = Stage(client, "send", "sent")
  /\ UNCHANGED <<server, down, conn, total_requests_completed, expired, late>>

ServerSend ==
  /\ conn = "open" /\ server.send > 0
  /\ \E n \in Sends(PageSize, down) :
       down' = down + n /\ shortfall' = [shortfall EXCEPT !.pages = @ + PageSize - n]
  /\ server' = Stage(server, "send", "sent")
  /\ UNCHANGED <<client, up, conn, total_requests_completed, expired, late>>

ServerRecv ==
  /\ conn = "open" /\ server.recv > 0
  /\ \E n \in 1 .. RequestSize : n <= up /\ up' = up - n
  /\ server' = Stage(server, "recv", "received")
  /\ UNCHANGED <<client, down, conn, total_requests_completed, expired, late, shortfall>>

ClientRecv ==
  /\ conn = "open" /\ client.recv > 0
  /\ \E n \in 1 .. PageSize : n <= down /\ down' = down - n
  /\ client' = Stage(client, "recv", "received")
  /\ UNCHANGED <<server, up, conn, total_requests_completed, expired, late, shortfall>>

Lost ==
  /\ "lost" \in Faults /\ conn = "open"
  /\ conn' = "lost"
  /\ UNCHANGED <<client, server, up, down, total_requests_completed, expired, late,
                 shortfall>>

Tick ==
  /\ ~expired /\ expired' = TRUE
  /\ UNCHANGED <<client, server, up, down, conn, total_requests_completed, late, shortfall>>

Client == ClientSendDone \/ ClientRecvDone
Server == ServerRecvDone \/ ServerSendDone
Kernel == ClientSend \/ ServerSend \/ ServerRecv \/ ClientRecv

Next == Client \/ Server \/ Kernel \/ Lost \/ Tick

Spec == Init /\ [][Next]_stream

(***************************************************************************)
(* Properties.                                                             *)
(***************************************************************************)

(* Receives under way or about to be prepared, requests sent for each.     *)
Awaiting == client.sent + client.recv

(* What the client waits for is on its way: as many pages are owed by the  *)
(* server, on the connection, or asked for on the connection, as receives  *)
(* wait, in pieces of pieces, however the receives cut the streams.  Only  *)
(* short sends, which both ends count as whole, take away from it          *)
(* (server.cpp:468, client.cpp:272 ).                                       *)
AwaitedIsOnItsWay ==
  PageSize * RequestSize * Awaiting <=
    PageSize * (up + shortfall.requests)
      + PageSize * RequestSize * (server.received + server.send)
      + RequestSize * (down + shortfall.pages)

(* Every buffer of the client is in one operation or retired, and a        *)
(* receive of the server always awaits the next request.                   *)
BuffersKept ==
  /\ client.send + client.sent + client.recv + client.received + client.retired = ClientOps
  /\ server.recv + server.received = ServerOps

(* After the deadline every buffer of the client is answered and retired,  *)
(* unless the connection is lost or a send was short.                      *)
Over == client.retired = ClientOps \/ conn = "lost" \/ shortfall.requests + shortfall.pages > 0
=============================================================================
