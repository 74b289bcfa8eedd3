----------------------------- MODULE GetPageIou ------------------------------
(***************************************************************************)
(* fast_net/src/client_iou.cpp and server_iou.cpp: get_page over rings     *)
(* with a submission thread in the kernel.  A client thread sends a batch  *)
(* of requests, asks for as many responses, and counts completions until   *)
(* that many were received.  The server keeps BatchSize reads under way    *)
(* and answers each from its stack: the kernel reads the response when it  *)
(* comes to the write, and by then the next one may be in its place        *)
(* (server_iou.cpp:70).                                                    *)
(*                                                                         *)
(* Client threads use ranges, rings and connections of their own; one is   *)
(* modelled, with NumRequests the size of its range.                       *)
(***************************************************************************)
EXTENDS GetPageModel, Sequences, SequencesExt, FiniteSets

CONSTANTS
  NumRequests,           \* end - start of a client_thread
  BatchSize,             \* BATCH_SIZE, and the reads of the server
  RingSize,              \* IO_URING_QUEUE_DEPTH
  ClientPages, ServerPages,  \* PAGE_COUNT of each program
  Faults,                \* a subset of {"setup", "split", "short", "reset"}
  MaxLosses              \* bound: short reads and writes and resets

VARIABLES
  pc,                    \* of the client: "setup_socket", "send_requests", "receive_responses",
                         \* "reap", "returned", "terminated" (an exception), "crashed" (no sqe)
  i, left,               \* first request of the batch, responses still to be counted
  responses,             \* pieces received for each request
  thread,                \* of the server: "none", "event_loop", "closed", "crashed"
  frame,                 \* the response on the stack of event_loop
  rings,                 \* of "client" and "server": sqes, operations under way, cqes;
                         \* reads and writes of the server are alike, so they are counted
  up, down,              \* pieces on the connection that are not read yet
  conn,                  \* "none", "connecting", "open", "client closed", "server closed", "reset",
                         \* "dead" (the server has read the error)
  losses                 \* history: reads and writes that were short, and resets

clientside == <<pc, i, left, responses>>
getpageiou == <<clientside, thread, frame, rings, up, down, conn, losses>>

EmptyRing == [sq |-> <<>>, kernel |-> {}, reads |-> 0, writes |-> 0, cq |-> <<>>]
NoResponse == [header |-> [request_id |-> 0, page_number |-> 0, status |-> 0], content |-> "00"]

Init ==
  /\ pc = "setup_socket" /\ i = 0 /\ left = 0
  /\ responses = [k \in 0 .. NumRequests - 1 |-> <<>>]
  /\ thread = "none" /\ frame = NoResponse
  /\ rings = [side \in {"client", "server"} |-> EmptyRing]
  /\ up = <<>> /\ down = <<>> /\ conn = "none" /\ losses = 0

(* io_uring_get_sqe returns NULL on a full ring, which nobody checks.      *)
Fits(side, sqes) == Len(rings[side].sq) + Len(sqes) <= RingSize
Submit(side, sqes) == rings' = [rings EXCEPT ![side].sq = @ \o sqes]

(***************************************************************************)
(* client_thread                                                           *)
(***************************************************************************)

SetupSocket ==
  /\ pc = "setup_socket"
  /\ \/ pc' = "send_requests" /\ conn' = "connecting"
     \/ "setup" \in Faults /\ pc' = "returned" /\ UNCHANGED conn
  /\ UNCHANGED <<i, left, responses, thread, frame, rings, up, down, losses>>

Batch(event) == LET end == IF NumRequests < i + BatchSize THEN NumRequests ELSE i + BatchSize
                IN  [k \in 1 .. end - i |-> [event |-> event, j |-> i + k - 1]]

SendRequests ==
  /\ pc = "send_requests" /\ i < NumRequests
  /\ IF Fits("client", Batch("SEND"))
     THEN Submit("client", Batch("SEND")) /\ pc' = "receive_responses"
     ELSE pc' = "crashed" /\ UNCHANGED rings
  /\ UNCHANGED <<i, left, responses, thread, frame, up, down, conn, losses>>

ReceiveResponses ==
  /\ pc = "receive_responses"
  /\ IF Fits("client", Batch("RECEIVE"))
     THEN /\ Submit("client", Batch("RECEIVE"))
          /\ pc' = "reap" /\ left' = Len(Batch("RECEIVE"))
     ELSE pc' = "crashed" /\ UNCHANGED <<rings, left>>
  /\ UNCHANGED <<i, responses, thread, frame, up, down, conn, losses>>

(* Seeded fault: completions of sends are counted too. *)
CountedAny(cqe) == 1

(* A response however short counts, a send does not.                       *)
Counted(cqe) == IF cqe.event = "SEND" THEN 0 ELSE 1

Reap ==
  /\ pc = "reap" /\ rings["client"].cq # <<>>
  /\ LET cqe == Head(rings["client"].cq)
     IN  IF cqe.res < 0
         THEN pc' = "terminated" /\ UNCHANGED <<i, left, rings>>
         ELSE /\ left' = left - Counted(cqe)
              /\ rings' = [rings EXCEPT !["client"].cq = Tail(@)]
              /\ IF left' = 0 THEN pc' = "send_requests" /\ i' = i + BatchSize
                              ELSE UNCHANGED <<pc, i>>
  /\ UNCHANGED <<responses, thread, frame, up, down, conn, losses>>

Closed(side) == conn' = IF conn \in {"connecting", "open"} THEN side ELSE conn

Return ==
  /\ pc = "send_requests" /\ i >= NumRequests
  /\ pc' = "returned" /\ Closed("client closed")
  /\ rings' = [rings EXCEPT !["client"] = EmptyRing]
  /\ UNCHANGED <<i, left, responses, thread, frame, up, down, losses>>

Client == SetupSocket \/ SendRequests \/ ReceiveResponses \/ Reap \/ Return

(***************************************************************************)
(* The server's main and event_loop                                        *)
(***************************************************************************)

ReadRequests == [k \in 1 .. BatchSize |-> [event |-> "READ"]]

Accept ==
  /\ thread = "none" /\ conn # "none"
  /\ IF Fits("server", ReadRequests)
     THEN Submit("server", ReadRequests) /\ thread' = "event_loop"
     ELSE thread' = "crashed" /\ UNCHANGED rings
  /\ conn' = IF conn = "connecting" THEN "open" ELSE conn
  /\ UNCHANGED <<clientside, frame, up, down, losses>>

Answer == <<[event |-> "WRITE"], [event |-> "READ"]>>

(* A short read is answered like a request, and so is a failed one.        *)
EventLoop ==
  /\ thread = "event_loop" /\ rings["server"].cq # <<>>
  /\ LET cqe  == Head(rings["server"].cq)
         ring == [rings["server"] EXCEPT !.cq = Tail(@)]
     IN  \/ /\ cqe.event = "READ" /\ cqe.res = 0
            /\ thread' = "closed" /\ Closed("server closed")
            /\ rings' = [rings EXCEPT !["server"] = EmptyRing]
            /\ UNCHANGED frame
         \/ /\ cqe.event = "READ" /\ cqe.res # 0
            /\ frame' = GetPageResponse(cqe.request, ServerPages)
            /\ IF Fits("server", Answer)
               THEN /\ rings' = [rings EXCEPT !["server"] = [ring EXCEPT !.sq = @ \o Answer]]
                    /\ UNCHANGED thread
               ELSE thread' = "crashed" /\ UNCHANGED rings
            /\ UNCHANGED conn
         \/ /\ cqe.event = "WRITE"
            /\ rings' = [rings EXCEPT !["server"] = ring]
            /\ UNCHANGED <<thread, frame, conn>>
  /\ UNCHANGED <<clientside, up, down, losses>>

(***************************************************************************)
(* The kernel: a submission thread takes what is submitted; operations     *)
(* under way end in any order.                                             *)
(***************************************************************************)

Of(sqes, event) == Cardinality({k \in DOMAIN sqes : sqes[k].event = event})

Poll(side) ==
  /\ rings[side].sq # <<>>
  /\ LET ring == rings[side]
     IN  rings' = [rings EXCEPT ![side] =
                     [sq |-> <<>>, cq |-> ring.cq,
                      kernel |-> IF side = "client" THEN ring.kernel \cup ToSet(ring.sq)
                                                   ELSE ring.kernel,
                      reads |-> ring.reads + Of(ring.sq, "READ"),
                      writes |-> ring.writes + Of(ring.sq, "WRITE")]]
  /\ UNCHANGED <<clientside, thread, frame, up, down, conn, losses>>

Completes(op, res) ==
  LET ring == rings["client"]
  IN  rings' = [rings EXCEPT !["client"] =
                  [ring EXCEPT !.kernel = @ \ {op},
                               !.cq = Append(@, [event |-> op.event, j |-> op.j, res |-> res])]]

(* A loss: what is cut short stays within the bound. *)
Loses(loss) == /\ loss => losses < MaxLosses
               /\ losses' = losses + IF loss THEN 1 ELSE 0

Broken == conn \in {"client closed", "server closed", "reset", "dead"}

(* SEND: requests lie in a vector of their own and go out whole.           *)
SendOp(op) ==
  /\ op.event = "SEND"
  /\ \/ /\ conn = "open"
        /\ up' = up \o RequestPieces(to_network_order(
                         GetPageRequest(op.j, op.j % ClientPages)))
        /\ Completes(op, 2)
     \/ /\ Broken
        /\ Completes(op, -1)
        /\ UNCHANGED up
  /\ UNCHANGED <<clientside, thread, frame, down, conn, losses>>

(* What a read returns of the pieces that are there. *)
Lengths(pieces) ==
  {n \in 1 .. Len(pieces) : n <= 2 /\ ("split" \in Faults \/ n = 2 \/ n = Len(pieces))}

RecvOp(op) ==
  /\ op.event = "RECEIVE"
  /\ \/ \E n \in Lengths(down) :
          /\ responses' = [responses EXCEPT ![op.j] = SubSeq(down, 1, n)]
          /\ down' = SubSeq(down, n + 1, Len(down))
          /\ Completes(op, n)
          /\ Loses(n < 2)
     \/ /\ down = <<>> /\ Broken
        /\ Completes(op, IF conn \in {"reset", "dead"} THEN -1 ELSE 0)
        /\ UNCHANGED <<responses, down, losses>>
  /\ UNCHANGED <<pc, i, left, thread, frame, up, conn>>

(* Memory from malloc that a short or failed read has not filled. *)
Unread == {GetPageRequest(0, page) : page \in {0, Digits * Digits - 1}}

ServerCompletes(kind, cqe) ==
  LET ring == rings["server"]
  IN  rings' = [rings EXCEPT !["server"] =
                  [ring EXCEPT ![kind] = ring[kind] - 1, !.cq = Append(ring.cq, cqe)]]

ReadOp ==
  /\ rings["server"].reads > 0
  /\ \/ \E n \in Lengths(up) :
          LET pieces == SubSeq(up, 1, n)
          IN  /\ \E request \in IF IsWhole(pieces) THEN {pieces[1][2]} ELSE Unread :
                   ServerCompletes("reads", [event |-> "READ", res |-> n, request |-> request])
              /\ up' = SubSeq(up, n + 1, Len(up))
              /\ Loses(n < 2)
        /\ UNCHANGED conn
     \/ /\ up = <<>> /\ conn \in {"client closed", "dead"}
        /\ ServerCompletes("reads", [event |-> "READ", res |-> 0])
        /\ UNCHANGED <<up, conn, losses>>
     \/ /\ conn = "reset" /\ conn' = "dead"
        /\ \E request \in Unread :
             ServerCompletes("reads", [event |-> "READ", res |-> -1, request |-> request])
        /\ UNCHANGED <<up, losses>>
  /\ UNCHANGED <<clientside, thread, frame, down>>

(* The response goes out as it stands in the frame now.                    *)
WriteOp ==
  /\ rings["server"].writes > 0
  /\ \/ /\ conn = "open"
        /\ \E n \in IF "short" \in Faults THEN 1 .. 2 ELSE {2} :
             /\ down' = down \o SubSeq(ResponsePieces(frame), 1, n)
             /\ Loses(n < 2)
     \/ Broken /\ UNCHANGED <<down, losses>>
  /\ ServerCompletes("writes", [event |-> "WRITE"])
  /\ UNCHANGED <<clientside, thread, frame, up, conn>>

(* What is on the connection is lost; the next read of the server fails,   *)
(* the others return 0.                                                    *)
Reset ==
  /\ "reset" \in Faults /\ conn = "open"
  /\ conn' = "reset" /\ up' = <<>> /\ Loses(TRUE)
  /\ \E n \in 0 .. Len(down) : down' = SubSeq(down, 1, n)
  /\ UNCHANGED <<clientside, thread, frame, rings>>

Kernel ==
  \/ \E side \in {"client", "server"} : Poll(side)
  \/ \E op \in rings["client"].kernel : SendOp(op) \/ RecvOp(op)
  \/ ReadOp \/ WriteOp

Next == Client \/ Accept \/ EventLoop \/ Kernel \/ Reset

(***************************************************************************)
(* Properties.                                                             *)
(***************************************************************************)

(* Neither program runs out of submission entries, which it would not      *)
(* notice: two batches are enough for both (server_iou.cpp:23, 34).        *)
SqesSuffice == pc # "crashed" /\ thread # "crashed"

Under(event) ==
  LET ring == rings["client"]
  IN  Of(ring.sq, event) + Of(ring.cq, event) + Cardinality({op \in ring.kernel : op.event = event})

(* Counting receives alone ends a batch neither early nor late: as many    *)
(* are under way as are still to be counted, and without a loss the next   *)
(* batch starts on an empty ring and an empty connection, with no send     *)
(* left over (client_iou.cpp:90).                                          *)
BatchesApart ==
  /\ pc = "reap" => Under("RECEIVE") = left
  /\ pc = "send_requests" => Under("RECEIVE") = 0
  /\ pc = "send_requests" /\ losses = 0 => /\ rings["client"] = EmptyRing
                                           /\ up = <<>> /\ down = <<>>

(* What main verifies after the thread has returned. *)
Verified(k) ==
  /\ IsWhole(responses[k])
  /\ LET response == responses[k][1][2]
     IN  verify(response.content, to_host_order(response.header).page_number, ClientPages)

(* Without a loss every response is verified, if only pages are asked for  *)
(* that the server has, although a header may be another response's.       *)
AllVerified ==
  pc = "returned" /\ conn # "none" /\ losses = 0 /\ ClientPages <= ServerPages =>
    \A k \in DOMAIN responses : Verified(k)

(* The client ends unless something was lost: then the last receive may    *)
(* wait for ever.                                                          *)
Over == losses > 0 \/ pc \in {"returned", "terminated"}
EndsUnlessLost == <>Over
=============================================================================
