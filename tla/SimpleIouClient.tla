-------------------------- MODULE SimpleIouClient ---------------------------
(***************************************************************************)
(* One thread of fast_net/src/simple_iou_client.cpp (send_receive_data):   *)
(* it asks for NumRequests pages over one connection and one ring.  Each   *)
(* pass of its loop prepares requests and receives within two windows,     *)
(* submits them, and takes all completions that are there; it never waits. *)
(*                                                                         *)
(* A request is one int, a page PageSize ints.  A request goes out with    *)
(* send_zc (ALLOCATE_REGISTERED_BUFFERS) or send; the first posts two      *)
(* completions that both name the request's block.                         *)
(***************************************************************************)
EXTENDS BufferPool, Sequences, SequencesExt

CONSTANTS
  RingSize,              \* RING_SIZE
  NumRequests,           \* end_index - start_index
  PageSize,              \* PAGE_SIZE
  RegisteredModes,       \* values of ALLOCATE_REGISTERED_BUFFERS, a subset of BOOLEAN
  StupidModes            \* values of STUPID_BUFFER_MODE, a subset of BOOLEAN

ASSUME SimpleIouClientAssumption ==
  /\ RingSize \in Nat /\ NumRequests \in Nat /\ PageSize \in Nat \ {0}
  /\ RegisteredModes \subseteq BOOLEAN /\ StupidModes \subseteq BOOLEAN

VARIABLES
  registered, stupid,    \* the two build modes
  phase,                 \* "send", "recv" (the two filling loops), "reap", or an end
  send_index, recv_index, iterations_received,
  total_received,        \* in ints
  small, large,          \* the pools of requests and of pages
  event_type,            \* of the block that all requests share in STUPID_BUFFER_MODE
  sq, in_kernel, cqes,   \* the ring; in_kernel in the order of transmission
  acknowledged,          \* requests that have reached the server
  consumed,              \* ints that receives have taken from the stream
  closed,                \* the server has closed the connection
  short,                 \* history: some receive got less than a page
  overtaken              \* history: some request went out before an earlier one

modeVars == <<registered, stupid>>
indexVars == <<send_index, recv_index, iterations_received, total_received>>
poolVars == <<small, large, event_type>>
ringVars == <<sq, in_kernel, cqes>>
netVars == <<acknowledged, consumed, closed, short, overtaken>>
vars == <<modeVars, phase, indexVars, poolVars, ringVars, netVars>>

Ops == [kind : {"send", "recv", "notif"}, block : Blocks]
Cqes == [kind : {"send", "recv", "notif"}, block : Blocks, res : -1 .. PageSize]
Ends == {"done", "failed", "bad_alloc"}

Init ==
  /\ registered \in RegisteredModes /\ stupid \in StupidModes
  /\ phase = "send"
  /\ send_index = 0 /\ recv_index = 0 /\ iterations_received = 0 /\ total_received = 0
  /\ small = NewPool /\ large = NewPool /\ event_type = "none"
  /\ sq = <<>> /\ in_kernel = <<>> /\ cqes = <<>>
  /\ acknowledged = 0 /\ consumed = 0 /\ closed = FALSE
  /\ short = FALSE /\ overtaken = FALSE

(***************************************************************************)
(* The thread.                                                             *)
(***************************************************************************)

MoreToSend == send_index < NumRequests /\ send_index - recv_index < RingSize \div 4

MoreToRecv == recv_index < send_index /\ recv_index - iterations_received < RingSize \div 2

(* The block of the next operation from a pool, and what is left of it.    *)
Block(pool) == IF stupid THEN 0 ELSE NextFree(pool)
Lasts(pool) == stupid \/ CanCheckOut(pool)
After(pool) == IF stupid THEN pool ELSE CheckOut(pool)

(* The first loop runs while it can, then the second. *)
Sending == phase = "send" /\ MoreToSend
Receiving == phase \in {"send", "recv"} /\ ~Sending /\ MoreToRecv

PrepareSend ==
  /\ Sending /\ Lasts(small)
  /\ sq' = Append(sq, [kind |-> "send", block |-> Block(small)])
  /\ small' = After(small) /\ event_type' = "SEND_EVENT"
  /\ send_index' = send_index + 1
  /\ UNCHANGED <<modeVars, phase, recv_index, iterations_received, total_received, large, in_kernel,
                 cqes, netVars>>

PrepareRecv ==
  /\ Receiving /\ Lasts(large)
  /\ phase' = "recv"
  /\ sq' = Append(sq, [kind |-> "recv", block |-> Block(large)])
  /\ large' = After(large) /\ event_type' = "RECV_EVENT"
  /\ recv_index' = recv_index + 1
  /\ UNCHANGED <<modeVars, send_index, iterations_received, total_received, small, in_kernel, cqes,
                 netVars>>

(* check_out throws, and nobody catches. *)
OutOfBlocks ==
  /\ IF Sending THEN ~Lasts(small) ELSE Receiving /\ ~Lasts(large)
  /\ phase' = "bad_alloc"
  /\ UNCHANGED <<modeVars, indexVars, poolVars, ringVars, netVars>>

Submit ==
  /\ phase \in {"send", "recv"} /\ ~Sending /\ ~Receiving
  /\ phase' = "reap"
  /\ in_kernel' = in_kernel \o sq /\ sq' = <<>>
  /\ UNCHANGED <<modeVars, indexVars, poolVars, cqes, netVars>>

(* Seeded fault: the type is not that of the operation that completed. *)
EventTypeShared(cqe) == event_type

(* In the shared block stands the type of the operation prepared last.     *)
EventType(cqe) ==
  IF stupid THEN event_type ELSE IF cqe.kind = "recv" THEN "RECV_EVENT" ELSE "SEND_EVENT"

GiveBack(cqe) ==
  /\ small' = IF stupid \/ cqe.kind = "recv" THEN small ELSE CheckIn(small, cqe.block)
  /\ large' = IF stupid \/ cqe.kind # "recv" THEN large ELSE CheckIn(large, cqe.block)

(* A result of 0, from a closed connection or of a notification, counts    *)
(* like any other.                                                         *)
Reap ==
  /\ phase = "reap" /\ cqes # <<>> /\ Head(cqes).res >= 0
  /\ IF EventType(Head(cqes)) = "RECV_EVENT"
     THEN /\ total_received' = total_received + Head(cqes).res
          /\ iterations_received' = iterations_received + 1
     ELSE UNCHANGED <<total_received, iterations_received>>
  /\ GiveBack(Head(cqes))
  /\ cqes' = Tail(cqes)
  /\ UNCHANGED <<modeVars, phase, send_index, recv_index, event_type, sq, in_kernel, netVars>>

(* exit(EXIT_FAILURE) of the whole client. *)
Fail ==
  /\ phase = "reap" /\ cqes # <<>> /\ Head(cqes).res < 0
  /\ phase' = "failed"
  /\ UNCHANGED <<modeVars, indexVars, poolVars, ringVars, netVars>>

AllReceived == total_received >= NumRequests * PageSize /\ send_index >= NumRequests

(* Seeded fault: the condition that is commented out (110-111). *)
AllSubmittedAndReceived ==
  /\ send_index >= NumRequests /\ recv_index >= NumRequests
  /\ iterations_received >= NumRequests /\ total_received >= NumRequests * PageSize

AllSubmitted == send_index >= NumRequests /\ recv_index >= NumRequests

EndPass ==
  /\ phase = "reap" /\ cqes = <<>>
  /\ phase' = IF AllReceived \/ AllSubmitted THEN "done" ELSE "send"
  /\ UNCHANGED <<modeVars, indexVars, poolVars, ringVars, netVars>>

Thread == PrepareSend \/ PrepareRecv \/ OutOfBlocks \/ Submit \/ Reap \/ Fail \/ EndPass

(***************************************************************************)
(* The kernel and the server.                                              *)
(***************************************************************************)

Post(op, res) == cqes' = Append(cqes, [kind |-> op.kind, block |-> op.block, res |-> res])

(* A request goes out.  After send_zc the kernel keeps the block until the *)
(* server has acknowledged what is in it.                                  *)
SendCompletes(n) ==
  /\ in_kernel[n].kind = "send" /\ ~closed
  /\ Post(in_kernel[n], 1)
  /\ in_kernel' = RemoveAt(in_kernel, n) \o
                 (IF registered THEN <<[kind |-> "notif", block |-> in_kernel[n].block]>> ELSE <<>>)
  /\ acknowledged' = IF registered THEN acknowledged ELSE acknowledged + 1
  /\ overtaken' = (overtaken \/ \E k \in 1 .. n - 1 : in_kernel[k].kind = "send")
  /\ UNCHANGED <<consumed, short>>

(* Acknowledgements are cumulative, and come with a page at the latest.    *)
Notification(n) ==
  /\ in_kernel[n].kind = "notif"
  /\ \A k \in 1 .. n - 1 : in_kernel[k].kind # "notif"
  /\ Post(in_kernel[n], 0)
  /\ in_kernel' = RemoveAt(in_kernel, n)
  /\ acknowledged' = acknowledged + 1
  /\ UNCHANGED <<consumed, short, overtaken>>

(* The server sends a page for each request; a receive takes what there is *)
(* of the stream, up to a page.                                            *)
RecvCompletes(n) ==
  /\ in_kernel[n].kind = "recv"
  /\ \E ints \in 1 .. PageSize :
       /\ consumed + ints <= acknowledged * PageSize
       /\ Post(in_kernel[n], ints)
       /\ consumed' = consumed + ints
       /\ short' = (short \/ ints < PageSize)
  /\ in_kernel' = RemoveAt(in_kernel, n)
  /\ UNCHANGED <<acknowledged, overtaken>>

(* After the server has closed: the end of the stream or a reset for a     *)
(* receive, EPIPE for a request.                                           *)
CompletesClosed(n) ==
  /\ closed /\ in_kernel[n].kind \in {"send", "recv"}
  /\ \E res \in (IF in_kernel[n].kind = "recv" THEN {0, -1} ELSE {-1}) : Post(in_kernel[n], res)
  /\ in_kernel' = RemoveAt(in_kernel, n)
  /\ short' = TRUE
  /\ UNCHANGED <<acknowledged, consumed, overtaken>>

Completes(n) == SendCompletes(n) \/ Notification(n) \/ RecvCompletes(n) \/ CompletesClosed(n)

(* The kernel and the server are always at work, but all that the thread   *)
(* ever sees of it are the completions that it takes one by one, in the    *)
(* order in which they are posted: what they do while it fills the ring or *)
(* handles a completion is taken to happen when it looks for the next.     *)
Kernel ==
  /\ phase = "reap" /\ cqes = <<>>
  /\ \E n \in DOMAIN in_kernel : Completes(n)
  /\ UNCHANGED <<modeVars, phase, indexVars, poolVars, sq, closed>>

ServerCloses ==
  /\ phase = "reap" /\ cqes = <<>> /\ ~closed
  /\ closed' = TRUE
  /\ UNCHANGED <<modeVars, phase, indexVars, poolVars, ringVars, acknowledged, consumed, short,
                 overtaken>>

Terminated == phase \in Ends /\ UNCHANGED vars

Next == Thread \/ Kernel \/ ServerCloses \/ Terminated

Spec == Init /\ [][Next]_vars

(* The thread is scheduled, and operations that can complete do, which the *)
(* thread sees the next time it takes completions.                         *)
FairSpec == Spec /\ WF_vars(Thread) /\ SF_vars(Kernel)

(***************************************************************************)
(* Properties.                                                             *)
(***************************************************************************)

(* Types of the client's state and of the ring.                            *)
TypeOK ==
  /\ registered \in BOOLEAN /\ stupid \in BOOLEAN
  /\ phase \in {"send", "recv", "reap"} \cup Ends
  /\ recv_index \in 0 .. NumRequests /\ send_index \in recv_index .. NumRequests
  /\ iterations_received \in Nat /\ total_received \in 0 .. NumRequests * PageSize + NumRequests
  /\ small \in Pools /\ large \in Pools
  /\ event_type \in {"none", "SEND_EVENT", "RECV_EVENT"}
  /\ sq \in Seq(Ops) /\ in_kernel \in Seq(Ops) /\ cqes \in Seq(Cqes)
  /\ Len(sq) <= RingSize
  /\ acknowledged \in 0 .. send_index /\ consumed \in 0 .. acknowledged * PageSize
  /\ closed \in BOOLEAN /\ short \in BOOLEAN /\ overtaken \in BOOLEAN

(* The two windows, of the requests ahead of the receives (116) and of the *)
(* receives ahead of the completions (155), bound the requests whose       *)
(* blocks are out.                                                         *)
Window == RingSize \div 4 + RingSize \div 2

(* Completions of requests are in neither window, but as long as every     *)
(* receive is a whole page, a pool of Window blocks is never exhausted     *)
(* (check_out would throw, buffer_pool.hpp:145), whatever the order in     *)
(* which completions arrive.                                               *)
PoolsLast == phase = "bad_alloc" => short \/ Capacity < Window

(* A request is checked in at each of the two completions of a send_zc     *)
(* (250), at the first while the kernel still reads it.  As long as every  *)
(* receive is a whole page and requests go out in order, a pool of Window  *)
(* blocks is searched in an order that hands the block out again only      *)
(* after the kernel is done: no two operations of one kind of buffer name  *)
(* the same block.                                                         *)
NotReusedEarly ==
  LET ops == sq \o in_kernel
  IN  ~stupid /\ ~short /\ ~overtaken /\ Capacity >= Window =>
        \A m, n \in DOMAIN ops :
          m # n /\ ops[m].block = ops[n].block => (ops[m].kind = "recv") # (ops[n].kind = "recv")

(* The state is of its types, and a pool of Window blocks suffices.        *)
BlocksSuffice == TypeOK /\ PoolsLast /\ NotReusedEarly

(* With buffers of their own, what is counted is what receives have taken  *)
(* from the stream, no later than their completions are handled (226-227): *)
(* the two completions of a send_zc never count as a page.                 *)
CountedIsConsumed == ~stupid /\ cqes = <<>> => total_received = consumed

(* The loop ends with the last receive prepared, not completed (the        *)
(* condition at 110-111 is commented out): what a client with buffers of   *)
(* their own has not counted then is at most half a ring of receives.      *)
TailBound ==
  phase = "done" /\ ~stupid =>
    /\ send_index = NumRequests
    /\ NumRequests - iterations_received <= RingSize \div 2

(* Nothing is counted but what was received, and at the end only so much   *)
(* is missing.                                                             *)
CountsExactly == CountedIsConsumed /\ TailBound

(* A client with buffers of their own always ends, also with pieces of     *)
(* pages and after the server has closed: every receive, whatever it got,  *)
(* opens the window for another (237).  In STUPID_BUFFER_MODE it may not:  *)
(* if the operation prepared last is a request, completed receives are     *)
(* taken for requests and the window of receives stays full.               *)
AlwaysEnds == ~stupid ~> phase \in Ends
=============================================================================
