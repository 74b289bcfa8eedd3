---------------------------- MODULE UringServer ----------------------------
(***************************************************************************)
(* One worker of io_uring_fast_net_new/src/server.cpp from the moment its  *)
(* set of connections is complete: worker_thread enters handle_connection  *)
(* again and again, on one and the same ring, until the run is over.       *)
(*                                                                         *)
(* Half duplex: pages are pushed to the clients, the first of each buffer  *)
(* with send_zc.  The kernel answers a send_zc that went through with two  *)
(* completions, the result and later a notification whose result is 0.     *)
(* Full duplex: every received request is answered by a send and the next  *)
(* receive.                                                                *)
(*                                                                         *)
(* The acceptor is represented by the flag it clears; how connections get  *)
(* here is the subject of ServerThreads.                                   *)
(***************************************************************************)
EXTENDS Integers, Sequences, SequencesExt, Counting

CONSTANTS
  ConnectionFds,         \* connection_fds[thread_id], a sequence of descriptors
  InflightOps,           \* config.inflight_ops
  QueueDepth,            \* entries of the submission ring
  Modes,                 \* values HALF_DUPLEX_MODE may have
  Scenarios,             \* what goes wrong in a run, and its bounds, together
  MaxPasses              \* bound: calls of handle_connection before the deadline

Uint16 == {n \in Nat : n < 65536}

FaultKinds == {"accept", "submit", "wait", "error"}
ScenarioType ==
  [faults   : SUBSET FaultKinds,
   leaving  : SUBSET Uint16,    \* bound: the connections whose clients may close them
   refusals : Nat,              \* bound: operations completed with -EAGAIN
   messages : Nat]              \* bound: operations answered before the deadline

ASSUME ServerAssumption ==
  /\ ConnectionFds \in Seq(Uint16) /\ ConnectionFds # <<>>
  /\ InflightOps \in Nat \ {0}
  /\ QueueDepth \in Nat \ {0}
  /\ Modes \subseteq BOOLEAN
  /\ Scenarios \subseteq ScenarioType
  /\ MaxPasses \in Nat \ {0}

VARIABLES
  scenario,      \* chosen once
  half_duplex_mode,  \* read from the environment once, never changed
  pc,            \* "outer", "top", "blocked", "leave" (handle_connection), "exited"
  accepting_connections,
  expired,       \* run_duration_seconds have passed since server_start_time
  closed,        \* connections whose client has closed
  sq, kernel, cq,
  inflight,
  message_count, \* of this call, over all connections
  result_total,  \* result.total_message_count
  lastExit,      \* why handle_connection last ended
  passes,        \* calls of handle_connection
  sent, received,\* history: messages counted and requests received, over all calls
  refusals       \* history: operations completed with -EAGAIN

ringVars == <<sq, kernel, cq>>
worldVars == <<scenario, half_duplex_mode, accepting_connections, expired, closed>>
historyVars == <<sent, received, refusals>>
vars == <<scenario, half_duplex_mode, pc, accepting_connections, expired, closed, sq, kernel,
          cq, inflight, message_count, result_total, lastExit, passes, sent, received, refusals>>

Buffers == 0 .. InflightOps - 1
UserData == [buffer_idx : Buffers, is_send : BOOLEAN, fd : Uint16]
Kinds == {"recv", "send", "send_zc", "notif"}
Ops == [data : UserData, kind : Kinds]
Results == {"some", "none", "again", "error"}
Cqes == [data : UserData, res : Results, notif : BOOLEAN]

NumConnections == Len(ConnectionFds)

(* pack_user_data and unpack_user_data around the kernel. *)
UserDataOf(b, send, fd) == [buffer_idx |-> b, is_send |-> send, fd |-> fd % 65536]
FdOf(b) == ConnectionFds[(b % NumConnections) + 1]

Recv(b, fd) == [data |-> UserDataOf(b, FALSE, fd), kind |-> "recv"]
Send(b, fd) == [data |-> UserDataOf(b, TRUE, fd), kind |-> "send"]
SendZc(b, fd) == [data |-> UserDataOf(b, TRUE, fd), kind |-> "send_zc"]

Init ==
  /\ scenario \in Scenarios /\ half_duplex_mode \in Modes
  /\ pc = "outer"
  /\ accepting_connections = TRUE
  /\ expired = FALSE
  /\ closed = {}
  /\ sq = <<>> /\ kernel = <<>> /\ cq = <<>>
  /\ inflight = 0 /\ message_count = 0 /\ result_total = 0
  /\ lastExit = "none" /\ passes = 0
  /\ sent = 0 /\ received = 0 /\ refusals = 0

(***************************************************************************)
(* handle_connection, up to its loop.                                      *)
(***************************************************************************)

Accepted(pending) == IF "submit" \in scenario.faults THEN 0 .. Len(pending) ELSE {Len(pending)}

Submit(pending, k) ==
  /\ kernel' = kernel \o SubSeq(pending, 1, k)
  /\ sq' = SubSeq(pending, k + 1, Len(pending))

(* Seeded fault: one buffer for all receives. *)
FirstOpShared(b) == IF half_duplex_mode THEN SendZc(b, FdOf(b)) ELSE Recv(0, FdOf(b))

FirstOp(b) == IF half_duplex_mode THEN SendZc(b, FdOf(b)) ELSE Recv(b, FdOf(b))

(* Entries the previous call left unsubmitted still occupy the ring.       *)
Free == QueueDepth - Len(sq)
FirstCount == IF InflightOps < Free THEN InflightOps ELSE Free

(* The counters of the call start from zero, the ring does not.  A full    *)
(* ring (sqe NULL) or a failed submit ends the call before its loop; what  *)
(* was prepared stays prepared.                                            *)
EnterHandleConnection ==
  /\ pc = "outer" /\ accepting_connections
  /\ passes < MaxPasses \/ expired
  /\ passes' = passes + 1
  /\ inflight' = FirstCount /\ message_count' = 0
  /\ LET first == [i \in 1 .. FirstCount |-> FirstOp(i - 1)]
     IN  IF first = <<>>
         THEN UNCHANGED <<sq, kernel>> /\ pc' = "leave" /\ lastExit' = "sqe"
         ELSE \E k \in Accepted(sq \o first) :
                /\ Submit(sq \o first, k)
                /\ IF k = 0 THEN pc' = "leave" /\ lastExit' = "submit"
                   ELSE IF FirstCount < InflightOps THEN pc' = "leave" /\ lastExit' = "sqe"
                   ELSE pc' = "top" /\ UNCHANGED lastExit
  /\ UNCHANGED <<worldVars, cq, result_total, historyVars>>

(* worker_thread: the acceptor has stopped. *)
StopWorking ==
  /\ pc = "outer" /\ ~accepting_connections
  /\ pc' = "exited"
  /\ UNCHANGED <<worldVars, ringVars, inflight, message_count, result_total, lastExit,
                 passes, historyVars>>

(***************************************************************************)
(* The event loop.                                                         *)
(***************************************************************************)

Break(why) == pc' = "leave" /\ lastExit' = why

LoopTop ==
  /\ pc = "top"
  /\ expired \/ sent + received < scenario.messages
  /\ IF expired THEN Break("deadline") ELSE pc' = "blocked" /\ UNCHANGED lastExit
  /\ UNCHANGED <<worldVars, ringVars, inflight, message_count, result_total, passes, historyVars>>

(* Seeded fault: a wait without a timeout. *)
WaitForEver == FALSE /\ UNCHANGED vars

(* io_uring_wait_cqe_timeout gives up after a second (ETIME, EINTR).       *)
WaitTimesOut ==
  /\ pc = "blocked" /\ cq = <<>>
  /\ pc' = "top"
  /\ UNCHANGED <<worldVars, ringVars, inflight, message_count, result_total, lastExit,
                 passes, historyVars>>

WaitFails ==
  /\ pc = "blocked" /\ "wait" \in scenario.faults
  /\ Break("wait")
  /\ UNCHANGED <<worldVars, ringVars, inflight, message_count, result_total, passes, historyVars>>

Handling == pc = "blocked" /\ cq # <<>>
Cqe == Head(cq)
SqeAvailable == Len(sq) < QueueDepth

(* io_uring_cqe_seen, io_uring_submit, and the exit test.                  *)
EndIteration(prepared, n) ==
  /\ cq' = Tail(cq)
  /\ inflight' = n
  /\ LET leave == n = 0 /\ ~half_duplex_mode
     IN  IF prepared = <<>>
         THEN /\ UNCHANGED <<sq, kernel>>
              /\ IF leave THEN Break("drained") ELSE pc' = "top" /\ UNCHANGED lastExit
         ELSE \E k \in Accepted(sq \o prepared) :
                /\ Submit(sq \o prepared, k)
                /\ IF k = 0 THEN Break("submit")
                   ELSE IF leave THEN Break("drained")
                   ELSE pc' = "top" /\ UNCHANGED lastExit

(* Leaving the loop without io_uring_cqe_seen: the completion stays first. *)
BreakUnseen(why) ==
  /\ Break(why)
  /\ UNCHANGED <<ringVars, inflight>>

(* -EAGAIN: prepared again; a send always as send_zc. *)
Again(d) == IF d.is_send THEN SendZc(d.buffer_idx, d.fd) ELSE Recv(d.buffer_idx, d.fd)

Resubmit ==
  /\ Handling /\ Cqe.res = "again"
  /\ IF SqeAvailable THEN EndIteration(<<Again(Cqe.data)>>, inflight) ELSE BreakUnseen("sqe")
  /\ UNCHANGED <<worldVars, message_count, result_total, passes, historyVars>>

(* Seeded fault: the completion is marked seen before the break. *)
OperationErrorSeen ==
  /\ Handling /\ Cqe.res = "error"
  /\ Break("error") /\ cq' = Tail(cq)
  /\ UNCHANGED <<worldVars, sq, kernel, inflight, message_count, result_total, passes,
                 historyVars>>

OperationError ==
  /\ Handling /\ Cqe.res = "error"
  /\ BreakUnseen("error")
  /\ UNCHANGED <<worldVars, message_count, result_total, passes, historyVars>>

(* Seeded fault: a refused operation is taken for the end of the stream.   *)
ClosedOnAgain ==
  /\ Handling /\ Cqe.res \in {"none", "again"}
  /\ BreakUnseen("closed")
  /\ UNCHANGED <<worldVars, message_count, result_total, passes, historyVars>>

(* A result of 0 is taken for the end of the stream, whatever it is.       *)
ClosedByClient ==
  /\ Handling /\ Cqe.res = "none"
  /\ BreakUnseen("closed")
  /\ UNCHANGED <<worldVars, message_count, result_total, passes, historyVars>>

Counted == message_count' = message_count + 1 /\ sent' = sent + 1

SendDone ==
  /\ Handling /\ Cqe.res = "some" /\ Cqe.data.is_send
  /\ IF ~half_duplex_mode
     THEN EndIteration(<<>>, inflight - 1) /\ Counted
     ELSE IF SqeAvailable
     THEN EndIteration(<<Send(Cqe.data.buffer_idx, Cqe.data.fd)>>, inflight) /\ Counted
     ELSE BreakUnseen("sqe") /\ UNCHANGED <<message_count, sent>>
  /\ UNCHANGED <<worldVars, result_total, passes, received, refusals>>

(* Seeded fault: only the response is counted. *)
ReceivedInFlightOnce == inflight + 1

(* A request: its response and the buffer's next receive.  The receive     *)
(* that completed is not taken off inflight.                               *)
ReceivedInFlight == inflight + 2

RecvDone ==
  /\ Handling /\ Cqe.res = "some" /\ ~Cqe.data.is_send
  /\ received' = received + 1
  /\ LET b == Cqe.data.buffer_idx
         fd == Cqe.data.fd
     IN  IF half_duplex_mode
         THEN IF SqeAvailable THEN EndIteration(<<Recv(b, fd)>>, inflight)
                              ELSE BreakUnseen("sqe")
         ELSE IF Len(sq) + 1 < QueueDepth
         THEN EndIteration(<<Send(b, fd), Recv(b, fd)>>, ReceivedInFlight)
         ELSE IF SqeAvailable
         THEN /\ Break("sqe")
              /\ sq' = Append(sq, Send(b, fd)) /\ inflight' = inflight + 1
              /\ UNCHANGED <<kernel, cq>>
         ELSE BreakUnseen("sqe")
  /\ UNCHANGED <<worldVars, message_count, result_total, passes, sent, refusals>>

(* Seeded fault: the total of the operations started, not of those counted. *)
LeaveWithInflight ==
  /\ pc = "leave"
  /\ result_total' = message_count + inflight
  /\ pc' = IF expired THEN "exited" ELSE "outer"
  /\ UNCHANGED <<worldVars, ringVars, inflight, message_count, lastExit, passes, historyVars>>

(* The end of handle_connection and the time check of worker_thread.       *)
Leave ==
  /\ pc = "leave"
  /\ result_total' = message_count
  /\ pc' = IF expired THEN "exited" ELSE "outer"
  /\ UNCHANGED <<worldVars, ringVars, inflight, message_count, lastExit, passes, historyVars>>

(***************************************************************************)
(* The kernel, the clients, the clock and the acceptor.                    *)
(***************************************************************************)

Refused == IF refusals < scenario.refusals THEN {"again"} ELSE {}

Outcomes(op) ==
  CASE op.kind = "notif" -> {"none"}
    [] op.kind = "recv" ->
         {IF op.data.fd \in closed THEN "none" ELSE "some"}
           \cup (scenario.faults \cap {"error"}) \cup Refused
    [] OTHER ->
         (IF op.data.fd \in closed THEN {"some", "error"} ELSE {"some"})
           \cup (scenario.faults \cap {"error"}) \cup Refused

(* A send_zc keeps its buffer until the notification that follows its      *)
(* result; a refused one may have a notification too (io_uring_enter.2).   *)
NotificationFollows(op, res) ==
  {more \in BOOLEAN : /\ op.kind # "send_zc" => ~more
                      /\ op.kind = "send_zc" /\ res = "some" => more}

(* The ring is set up with DEFER_TASKRUN, so completions reach it while    *)
(* the worker is in the kernel; nothing looks at cq between two waits.     *)
Complete(i, res) ==
  /\ pc = "blocked"
  /\ i \in DOMAIN kernel /\ res \in Outcomes(kernel[i])
  /\ LET op == kernel[i]
     IN  /\ \E more \in NotificationFollows(op, res) :
              kernel' = IF more THEN [kernel EXCEPT ![i].kind = "notif"]
                                ELSE RemoveAt(kernel, i)
         /\ cq' = Append(cq, [data |-> op.data, res |-> res, notif |-> op.kind = "notif"])
  /\ refusals' = IF res = "again" THEN refusals + 1 ELSE refusals
  /\ UNCHANGED <<worldVars, pc, sq, inflight, message_count, result_total, lastExit, passes,
                 sent, received>>

ClientCloses ==
  /\ \E i \in DOMAIN ConnectionFds :
       /\ ConnectionFds[i] \in scenario.leaving \ closed
       /\ closed' = closed \cup {ConnectionFds[i]}
  /\ UNCHANGED <<scenario, half_duplex_mode, accepting_connections, expired, pc, ringVars,
                 inflight, message_count, result_total, lastExit, passes, historyVars>>

Tick ==
  /\ ~expired /\ expired' = TRUE
  /\ UNCHANGED <<scenario, half_duplex_mode, accepting_connections, closed, pc, ringVars,
                 inflight, message_count, result_total, lastExit, passes, historyVars>>

(* The acceptor has seen the deadline, or accept has failed. *)
AcceptorStops ==
  /\ accepting_connections /\ (expired \/ "accept" \in scenario.faults)
  /\ accepting_connections' = FALSE
  /\ UNCHANGED <<scenario, half_duplex_mode, expired, closed, pc, ringVars, inflight,
                 message_count, result_total, lastExit, passes, historyVars>>

Handle == Resubmit \/ OperationError \/ ClosedByClient \/ SendDone \/ RecvDone

Worker ==
  EnterHandleConnection \/ StopWorking \/ LoopTop \/ WaitTimesOut \/ Handle \/ Leave

Kernel == \E i \in DOMAIN kernel, res \in Results : Complete(i, res)

Environment == pc # "exited" /\ (WaitFails \/ ClientCloses \/ Tick \/ AcceptorStops)

Terminated == pc = "exited" /\ UNCHANGED vars

Next == Worker \/ Kernel \/ Environment \/ Terminated

Spec == Init /\ [][Next]_vars

(* The worker is scheduled, a wait ends within its second, time passes.    *)
FairSpec == Spec /\ WF_vars(Worker) /\ WF_vars(pc # "exited" /\ Tick)

(***************************************************************************)
(* Properties.                                                             *)
(***************************************************************************)

TypeOK ==
  /\ scenario \in ScenarioType /\ half_duplex_mode \in BOOLEAN
  /\ pc \in {"outer", "top", "blocked", "leave", "exited"}
  /\ accepting_connections \in BOOLEAN /\ expired \in BOOLEAN
  /\ closed \subseteq Uint16
  /\ sq \in Seq(Ops) /\ kernel \in Seq(Ops) /\ cq \in Seq(Cqes)
  /\ inflight \in Int
  /\ message_count \in Nat /\ result_total \in Nat /\ passes \in Nat
  /\ sent \in Nat /\ received \in Nat /\ refusals \in Nat
  /\ lastExit \in {"none", "sqe", "submit", "deadline", "wait", "drained", "error", "closed"}

InLoop == pc \in {"top", "blocked"}

(* The operations in the ring that are in the set T, those completed being *)
(* the completions in C.                                                   *)
InRing(T, C) == Count(sq, T) + Count(kernel, T) + Count(cq, C)

(* Operations in the ring other than notifications. *)
LiveOps == {op \in Ops : op.kind # "notif"}
LiveCqes == {cqe \in Cqes : ~cqe.notif}
Live == InRing(LiveOps, LiveCqes)

(* What inflight counts while the first call runs: in half duplex the      *)
(* operations of the buffers, in full duplex those and every request       *)
(* received so far, because a completed receive is never taken off         *)
(* (server.cpp:540, 553 against 450).                                      *)
InflightWhileFirst ==
  InLoop /\ passes = 1 =>
    inflight = IF half_duplex_mode THEN Live ELSE Live + received

(* So the exit for an idle ring (server.cpp:572) cannot be taken by the    *)
(* first call; later calls start counting from zero on a ring that still   *)
(* holds operations, and can.                                              *)
InflightAccounting ==
  TypeOK /\ InflightWhileFirst /\ (lastExit = "drained" => passes > 1)

(* In the first call a buffer waits for at most one request, so two        *)
(* receives never fill the same four bytes.                                *)
ReceiveOps(b) == {op \in Ops : op.kind = "recv" /\ op.data.buffer_idx = b}
ReceiveCqes(b) == {cqe \in Cqes : ~cqe.data.is_send /\ cqe.data.buffer_idx = b}
OneReceivePerBuffer ==
  passes = 1 => \A b \in Buffers : InRing(ReceiveOps(b), ReceiveCqes(b)) <= 1

(* An end of stream or an error that has become the first completion stays *)
(* the first completion for good: every later call of handle_connection    *)
(* meets it again and returns, so one client that closes ends the service  *)
(* of all connections of the worker (server.cpp:419-437, 621-643).         *)
Fatal(cqe) == cqe.res \in {"none", "error"}
LossIsNeverConsumed ==
  [][cq # <<>> /\ Fatal(Head(cq)) => cq' # <<>> /\ Head(cq') = Head(cq)]_vars

(* The total reported at the end is what was served, if handle_connection  *)
(* was called once: every call starts the total anew (server.cpp:578).     *)
ReportCoversOneCall == pc = "exited" /\ passes = 1 => result_total = sent

(* "Connection closed by client on fd ..." (server.cpp:434) is printed for *)
(* a connection whose client has closed it.                                *)
ClosedMeansClosed == lastExit = "closed" => Head(cq).data.fd \in closed

(* What the message does mean: the stream has ended or the buffer of a     *)
(* send_zc has been released (its first send in half duplex, a send        *)
(* prepared again after -EAGAIN in both modes).                            *)
ClosedMeansClosedOrReleased ==
  lastExit = "closed" => Head(cq).notif \/ Head(cq).data.fd \in closed

(* The worker ends after the deadline whatever the clients do: the wait    *)
(* has a timeout, and every return from handle_connection checks the time, *)
(* also when the worker is caught in calls that return at once.            *)
DeadlineEndsWorker == expired ~> pc = "exited"
============================================================================
