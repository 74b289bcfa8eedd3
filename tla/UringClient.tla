---------------------------- MODULE UringClient ----------------------------
(***************************************************************************)
(* One thread of the load generator io_uring_fast_net_new/src/client.cpp:  *)
(* it connects its sockets, fills the ring with one operation per buffer,  *)
(* then answers every completion with the next operation of that buffer    *)
(* until the run's duration is over.                                       *)
(*                                                                         *)
(* Half duplex: the server streams pages, every operation is a read.       *)
(* Full duplex: a buffer alternates a send (the request) and a recv (the   *)
(* response).                                                              *)
(*                                                                         *)
(* The ring is three queues: sq holds the prepared submissions, kernel the *)
(* operations under way (completed in any order), cq the completions the   *)
(* thread has not yet marked seen.  The threads of the client share only   *)
(* the start time, so one thread is the whole concurrency: thread, kernel, *)
(* peer and clock.                                                         *)
(***************************************************************************)
EXTENDS Integers, Sequences, SequencesExt, Counting

CONSTANTS
  Fds,                   \* descriptors socket() can return
  ConnectionsPerThread,
  InflightOps,           \* config.inflight_ops, already scaled by load_from_env
  QueueDepth,            \* entries of the submission ring
  Modes,                 \* values HALF_DUPLEX_MODE may have, a subset of BOOLEAN
  Faults,                \* what may go wrong, a subset of FaultKinds
  MaxRequests            \* bound: requests completed before the deadline

Uint16 == {n \in Nat : n < 65536}

FaultKinds == {"connect", "setup", "submit", "wait", "again", "error"}

ASSUME ClientAssumption ==
  /\ Fds \subseteq Uint16
  /\ ConnectionsPerThread \in Nat \ {0}
  /\ InflightOps \in Nat \ {0}
  /\ QueueDepth \in Nat \ {0}
  /\ Modes \subseteq BOOLEAN
  /\ Faults \subseteq FaultKinds
  /\ MaxRequests \in Nat

VARIABLES
  half_duplex_mode,  \* read from the environment once, never changed
  pc,            \* "connect", "wait", "top", "blocked" (in io_uring_wait_cqe), "done"
  attempts,      \* iterations of the connect loop
  connections,   \* the thread's vector of connected sockets
  expired,       \* the clock has passed run_duration_seconds
  late,          \* elapsed_seconds >= run_duration_seconds, as last read at the loop top
  closed,        \* sockets whose stream has reached its end (the peer closed)
  sq, kernel, cq,
  inflight,
  total_requests_completed,
  exit           \* why the thread stopped

clientVars == <<half_duplex_mode, attempts, connections>>
ringVars == <<sq, kernel, cq>>
countVars == <<inflight, total_requests_completed>>
vars == <<half_duplex_mode, pc, attempts, connections, expired, late, closed, sq, kernel, cq,
          inflight, total_requests_completed, exit>>

Buffers == 0 .. InflightOps - 1
UserData == [buffer_idx : Buffers, is_send : BOOLEAN, fd : Uint16]
Results == {"ok", "again", "closed", "error"}
Cqes == [data : UserData, res : Results]

(* Seeded fault: three bits for the descriptor. *)
PackUserDataNarrow(b, send, fd) ==
  [buffer_idx |-> b, is_send |-> send, fd |-> fd % 8]

(* What pack_user_data and unpack_user_data keep of an operation: the      *)
(* descriptor is cut to 16 bits.                                           *)
PackUserData(b, send, fd) ==
  [buffer_idx |-> b, is_send |-> send, fd |-> fd % 65536]

(* Seeded fault: the first loop ignores a full ring. *)
StartedUnchecked == InflightOps

(* The number of operations the first loop prepares: io_uring_get_sqe      *)
(* returns NULL once the ring is full, and the loop breaks.                *)
Started == IF InflightOps < QueueDepth THEN InflightOps ELSE QueueDepth

(* Operations of the thread that have not been marked seen. *)
Outstanding == Len(sq) + Len(kernel) + Len(cq)

Init ==
  /\ half_duplex_mode \in Modes
  /\ pc = "connect"
  /\ attempts = 0
  /\ connections = <<>>
  /\ expired = FALSE
  /\ late = FALSE
  /\ closed = {}
  /\ sq = <<>> /\ kernel = <<>> /\ cq = <<>>
  /\ inflight = 0
  /\ total_requests_completed = 0
  /\ exit = "running"

(***************************************************************************)
(* Setting up.                                                             *)
(***************************************************************************)

(* One iteration of the connect loop; a failed socket() or connect() only  *)
(* continues, so the vector ends up shorter.                               *)
Connect ==
  /\ pc = "connect" /\ attempts < ConnectionsPerThread
  /\ attempts' = attempts + 1
  /\ \/ \E fd \in {f \in Fds : \A i \in DOMAIN connections : connections[i] # f} :
          connections' = Append(connections, fd)
     \/ "connect" \in Faults /\ UNCHANGED connections
  /\ UNCHANGED <<half_duplex_mode, pc, expired, late, closed, ringVars, countVars, exit>>

(* setup_io_uring and setup_buffers; when either fails the thread returns  *)
(* or the process exits.                                                   *)
Setup ==
  /\ pc = "connect" /\ attempts = ConnectionsPerThread
  /\ \/ pc' = "wait" /\ UNCHANGED exit
     \/ "setup" \in Faults /\ pc' = "done" /\ exit' = "setup"
  /\ UNCHANGED <<clientVars, expired, late, closed, ringVars, countVars>>

(* Nothing else ever extends this thread's own vector: when a connect has  *)
(* failed this loop only sleeps.                                           *)
AwaitConnections ==
  /\ pc = "wait" /\ Len(connections) < ConnectionsPerThread
  /\ UNCHANGED vars

(* io_uring_submit hands the first k prepared entries to the kernel: all   *)
(* of them, or fewer when it fails (k = 0) or stops early.                 *)
Accepted(pending) == IF "submit" \in Faults THEN 0 .. Len(pending) ELSE {Len(pending)}

Submit(pending, k) ==
  /\ kernel' = kernel \o SubSeq(pending, 1, k)
  /\ sq' = SubSeq(pending, k + 1, Len(pending))

(* Buffer b belongs to connection b % num_connections. *)
FdOf(b) == connections[(b % Len(connections)) + 1]
(* Seeded fault: the connection's index taken for the buffer's. *)
FirstOpByConnection(b) ==
  PackUserData(b % ConnectionsPerThread, ~half_duplex_mode, FdOf(b))

FirstOp(b) == PackUserData(b, ~half_duplex_mode, FdOf(b))

Start ==
  /\ pc = "wait" /\ Len(connections) >= ConnectionsPerThread
  /\ LET first == [i \in 1 .. Started |-> FirstOp(i - 1)]
     IN  \E k \in Accepted(first) : Submit(first, k)
  /\ inflight' = Started
  /\ pc' = "top"
  /\ UNCHANGED <<clientVars, expired, late, closed, cq, total_requests_completed, exit>>

(***************************************************************************)
(* The event loop.                                                         *)
(***************************************************************************)

(* The clock is read once per iteration, before io_uring_wait_cqe blocks. *)
LoopTop ==
  /\ pc = "top"
  /\ expired \/ total_requests_completed < MaxRequests
  /\ late' = expired
  /\ IF expired /\ inflight = 0
     THEN pc' = "done" /\ exit' = "deadline"
     ELSE pc' = "blocked" /\ UNCHANGED exit
  /\ UNCHANGED <<clientVars, expired, closed, ringVars, countVars>>

(* io_uring_wait_cqe is given no timeout; any error, EINTR too, breaks. *)
WaitFails ==
  /\ pc = "blocked" /\ "wait" \in Faults
  /\ pc' = "done" /\ exit' = "wait"
  /\ UNCHANGED <<clientVars, expired, late, closed, ringVars, countVars>>

Handling == pc = "blocked" /\ cq # <<>>
Cqe == Head(cq)
SqeAvailable == Len(sq) < QueueDepth

(* A break out of the loop leaves the completion unseen. *)
Break(why) ==
  /\ pc' = "done" /\ exit' = why
  /\ UNCHANGED ringVars

(* The end of an iteration: mark the completion seen, submit if something  *)
(* was prepared, leave when the deadline has passed with inflight n = 0.   *)
LeaveOrLoop(n) ==
  IF n = 0 /\ late THEN pc' = "done" /\ exit' = "deadline"
                   ELSE pc' = "top" /\ UNCHANGED exit

EndIteration(prepared, n) ==
  /\ cq' = Tail(cq)
  /\ inflight' = n
  /\ IF prepared = <<>>
     THEN UNCHANGED <<sq, kernel>> /\ LeaveOrLoop(n)
     ELSE \E k \in Accepted(sq \o prepared) :
            /\ Submit(sq \o prepared, k)
            /\ IF k = 0 THEN pc' = "done" /\ exit' = "submit" ELSE LeaveOrLoop(n)

(* io_uring_get_sqe, then the operation that follows on the same buffer. *)
PrepareNext(op, n) ==
  IF SqeAvailable THEN EndIteration(<<op>>, n)
                  ELSE Break("sqe") /\ UNCHANGED inflight

(* -EAGAIN: the same operation is prepared again. *)
Resubmit ==
  /\ Handling /\ Cqe.res = "again"
  /\ PrepareNext(Cqe.data, inflight)
  /\ UNCHANGED <<clientVars, expired, late, closed, total_requests_completed>>

(* An error, or a result of 0: the stream has ended. *)
ConnectionLost ==
  /\ Handling /\ Cqe.res \in {"error", "closed"}
  /\ inflight' = inflight - 1
  /\ Break("lost")
  /\ UNCHANGED <<clientVars, expired, late, closed, total_requests_completed>>

Reply(op) == PackUserData(op.buffer_idx, FALSE, op.fd)
Request(op) == PackUserData(op.buffer_idx, ~half_duplex_mode, op.fd)

(* A request is on its way: its response is awaited in the same buffer.    *)
(* (In half duplex no send is ever prepared; the code reports one.)        *)
SendDone ==
  /\ Handling /\ Cqe.res = "ok" /\ Cqe.data.is_send
  /\ IF half_duplex_mode THEN EndIteration(<<>>, inflight)
                         ELSE PrepareNext(Reply(Cqe.data), inflight)
  /\ UNCHANGED <<clientVars, expired, late, closed, total_requests_completed>>

(* Seeded fault: the next request is always counted. *)
RequestedInFlightAlways == inflight + 1

(* A page has come in before the deadline: the buffer asks for the next.   *)
(* A full-duplex send is counted in flight although the receive it follows *)
(* is not taken off.                                                       *)
RequestedInFlight == IF half_duplex_mode THEN inflight ELSE inflight + 1

RecvEarly ==
  /\ Handling /\ Cqe.res = "ok" /\ ~Cqe.data.is_send /\ ~late
  /\ total_requests_completed' = total_requests_completed + 1
  /\ PrepareNext(Request(Cqe.data), RequestedInFlight)
  /\ UNCHANGED <<clientVars, expired, late, closed>>

(* Seeded faults: the deadline is ignored; the retired buffer stays counted. *)
RecvLateRequests ==
  /\ Handling /\ Cqe.res = "ok" /\ ~Cqe.data.is_send /\ late
  /\ total_requests_completed' = total_requests_completed + 1
  /\ PrepareNext(Request(Cqe.data), inflight)
  /\ UNCHANGED <<clientVars, expired, late, closed>>

RecvLateStillCounted ==
  /\ Handling /\ Cqe.res = "ok" /\ ~Cqe.data.is_send /\ late
  /\ total_requests_completed' = total_requests_completed + 1
  /\ EndIteration(<<>>, inflight)
  /\ UNCHANGED <<clientVars, expired, late, closed>>

(* A page has come in after the deadline: the buffer is retired. *)
RecvLate ==
  /\ Handling /\ Cqe.res = "ok" /\ ~Cqe.data.is_send /\ late
  /\ total_requests_completed' = total_requests_completed + 1
  /\ EndIteration(<<>>, inflight - 1)
  /\ UNCHANGED <<clientVars, expired, late, closed>>

(***************************************************************************)
(* The kernel, the peer and the clock.                                     *)
(***************************************************************************)

Outcomes(op) ==
  (IF op.is_send \/ op.fd \notin closed THEN {"ok"} ELSE {"closed"})
    \cup (Faults \cap {"again", "error"})

Complete(i, res) ==
  /\ i \in DOMAIN kernel
  /\ res \in Outcomes(kernel[i])
  /\ kernel' = RemoveAt(kernel, i)
  /\ cq' = Append(cq, [data |-> kernel[i], res |-> res])
  /\ UNCHANGED <<clientVars, pc, expired, late, closed, sq, countVars, exit>>

PeerCloses ==
  /\ \E i \in DOMAIN connections :
       connections[i] \notin closed /\ closed' = closed \cup {connections[i]}
  /\ UNCHANGED <<clientVars, pc, expired, late, ringVars, countVars, exit>>

Tick ==
  /\ ~expired /\ expired' = TRUE
  /\ UNCHANGED <<clientVars, pc, late, closed, ringVars, countVars, exit>>

Handle == Resubmit \/ ConnectionLost \/ SendDone \/ RecvEarly \/ RecvLate

Thread == Connect \/ Setup \/ AwaitConnections \/ Start \/ LoopTop \/ Handle

Kernel == pc # "done" /\ \E i \in DOMAIN kernel, res \in Results : Complete(i, res)

Environment == pc # "done" /\ (PeerCloses \/ Tick \/ WaitFails)

Terminated == pc = "done" /\ UNCHANGED vars

Next == Thread \/ Kernel \/ Environment \/ Terminated

Spec == Init /\ [][Next]_vars

(* The thread is scheduled, time passes, and an operation is not answered  *)
(* with -EAGAIN for ever while it could be finished.                       *)
Finish == pc # "done" /\ \E i \in DOMAIN kernel : Complete(i, "ok") \/ Complete(i, "closed")

Fairness ==
  /\ WF_vars(Thread)
  /\ WF_vars(pc # "done" /\ Tick)
  /\ SF_vars(Finish)

FairSpec == Spec /\ Fairness

(***************************************************************************)
(* Properties.                                                             *)
(***************************************************************************)

TypeOK ==
  /\ half_duplex_mode \in BOOLEAN
  /\ pc \in {"connect", "wait", "top", "blocked", "done"}
  /\ attempts \in 0 .. ConnectionsPerThread
  /\ connections \in Seq(Fds)
  /\ expired \in BOOLEAN /\ late \in BOOLEAN
  /\ closed \subseteq Fds
  /\ sq \in Seq(UserData) /\ kernel \in Seq(UserData) /\ cq \in Seq(Cqes)
  /\ inflight \in Int
  /\ total_requests_completed \in Nat
  /\ exit \in {"running", "setup", "wait", "sqe", "submit", "lost", "deadline"}

InLoop == pc \in {"top", "blocked"}

(* What inflight counts while the event loop runs: in half duplex exactly  *)
(* the operations not yet seen; in full duplex also every response that    *)
(* came before the deadline, because its receive is never taken off        *)
(* (client.cpp:298-313 against 314-316).                                   *)
InflightAccounting ==
  InLoop => inflight = IF half_duplex_mode
                       THEN Outstanding
                       ELSE 2 * Outstanding + total_requests_completed - Started

(* The operations known to the ring, wherever they are. *)
AllOps == sq \o kernel \o [i \in DOMAIN cq |-> cq[i].data]

(* A buffer is in at most one operation, so no page is received into a     *)
(* buffer that another receive or send is using.                           *)
OneOpPerBuffer ==
  \A i, j \in DOMAIN AllOps :
    AllOps[i].buffer_idx = AllOps[j].buffer_idx => i = j

(* The descriptor a completion carries is that of the connection its       *)
(* buffer was given at the start: user_data survives the 16-bit packing    *)
(* and every re-submission.                                                *)
BufferKeepsConnection ==
  \A i \in DOMAIN AllOps :
    AllOps[i].fd = connections[(AllOps[i].buffer_idx % ConnectionsPerThread) + 1]

(* The operations that are as they should be: the one above, said element  *)
(* by element, and that half duplex has no sends.                          *)
OwnedOps ==
  {op \in UserData :
     /\ connections # <<>> =>
          op.fd = connections[(op.buffer_idx % ConnectionsPerThread) + 1]
     /\ half_duplex_mode => ~op.is_send}

(* Whenever a completion is handled a submission entry is free, also after *)
(* a short submit and with more buffers than ring entries: the NULL checks *)
(* in the event loop (client.cpp:239, 279, 300) never end a run early.     *)
SqeAlwaysAvailable == Handling => SqeAvailable

(* The requests among them: sends, or in half duplex reads. *)
RequestOps == {op \in UserData : op.is_send = ~half_duplex_mode}
Requests == Count(AllOps, RequestOps)

(* Once the loop has seen the deadline it only drains: no step adds an     *)
(* operation, and no response is turned into a request.                    *)
NoRequestAfterDeadline ==
  [][late => Outstanding' <= Outstanding /\ Requests' <= Requests]_vars

(* Leaving by the deadline leaves nothing behind in the ring; and in full  *)
(* duplex it is possible only when no response at all came before the      *)
(* deadline: each of the first requests was then the buffer's last.        *)
CleanExit ==
  exit = "deadline" =>
    /\ Outstanding = 0
    /\ half_duplex_mode \/ total_requests_completed = Started

(* The inductive invariant behind the four above.  Before the loop the     *)
(* ring is empty; in the loop no operation is ever added to the first      *)
(* Started ones, and a buffer is missing only if it completed a request.   *)
ClientInv ==
  /\ TypeOK
  /\ sq \in Seq(OwnedOps) /\ kernel \in Seq(OwnedOps)
  /\ cq \in Seq([data : OwnedOps, res : Results])
  /\ pc = "connect" => Len(connections) <= attempts
  /\ pc = "wait" => Len(connections) <= ConnectionsPerThread
  /\ pc \in {"connect", "wait"} \/ exit = "setup" =>
       sq = <<>> /\ kernel = <<>> /\ cq = <<>> /\ total_requests_completed = 0
  /\ pc \notin {"connect", "wait"} /\ exit # "setup" =>
       Len(connections) = ConnectionsPerThread
  /\ InflightAccounting
  /\ InLoop => /\ Outstanding <= Started
               /\ Outstanding + total_requests_completed >= Started
  /\ exit = "running" <=> pc # "done"
  /\ CleanExit

(* A half-duplex thread ends after the deadline although it waits for      *)
(* completions without a timeout.  Only a connection that could not be     *)
(* opened (client.cpp:170) or an operation left unsubmitted by a failed or *)
(* short io_uring_submit (client.cpp:206-212) keeps it.                    *)
HalfDuplexEnds ==
  half_duplex_mode /\ expired ~> pc \in {"wait", "done"} \/ sq # <<>>

(* client.cpp:218 announces "Time limit reached. Client thread ... exiting *)
(* loop": a thread whose connections all opened ends after the deadline.   *)
DeadlineEndsThread == expired ~> pc = "done"
============================================================================
