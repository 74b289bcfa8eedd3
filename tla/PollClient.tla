----------------------------- MODULE PollClient -----------------------------
(***************************************************************************)
(* The threads of io_uring_fast_net_new/src/client_s.cpp, the poll(2)      *)
(* variant of the client.  Each thread opens its sockets, then polls them: *)
(* a page that comes in allows the connection its next request, a failed   *)
(* recv or send closes the connection, and after the deadline everything   *)
(* is closed.                                                              *)
(*                                                                         *)
(* What the threads share is the descriptor table of the process: socket() *)
(* returns the lowest free number, and a number that a thread has closed   *)
(* may be another thread's socket by the time it is used again.  So every  *)
(* system call is a step, and descriptors are told from sockets.           *)
(***************************************************************************)
EXTENDS Integers, Sequences

CONSTANTS
  Threads,               \* the client threads
  ConnectionsPerThread,
  Fds,                   \* the numbers free when the threads start
  Faults,                \* what may go wrong, a subset of FaultKinds
  MaxPasses              \* bound: passes over the sockets before the deadline

FaultKinds == {"connect", "setup", "poll", "lost"}

ASSUME PollClientAssumption ==
  /\ ConnectionsPerThread \in Nat \ {0}
  /\ Fds \subseteq Nat /\ Fds # {}
  /\ Faults \subseteq FaultKinds
  /\ MaxPasses \in Nat

VARIABLES
  table,                 \* open descriptors of the process: number -> socket
  connected,             \* sockets on which connect() has succeeded
  lost,                  \* connections the server has closed, or that were reset
  expired,               \* run_duration_seconds have passed since client_start_time
  pc,                    \* per thread, the next system call; "killed" by SIGPIPE
  i,                     \* per thread, the loop variable of the loop it is in
  fd,                    \* per thread, sock_fd or conn_fd of that loop
  connections,           \* per thread, its descriptors, -1 for a closed one; poll_fds
                         \* is set in the same places to the same values
  revents,               \* per thread, what poll() has returned
  is_sending,            \* per thread and connection: a request may be sent
  passes,                \* history: calls of poll() per thread
  unanswered,            \* history: requests sent on a socket since its last page
  foreign,               \* history: some thread has used another thread's socket
  earlyLoss              \* history: a connection was lost while threads were connecting

netVars == <<connected, lost, expired>>
localVars == <<i, fd, connections, revents, is_sending, passes>>
historyVars == <<unanswered, foreign, earlyLoss>>
vars == <<table, connected, lost, expired, pc, i, fd, connections, revents, is_sending,
          passes, unanswered, foreign, earlyLoss>>

Sockets == Threads \X (1 .. ConnectionsPerThread)
Owner(s) == s[1]
NoFd == -1

Init ==
  /\ table = <<>> /\ connected = {} /\ lost = {} /\ expired = FALSE
  /\ pc = [t \in Threads |-> "socket"]
  /\ i = [t \in Threads |-> 1] /\ fd = [t \in Threads |-> NoFd]
  /\ connections = [t \in Threads |-> <<>>]
  /\ revents = [t \in Threads |-> <<>>] /\ is_sending = [t \in Threads |-> <<>>]
  /\ passes = [t \in Threads |-> 0]
  /\ unanswered = [s \in Sockets |-> 0] /\ foreign = FALSE /\ earlyLoss = FALSE

Goto(t, label) == pc' = [pc EXCEPT ![t] = label]
Advance(t) == i' = [i EXCEPT ![t] = @ + 1]
NumConnections(t) == Len(connections[t])
Connecting(t) == pc[t] \in {"socket", "connect", "close_unconnected"}

Open(f) == f \in DOMAIN table
Whole(f) == Open(f) /\ table[f] \notin lost
Connected(f) == Open(f) /\ table[f] \in connected
Usable(f) == Whole(f) /\ Connected(f)

(* The history that a system call of t on number f leaves. *)
Uses(t, f) == foreign' = (foreign \/ (Open(f) /\ Owner(table[f]) # t))

(* Of a number that is not open close() only says EBADF. *)
Close(t, f) ==
  /\ Uses(t, f)
  /\ table' = [g \in DOMAIN table \ {f} |-> table[g]]

(***************************************************************************)
(* client_thread: connecting.                                              *)
(***************************************************************************)

LowestFree == CHOOSE f \in Fds \ DOMAIN table : \A g \in Fds \ DOMAIN table : f <= g

OpensMore(t) == i[t] <= ConnectionsPerThread

(* A failed socket() only continues the loop. *)
Socket(t) ==
  /\ pc[t] = "socket" /\ OpensMore(t)
  /\ \/ /\ Fds \ DOMAIN table # {}
        /\ fd' = [fd EXCEPT ![t] = LowestFree]
        /\ table' = [f \in DOMAIN table \cup {LowestFree} |->
                       IF f = LowestFree THEN <<t, i[t]>> ELSE table[f]]
        /\ Goto(t, "connect") /\ UNCHANGED i
     \/ /\ Fds \subseteq DOMAIN table \/ "connect" \in Faults
        /\ Advance(t) /\ UNCHANGED <<fd, table, pc>>
  /\ UNCHANGED <<netVars, connections, revents, is_sending, passes, historyVars>>

Connectable(f) == Open(f) /\ ~Connected(f)

(* The socket connects (or EINPROGRESS), unless the number has been closed *)
(* meanwhile or the socket it now denotes has been connected already.      *)
Connect(t) ==
  /\ pc[t] = "connect" /\ Uses(t, fd[t])
  /\ \/ /\ Connectable(fd[t])
        /\ connected' = connected \cup {table[fd[t]]}
        /\ connections' = [connections EXCEPT ![t] = Append(@, fd[t])]
        /\ Advance(t) /\ Goto(t, "socket")
     \/ /\ ~Connectable(fd[t]) \/ "connect" \in Faults
        /\ Goto(t, "close_unconnected")
        /\ UNCHANGED <<i, connected, connections>>
  /\ UNCHANGED <<table, lost, expired, fd, revents, is_sending, passes, unanswered,
                 earlyLoss>>

(* Seeded fault: the descriptor is kept although its connect failed. *)
CloseUnconnectedKept(t) ==
  /\ pc[t] = "close_unconnected"
  /\ Close(t, fd[t])
  /\ connections' = [connections EXCEPT ![t] = Append(@, fd[t])]
  /\ Advance(t) /\ Goto(t, "socket")
  /\ UNCHANGED <<netVars, fd, revents, is_sending, passes, unanswered, earlyLoss>>

CloseUnconnected(t) ==
  /\ pc[t] = "close_unconnected"
  /\ Close(t, fd[t])
  /\ Advance(t) /\ Goto(t, "socket")
  /\ UNCHANGED <<netVars, fd, connections, revents, is_sending, passes, unanswered,
                 earlyLoss>>

(* The top of the event loop. *)
TestTime(t) == Goto(t, IF expired THEN "cleanup" ELSE "poll")

(* setup_buffers, and the locals of client_handle_connection; a thread     *)
(* without buffers closes its sockets.                                     *)
Setup(t) ==
  /\ pc[t] = "socket" /\ ~OpensMore(t)
  /\ i' = [i EXCEPT ![t] = 1] /\ fd' = [fd EXCEPT ![t] = NoFd]
  /\ is_sending' = [is_sending EXCEPT ![t] = [n \in 1 .. NumConnections(t) |-> TRUE]]
  /\ TestTime(t) \/ ("setup" \in Faults /\ Goto(t, "cleanup"))
  /\ UNCHANGED <<netVars, table, connections, revents, passes, historyVars>>

(***************************************************************************)
(* client_handle_connection.                                               *)
(***************************************************************************)

(* poll() reports nothing of -1, POLLNVAL of a number that is not open;    *)
(* the end of a stream, and an error, can be read; a socket that is not    *)
(* connected yet is only said to have hung up and to take output.          *)
Events(f) ==
  CASE ~Open(f) -> {{}}
    [] Open(f) /\ ~Whole(f) -> {{"in"}, {"in", "out"}}
    [] Whole(f) /\ ~Connected(f) -> {{"out"}}
    [] OTHER -> SUBSET {"in", "out"}

(* Seeded fault: poll() without a timeout. *)
ReportedSomething(t) ==
  {r \in [1 .. NumConnections(t) -> SUBSET {"in", "out"}] :
     /\ \A n \in DOMAIN r : r[n] \in Events(connections[t][n])
     /\ \E n \in DOMAIN r : r[n] # {}}

(* At the latest after a second poll() returns, if need be without events. *)
Reported(t) ==
  {r \in [1 .. NumConnections(t) -> SUBSET {"in", "out"}] :
     \A n \in DOMAIN r : r[n] \in Events(connections[t][n])}

Poll(t) ==
  /\ pc[t] = "poll"
  /\ expired \/ passes[t] < MaxPasses
  /\ \E r \in Reported(t) : revents' = [revents EXCEPT ![t] = r]
  /\ passes' = [passes EXCEPT ![t] = @ + 1]
  /\ Goto(t, "recv")
  /\ UNCHANGED <<netVars, table, i, fd, connections, is_sending, historyVars>>

PollFails(t) ==
  /\ pc[t] = "poll" /\ "poll" \in Faults
  /\ Goto(t, "cleanup")
  /\ UNCHANGED <<netVars, table, localVars, historyVars>>

(* The end of the loop over the connections: its locals are forgotten. *)
EndPass(t) ==
  /\ pc[t] = "recv" /\ i[t] > NumConnections(t)
  /\ i' = [i EXCEPT ![t] = 1] /\ fd' = [fd EXCEPT ![t] = NoFd]
  /\ revents' = [revents EXCEPT ![t] = <<>>]
  /\ TestTime(t)
  /\ UNCHANGED <<netVars, table, connections, is_sending, passes, historyVars>>

ConnFd(t) == connections[t][i[t]]
MayReceive(t) == "in" \in revents[t][i[t]]
MaySend(t) == "out" \in revents[t][i[t]] /\ is_sending[t][i[t]]
SetSending(t, b) == is_sending' = [is_sending EXCEPT ![t][i[t]] = b]

(* A page, or any part of one, allows the next request, EAGAIN nothing.    *)
(* What came before the end of a stream can still be read.                 *)
Recv(t) ==
  /\ pc[t] = "recv" /\ i[t] <= NumConnections(t)
  /\ fd' = [fd EXCEPT ![t] = ConnFd(t)]
  /\ IF ~MayReceive(t) THEN Goto(t, "send") /\ UNCHANGED <<is_sending, unanswered, foreign>>
     ELSE /\ Uses(t, ConnFd(t))
          /\ \/ /\ Connected(ConnFd(t)) /\ SetSending(t, TRUE)
                /\ unanswered' = [unanswered EXCEPT ![table[ConnFd(t)]] = 0]
                /\ Goto(t, "send")
             \/ /\ Usable(ConnFd(t)) /\ Goto(t, "send")
                /\ UNCHANGED <<is_sending, unanswered>>
             \/ /\ ~Usable(ConnFd(t)) /\ Goto(t, "close_lost")
                /\ UNCHANGED <<is_sending, unanswered>>
  /\ UNCHANGED <<netVars, table, i, connections, revents, passes, earlyLoss>>

Forget(t) == connections' = [connections EXCEPT ![t][i[t]] = NoFd]

(* Seeded fault: the descriptor is forgotten, not closed. *)
ForgetOnly(t) == UNCHANGED <<table, foreign>> /\ Forget(t)

CloseAndForget(t) == Close(t, fd[t]) /\ Forget(t)

(* After a failed recv.  The pass over this connection is not over: its    *)
(* POLLOUT is still looked at, with the same conn_fd.                      *)
CloseLost(t) ==
  /\ pc[t] = "close_lost"
  /\ CloseAndForget(t)
  /\ earlyLoss' = (earlyLoss \/ \E u \in Threads \ {t} : Connecting(u))
  /\ Goto(t, "send")
  /\ UNCHANGED <<netVars, i, fd, revents, is_sending, passes, unanswered>>

(* Seeded fault: the flag is not cleared. *)
KeepSending(t) == UNCHANGED is_sending

AwaitPage(t) == SetSending(t, FALSE)

NextConnection(t) == Advance(t) /\ Goto(t, "recv")

(* A send goes through, also the first ones after the peer has closed; or  *)
(* it gives EAGAIN, or an error.  On a socket that is not connected yet,   *)
(* or that has ended and said so, it raises SIGPIPE: no flag and no        *)
(* handler prevents it.                                                    *)
Send(t) ==
  /\ pc[t] = "send"
  /\ IF ~MaySend(t)
     THEN NextConnection(t) /\ UNCHANGED <<is_sending, unanswered, foreign>>
     ELSE /\ Uses(t, fd[t])
          /\ \/ /\ Connected(fd[t])
                /\ unanswered' = [unanswered EXCEPT ![table[fd[t]]] = @ + 1]
                /\ AwaitPage(t) /\ NextConnection(t)
             \/ /\ Usable(fd[t])
                /\ NextConnection(t) /\ UNCHANGED <<is_sending, unanswered>>
             \/ /\ ~Whole(fd[t]) /\ Goto(t, "close_broken")
                /\ UNCHANGED <<i, is_sending, unanswered>>
             \/ /\ Open(fd[t]) /\ ~Usable(fd[t])
                /\ pc' = [u \in Threads |-> "killed"]
                /\ UNCHANGED <<i, is_sending, unanswered>>
  /\ UNCHANGED <<netVars, table, fd, connections, revents, passes, earlyLoss>>

CloseBroken(t) ==
  /\ pc[t] = "close_broken"
  /\ CloseAndForget(t) /\ NextConnection(t)
  /\ UNCHANGED <<netVars, fd, revents, is_sending, passes, unanswered, earlyLoss>>

(* client_thread closes what is left; close(-1) fails. *)
Cleanup(t) ==
  /\ pc[t] = "cleanup"
  /\ IF i[t] > NumConnections(t)
     THEN Goto(t, "done") /\ UNCHANGED <<table, i, foreign>>
     ELSE Close(t, connections[t][i[t]]) /\ Advance(t) /\ UNCHANGED pc
  /\ UNCHANGED <<netVars, fd, connections, revents, is_sending, passes, unanswered,
                 earlyLoss>>

(***************************************************************************)
(* The server and the clock.                                               *)
(***************************************************************************)

ServerCloses ==
  /\ "lost" \in Faults
  /\ \E s \in connected \ lost : lost' = lost \cup {s}
  /\ UNCHANGED <<table, connected, expired, pc, localVars, historyVars>>

Tick ==
  /\ ~expired /\ expired' = TRUE
  /\ UNCHANGED <<table, connected, lost, pc, localVars, historyVars>>

Thread(t) ==
  \/ Socket(t) \/ Connect(t) \/ CloseUnconnected(t) \/ Setup(t)
  \/ Poll(t) \/ EndPass(t) \/ Recv(t) \/ CloseLost(t) \/ Send(t) \/ CloseBroken(t) \/ Cleanup(t)

Finished == \A t \in Threads : pc[t] \in {"done", "killed"}

Terminated == Finished /\ UNCHANGED vars

Next ==
  \/ \E t \in Threads : Thread(t) \/ PollFails(t)
  \/ ServerCloses \/ Tick \/ Terminated

Spec == Init /\ [][Next]_vars

(* Every thread is scheduled, poll() returns within its second, time       *)
(* passes.                                                                 *)
FairSpec ==
  /\ Spec
  /\ \A t \in Threads : WF_vars(Thread(t))
  /\ WF_vars(Tick)

(***************************************************************************)
(* Properties.                                                             *)
(***************************************************************************)

TypeOK ==
  /\ DOMAIN table \subseteq Fds /\ \A f \in DOMAIN table : table[f] \in Sockets
  /\ connected \subseteq Sockets /\ lost \subseteq connected
  /\ expired \in BOOLEAN
  /\ pc \in [Threads -> {"socket", "connect", "close_unconnected", "poll", "recv",
                         "close_lost", "send", "close_broken", "cleanup", "done", "killed"}]
  /\ i \in [Threads -> Nat \ {0}] /\ fd \in [Threads -> Fds \cup {NoFd}]
  /\ connections \in [Threads -> Seq(Fds \cup {NoFd})]
  /\ revents \in [Threads -> Seq(SUBSET {"in", "out"})]
  /\ is_sending \in [Threads -> Seq(BOOLEAN)]
  /\ \A t \in Threads : Len(connections[t]) <= ConnectionsPerThread
  /\ passes \in [Threads -> Nat] /\ unanswered \in [Sockets -> Nat]
  /\ foreign \in BOOLEAN /\ earlyLoss \in BOOLEAN

(* The state is of its types, and a thread that has ended has left none of *)
(* its sockets open, whatever failed on the way and whoever has closed     *)
(* whose descriptors.                                                      *)
NothingLeaks ==
  /\ TypeOK
  /\ \A t \in Threads : pc[t] = "done" =>
       \A f \in DOMAIN table : Owner(table[f]) # t

(* Threads get at each other's sockets only if a connection is lost while  *)
(* another thread is still connecting: once all are connected, a number    *)
(* that was closed is not given out again (client_s.cpp:137, 152).         *)
ForeignOnlyAfterEarlyLoss == foreign => earlyLoss

(* The load is a closed loop: on each connection a request is sent only    *)
(* after a page has answered the one before (client_s.cpp:134, 143, 149),  *)
(* unless another thread's request got on it.                              *)
ClosedLoop == ~foreign => \A s \in Sockets : unanswered[s] <= 1

(* All threads end after the deadline (or the process by SIGPIPE), also    *)
(* when all their connections are lost and poll() has nothing to report    *)
(* any more (client_s.cpp:112, 116).                                       *)
DeadlineEndsThreads == expired ~> Finished

(* "Connection closed or error" (client_s.cpp:136, 151): the event loop    *)
(* closes connections that were closed by the server or failed.            *)
ClosesOnlyLost ==
  [][\A t \in Threads :
       pc[t] \in {"close_lost", "close_broken"} /\ pc'[t] # pc[t] =>
         ~Whole(fd[t])]_vars
============================================================================
