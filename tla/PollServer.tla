----------------------------- MODULE PollServer -----------------------------
(***************************************************************************)
(* io_uring_fast_net_new/src/server_s.cpp, the poll(2) variant of the      *)
(* server: an acceptor deals the connections round robin to the workers,   *)
(* and a worker that has enough of them sends pages on each that can be    *)
(* written until one of its calls fails or the deadline has come.          *)
(*                                                                         *)
(* As in PollClient every system call is a step and descriptor numbers are *)
(* told from the connections they denote.  The vectors of connection_fds   *)
(* are read by workers and appended to by the acceptor without a lock.     *)
(***************************************************************************)
EXTENDS Integers, Sequences

CONSTANTS
  ThreadCount,
  ConnectionsPerThread,
  Fds,                   \* the numbers free when the server starts
  Faults,                \* what may go wrong, a subset of FaultKinds
  MaxAccepts,            \* bound: clients that connect
  MaxPasses              \* bound: calls of poll() per worker before the deadline

FaultKinds == {"accept", "poll", "lost"}

ASSUME PollServerAssumption ==
  /\ ThreadCount \in Nat \ {0} /\ ConnectionsPerThread \in Nat \ {0}
  /\ Fds \subseteq Nat /\ Fds # {}
  /\ Faults \subseteq FaultKinds
  /\ MaxAccepts \in Nat /\ MaxPasses \in Nat

VARIABLES
  table,                 \* open descriptors of connections: number -> connection
  accepted,              \* connections accepted, numbered from 1 on
  lost,                  \* connections that their client has closed or reset
  listen_open,           \* listen_fd is open
  timer_started,
  expired,               \* run_duration_seconds have passed since server_start_time
  accepting_connections,
  acceptor,              \* next step of accept_connections
  conn_fd,               \* its local
  next_thread,
  connection_fds,        \* per worker, the descriptors dealt to it
  pc,                    \* per worker, the next step; see Ended
  i,                     \* per worker, the loop variable of the loop it is in
  poll_fds,              \* per worker, the fd fields of its copy of the descriptors
  revents,               \* per worker, what poll() has returned
  passes,                \* history: calls of poll() per worker
  reentered,             \* history: workers that have called handle_connection again
  dealt,                 \* history: the worker each connection was dealt to
  handled                \* history: connections that a worker has polled

netVars == <<lost, listen_open, expired>>
acceptorVars == <<accepted, timer_started, accepting_connections, acceptor, conn_fd, next_thread,
                  connection_fds, dealt>>
workerVars == <<pc, i, poll_fds, revents, passes, reentered, handled>>
vars == <<table, netVars, acceptorVars, workerVars>>

Workers == 0 .. ThreadCount - 1
Connections == 1 .. MaxAccepts
NoFd == -1

Init ==
  /\ table = <<>> /\ accepted = 0 /\ lost = {} /\ listen_open = TRUE
  /\ timer_started = FALSE /\ expired = FALSE /\ accepting_connections = TRUE
  /\ acceptor = "accept" /\ conn_fd = NoFd /\ next_thread = 0
  /\ connection_fds = [t \in Workers |-> <<>>]
  /\ pc = [t \in Workers |-> "wait"] /\ i = [t \in Workers |-> 1]
  /\ poll_fds = [t \in Workers |-> <<>>] /\ revents = [t \in Workers |-> <<>>]
  /\ passes = [t \in Workers |-> 0] /\ reentered = {}
  /\ dealt = <<>> /\ handled = [t \in Workers |-> {}]

Over == timer_started /\ expired

(* "killed" by SIGPIPE, or "undefined": after a read of a vector that is   *)
(* being moved, or a write past the end of one, nothing can be said.       *)
ProcessEnds(label) ==
  /\ pc' = [t \in Workers |-> label]
  /\ acceptor' = label
Ended == {"exited", "killed", "undefined"}

Open(f) == f \in DOMAIN table
Whole(f) == Open(f) /\ table[f] \notin lost
Close(f) == table' = [g \in DOMAIN table \ {f} |-> table[g]]

(***************************************************************************)
(* accept_connections.                                                     *)
(***************************************************************************)

LowestFree == CHOOSE f \in Fds \ DOMAIN table : \A g \in Fds \ DOMAIN table : f <= g

assigned_thread == next_thread % ThreadCount

(* Up to the push_back; until EndDealing the vector may be under change.   *)
Accept ==
  /\ acceptor = "accept" /\ listen_open
  /\ accepted < MaxAccepts /\ Fds \ DOMAIN table # {}
  /\ conn_fd' = LowestFree
  /\ accepted' = accepted + 1
  /\ table' = [f \in DOMAIN table \cup {LowestFree} |->
                 IF f = LowestFree THEN accepted + 1 ELSE table[f]]
  /\ timer_started' = TRUE
  /\ dealt' = Append(dealt, assigned_thread)
  /\ acceptor' = "growing"
  /\ UNCHANGED <<netVars, workerVars, accepting_connections, next_thread, connection_fds>>

EndDealing ==
  /\ acceptor = "growing"
  /\ connection_fds' = [connection_fds EXCEPT ![dealt[accepted]] = Append(@, conn_fd)]
  /\ next_thread' = next_thread + 1
  /\ acceptor' = "accept"
  /\ UNCHANGED <<table, netVars, workerVars, accepted, timer_started, accepting_connections,
                 conn_fd, dealt>>

(* Seeded fault: the acceptor stops alone. *)
AcceptorStopsAlone == acceptor' = "exited" /\ UNCHANGED accepting_connections

AcceptorStops == acceptor' = "exited" /\ accepting_connections' = FALSE

(* Without clients the acceptor looks at the clock. *)
TimeLimitReached ==
  /\ acceptor = "accept" /\ listen_open /\ Over
  /\ AcceptorStops
  /\ UNCHANGED <<table, netVars, workerVars, accepted, timer_started, conn_fd, next_thread,
                 connection_fds, dealt>>

(* main has closed listen_fd, no number is free, or accept4 fails.         *)
AcceptFails ==
  /\ acceptor = "accept"
  /\ ~listen_open \/ Fds \subseteq DOMAIN table \/ "accept" \in Faults
  /\ AcceptorStops
  /\ UNCHANGED <<table, netVars, workerVars, accepted, timer_started, conn_fd, next_thread,
                 connection_fds, dealt>>

Acceptor == Accept \/ EndDealing \/ TimeLimitReached \/ AcceptFails

(***************************************************************************)
(* worker_thread, up to handle_connection.                                 *)
(***************************************************************************)

Goto(t, label) == pc' = [pc EXCEPT ![t] = label]
Advance(t) == i' = [i EXCEPT ![t] = @ + 1]

Restart(t) == i' = [i EXCEPT ![t] = 1]

NumConnections(t) == Len(poll_fds[t])

(* A reader may find the vector before or after a push_back under way.     *)
Growing(t) == acceptor = "growing" /\ dealt[accepted] = t
Vectors(t) ==
  {connection_fds[t]} \cup (IF Growing(t) THEN {Append(connection_fds[t], conn_fd)} ELSE {})

(* Or it finds pointers of two different vectors. *)
TornRead(t) ==
  /\ pc[t] \in {"enter", "fill"} /\ Growing(t)
  /\ ProcessEnds("undefined")
  /\ UNCHANGED <<table, netVars, accepted, timer_started, accepting_connections, conn_fd,
                 next_thread, connection_fds, dealt, i, poll_fds, revents, passes, reentered,
                 handled>>

(* Of the torn size only the comparison counts. *)
AwaitConnections(t) ==
  /\ pc[t] = "wait" /\ accepting_connections
  /\ Growing(t) \/ Len(connection_fds[t]) >= ConnectionsPerThread
  /\ Goto(t, "enter")
  /\ UNCHANGED <<table, netVars, acceptorVars, i, poll_fds, revents, passes, reentered, handled>>

KeepWaiting(t) ==
  /\ pc[t] = "wait" /\ accepting_connections
  /\ Growing(t) \/ Len(connection_fds[t]) < ConnectionsPerThread
  /\ UNCHANGED vars

StopWorking(t) ==
  /\ pc[t] = "wait" /\ ~accepting_connections
  /\ Goto(t, "exited")
  /\ UNCHANGED <<table, netVars, acceptorVars, i, poll_fds, revents, passes, reentered, handled>>

(***************************************************************************)
(* handle_connection.                                                      *)
(***************************************************************************)

(* The vectors are as long as connection_fds[t] is now ... *)
Enter(t) ==
  /\ pc[t] = "enter"
  /\ \E v \in Vectors(t) : poll_fds' = [poll_fds EXCEPT ![t] = [n \in 1 .. Len(v) |-> NoFd]]
  /\ Goto(t, "fill")
  /\ UNCHANGED <<table, netVars, acceptorVars, i, revents, passes, reentered, handled>>

(* The top of the event loop. *)
TestLoop(t) == Goto(t, IF ~accepting_connections \/ Over THEN "closing" ELSE "poll")

(* ... and are filled from it: it only grows. *)
Fill(t) ==
  LET filled == SubSeq(Append(connection_fds[t], conn_fd), 1, NumConnections(t))
  IN  /\ pc[t] = "fill"
      /\ poll_fds' = [poll_fds EXCEPT ![t] = filled]
      /\ handled' = [handled EXCEPT ![t] =
                       @ \cup {table[filled[n]] : n \in {m \in DOMAIN filled : Open(filled[m])}}]
      /\ TestLoop(t)
      /\ UNCHANGED <<table, netVars, acceptorVars, i, revents, passes, reentered>>

(* poll() reports nothing of -1 and POLLNVAL of a number that is not open; *)
(* the end of a stream, and an error, can be read.                         *)
Events(f) ==
  CASE ~Open(f) -> {{}}
    [] Open(f) /\ ~Whole(f) -> {{"in"}, {"in", "out"}}
    [] OTHER -> SUBSET {"in", "out"}

Reported(t) ==
  {r \in [1 .. NumConnections(t) -> SUBSET {"in", "out"}] :
     \A n \in DOMAIN r : r[n] \in Events(poll_fds[t][n])}

MayPoll(t) == pc[t] = "poll" /\ (expired \/ passes[t] < MaxPasses)

Poll(t) ==
  /\ MayPoll(t)
  /\ \E r \in Reported(t) : revents' = [revents EXCEPT ![t] = r]
  /\ passes' = [passes EXCEPT ![t] = @ + 1]
  /\ Goto(t, "recv")
  /\ UNCHANGED <<table, netVars, acceptorVars, i, poll_fds, reentered, handled>>

PollFails(t) ==
  /\ MayPoll(t) /\ "poll" \in Faults
  /\ passes' = [passes EXCEPT ![t] = @ + 1]
  /\ Goto(t, "closing")
  /\ UNCHANGED <<table, netVars, acceptorVars, i, poll_fds, revents, reentered, handled>>

Fd(t) == poll_fds[t][i[t]]
NextConnection(t) == Advance(t) /\ Goto(t, "recv")
SystemCallOnly == UNCHANGED <<table, netVars, poll_fds, passes, reentered, handled>>

(* What is not looked at again is forgotten, for fewer states. *)
Seen(t, event) == revents' = [revents EXCEPT ![t][i[t]] = @ \ {event}]

(* Requests are read, EAGAIN changes nothing; what came before the end of  *)
(* a stream can still be read.                                             *)
Recv(t) ==
  /\ pc[t] = "recv" /\ i[t] <= NumConnections(t)
  /\ \/ /\ "in" \notin revents[t][i[t]] \/ Open(Fd(t))
        /\ Goto(t, "send")
     \/ /\ "in" \in revents[t][i[t]] /\ ~Whole(Fd(t))
        /\ Goto(t, "close")
  /\ Seen(t, "in") /\ UNCHANGED <<i, acceptorVars>> /\ SystemCallOnly

(* A page, or a part of it, or EAGAIN; also the first sends after the      *)
(* client has closed go through, later ones raise SIGPIPE.                 *)
Send(t) ==
  /\ pc[t] = "send"
  /\ \/ /\ "out" \notin revents[t][i[t]] \/ Open(Fd(t))
        /\ NextConnection(t) /\ UNCHANGED acceptorVars
     \/ /\ "out" \in revents[t][i[t]] /\ ~Whole(Fd(t))
        /\ Goto(t, "close") /\ UNCHANGED <<i, acceptorVars>>
     \/ /\ "out" \in revents[t][i[t]] /\ Open(Fd(t)) /\ ~Whole(Fd(t))
        /\ ProcessEnds("killed")
        /\ UNCHANGED <<i, accepted, timer_started, accepting_connections, conn_fd, next_thread,
                       connection_fds, dealt>>
  /\ Seen(t, "out") /\ SystemCallOnly

(* Seeded fault: the number is polled again. *)
CloseAndKeep(t) == Close(Fd(t)) /\ UNCHANGED poll_fds

CloseAndForget(t) == Close(Fd(t)) /\ poll_fds' = [poll_fds EXCEPT ![t][i[t]] = NoFd]

(* After a failed recv or send: continue with the next connection.         *)
CloseFailed(t) ==
  /\ pc[t] = "close"
  /\ CloseAndForget(t) /\ Seen(t, "out")
  /\ NextConnection(t)
  /\ UNCHANGED <<netVars, acceptorVars, passes, reentered, handled>>

EndPass(t) ==
  /\ pc[t] = "recv" /\ i[t] > NumConnections(t)
  /\ Restart(t) /\ revents' = [revents EXCEPT ![t] = <<>>]
  /\ TestLoop(t)
  /\ UNCHANGED <<table, netVars, acceptorVars, poll_fds, passes, reentered, handled>>

(* per_second_metrics holds connections_per_thread vectors, the report     *)
(* writes num_connections of them.                                         *)
ReportOutOfBounds(t) ==
  /\ pc[t] = "recv" /\ i[t] > NumConnections(t)
  /\ NumConnections(t) > ConnectionsPerThread
  /\ ProcessEnds("undefined")
  /\ UNCHANGED <<i, accepted, timer_started, accepting_connections, conn_fd, next_thread,
                 connection_fds, dealt, revents>>
  /\ SystemCallOnly

(* Seeded fault: the last descriptor is left open. *)
MoreToCloseButOne(t) == i[t] < NumConnections(t)

MoreToClose(t) == i[t] <= NumConnections(t)

CloseServed(t) ==
  /\ pc[t] = "closing" /\ MoreToClose(t)
  /\ Close(Fd(t)) /\ Advance(t)
  /\ UNCHANGED <<netVars, acceptorVars, pc, poll_fds, revents, passes, reentered, handled>>

(* Back in worker_thread, which calls handle_connection again unless the   *)
(* time is over or the acceptor has stopped: connection_fds[t] still is as *)
(* long as before.                                                         *)
Leave(t) ==
  /\ pc[t] = "closing" /\ ~MoreToClose(t)
  /\ Restart(t)
  /\ poll_fds' = [poll_fds EXCEPT ![t] = <<>>]
  /\ IF Over \/ ~accepting_connections
     THEN Goto(t, "exited") /\ UNCHANGED reentered
     ELSE Goto(t, "enter") /\ reentered' = reentered \cup {t}
  /\ UNCHANGED <<table, netVars, acceptorVars, revents, passes, handled>>

Worker(t) ==
  \/ AwaitConnections(t) \/ StopWorking(t) \/ TornRead(t) \/ Enter(t) \/ Fill(t)
  \/ Poll(t) \/ PollFails(t) \/ Recv(t) \/ Send(t) \/ CloseFailed(t)
  \/ EndPass(t) \/ ReportOutOfBounds(t) \/ CloseServed(t) \/ Leave(t)

(***************************************************************************)
(* main, the clients and the clock.                                        *)
(***************************************************************************)

AllEnded == acceptor \in Ended /\ \A t \in Workers : pc[t] \in Ended

(* After the workers have been joined. *)
CloseListenFd ==
  /\ \A t \in Workers : pc[t] = "exited"
  /\ listen_open /\ listen_open' = FALSE
  /\ UNCHANGED <<table, lost, expired, acceptorVars, workerVars>>

ClientCloses ==
  /\ "lost" \in Faults /\ ~AllEnded
  /\ \E f \in DOMAIN table : Whole(f) /\ lost' = lost \cup {table[f]}
  /\ UNCHANGED <<table, listen_open, expired, acceptorVars, workerVars>>

Tick ==
  /\ timer_started /\ ~expired /\ ~AllEnded /\ expired' = TRUE
  /\ UNCHANGED <<table, lost, listen_open, acceptorVars, workerVars>>

Terminated == AllEnded /\ UNCHANGED vars

Next ==
  \/ Acceptor \/ CloseListenFd \/ ClientCloses \/ Tick \/ Terminated
  \/ \E t \in Workers : Worker(t) \/ KeepWaiting(t)

Spec == Init /\ [][Next]_vars

(* Every thread is scheduled, poll() returns within its second, time       *)
(* passes.                                                                 *)
FairSpec ==
  /\ Spec
  /\ WF_vars(Acceptor) /\ WF_vars(CloseListenFd) /\ WF_vars(Tick)
  /\ \A t \in Workers : WF_vars(Worker(t))

(***************************************************************************)
(* Properties.                                                             *)
(***************************************************************************)

TypeOK ==
  /\ DOMAIN table \subseteq Fds /\ \A f \in DOMAIN table : table[f] \in Connections
  /\ accepted \in 0 .. MaxAccepts /\ lost \subseteq 1 .. accepted
  /\ listen_open \in BOOLEAN /\ timer_started \in BOOLEAN /\ expired \in BOOLEAN
  /\ accepting_connections \in BOOLEAN
  /\ acceptor \in {"accept", "growing"} \cup Ended
  /\ conn_fd \in Fds \cup {NoFd} /\ next_thread \in 0 .. accepted
  /\ connection_fds \in [Workers -> Seq(Fds)]
  /\ pc \in [Workers -> {"wait", "enter", "fill", "poll", "recv", "send", "close", "closing"}
                        \cup Ended]
  /\ i \in [Workers -> Nat \ {0}]
  /\ \A t \in Workers : i[t] <= NumConnections(t) + 1
  /\ poll_fds \in [Workers -> Seq(Fds \cup {NoFd})]
  /\ revents \in [Workers -> Seq(SUBSET {"in", "out"})]
  /\ passes \in [Workers -> Nat] /\ reentered \subseteq Workers
  /\ dealt \in Seq(Workers) /\ handled \in [Workers -> SUBSET Connections]

Serving(t) == pc[t] \in {"poll", "recv", "send", "close"}

(* "Adding fd ... to thread" (server_s.cpp:77): each number a worker polls *)
(* denotes a connection that was dealt to it, although numbers are closed  *)
(* and given out again all the time -- as long as no worker enters         *)
(* handle_connection a second time with the numbers of the first.          *)
PollsOwn ==
  reentered = {} =>
    \A t \in Workers : Serving(t) =>
      \A n \in 1 .. NumConnections(t) : poll_fds[t][n] # NoFd =>
        Open(poll_fds[t][n]) /\ dealt[table[poll_fds[t][n]]] = t

(* A worker serves at most connections_per_thread connections, as many as  *)
(* its report has room for (server_s.cpp:186, 219), unless more clients    *)
(* have connected than the server was configured for.                      *)
ReportInBounds ==
  accepted <= ThreadCount * ConnectionsPerThread =>
    \A t \in Workers : NumConnections(t) <= ConnectionsPerThread

(* The state is of its types, and a worker serves its own connections and  *)
(* no more than it reports.                                                *)
ServesOwn == TypeOK /\ PollsOwn /\ ReportInBounds

(* No connection that a worker has served is open when it has ended.       *)
NothingServedLeaks ==
  \A t \in Workers : pc[t] = "exited" =>
    \A f \in DOMAIN table : table[f] \notin handled[t]

(* After the deadline the server ends, also the workers that still wait    *)
(* for connections and the acceptor (server_s.cpp:90, 128, 236, 357).      *)
ShutsDown == expired ~> AllEnded
============================================================================
