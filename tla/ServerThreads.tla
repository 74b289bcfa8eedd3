--------------------------- MODULE ServerThreads ---------------------------
(***************************************************************************)
(* The threads of io_uring_fast_net_new/src/server.cpp around the workers' *)
(* event loops: the acceptor deals the connections out round robin, each   *)
(* worker waits until it has connections_per_thread of them, enters        *)
(* handle_connection, and re-enters it until the acceptor has stopped or   *)
(* the time is over; main joins the workers, then closes the listening     *)
(* socket, then joins the acceptor.                                        *)
(*                                                                         *)
(* connection_fds is read by the workers while the acceptor appends to it, *)
(* without a lock.  An append that reallocates is a step of its own        *)
(* ("grow"): what size() and operator[] return meanwhile is undefined.     *)
(*                                                                         *)
(* The event loop itself is UringServer; here it is one state ("serve").   *)
(***************************************************************************)
EXTENDS Integers, Sequences

CONSTANTS
  ThreadCount,           \* thread_count
  ConnectionsPerThread,  \* config.connections_per_thread
  InflightOps,           \* config.inflight_ops
  TornSizes,             \* what size() may return during a reallocation
  Faults,                \* what may go wrong, a subset of FaultKinds
  MaxAccepts             \* bound: clients that connect

FaultKinds == {"accept", "setup"}

ASSUME ThreadsAssumption ==
  /\ ThreadCount \in Nat \ {0}
  /\ ConnectionsPerThread \in Nat \ {0}
  /\ InflightOps \in Nat \ {0}
  /\ TornSizes \subseteq Nat \ {0}
  /\ Faults \subseteq FaultKinds
  /\ MaxAccepts \in Nat

VARIABLES
  acceptor,              \* "accept", "timer", "push", "grow", "exited"
  accepted,              \* clients accepted; the last one is conn_fd of the acceptor
  next_thread,
  connection_fds,        \* per thread, the descriptors dealt to it
  accepting_connections,
  timer_started,
  expired,               \* run_duration_seconds have passed since server_start_time
  worker,                \* per thread: "setup", "wait", "enter", "init", "serve",
                         \* "check", "exited"
  num_connections,       \* per worker, the local of handle_connection
  op,                    \* per worker, the loop variable of its first loop
  fd_to_conn_index,      \* per worker, a partial function
  torn,                  \* history: workers that read a vector being reallocated
  handled,               \* history: workers that have entered handle_connection
  failed,                \* history: workers whose ring could not be set up
  main                   \* "join", "close", "join_acceptor", "exited"

acceptorVars == <<acceptor, accepted, next_thread, connection_fds>>
flagVars == <<accepting_connections, timer_started, expired>>
workerVars == <<worker, num_connections, op, fd_to_conn_index, torn, handled, failed>>
vars == <<acceptor, accepted, next_thread, connection_fds, accepting_connections,
          timer_started, expired, worker, num_connections, op, fd_to_conn_index, torn,
          handled, failed, main>>

Threads == 0 .. ThreadCount - 1
Fds == 1 .. MaxAccepts

Init ==
  /\ acceptor = "accept" /\ accepted = 0 /\ next_thread = 0
  /\ connection_fds = [t \in Threads |-> <<>>]
  /\ accepting_connections = TRUE /\ timer_started = FALSE /\ expired = FALSE
  /\ worker = [t \in Threads |-> "setup"]
  /\ num_connections = [t \in Threads |-> 0]
  /\ op = [t \in Threads |-> 0]
  /\ fd_to_conn_index = [t \in Threads |-> <<>>]
  /\ torn = {} /\ handled = {} /\ failed = {}
  /\ main = "join"

(***************************************************************************)
(* accept_connections.                                                     *)
(***************************************************************************)

(* elapsed_seconds >= run_duration_seconds *)
Over == timer_started /\ expired

listen_open == main \notin {"join_acceptor", "exited"}

(* Seeded fault: the timer starts with the second connection. *)
AfterAcceptLate == IF timer_started \/ next_thread = 0 THEN "push" ELSE "timer"

AfterAccept == IF timer_started THEN "push" ELSE "timer"

(* The server closes no connection, so every accept4 returns a descriptor  *)
(* of its own.                                                             *)
Accept ==
  /\ acceptor = "accept" /\ accepting_connections /\ listen_open
  /\ accepted < MaxAccepts
  /\ accepted' = accepted + 1
  /\ acceptor' = AfterAccept
  /\ UNCHANGED <<next_thread, connection_fds, flagVars, workerVars, main>>

StartTimer ==
  /\ acceptor = "timer"
  /\ timer_started' = TRUE
  /\ acceptor' = "push"
  /\ UNCHANGED <<accepted, next_thread, connection_fds, accepting_connections, expired,
                 workerVars, main>>

(* Seeded fault: the thread is picked by the descriptor (they go up by 2). *)
AssignedByFd == (2 * accepted) % ThreadCount

assigned_thread == next_thread % ThreadCount

(* The capacity of a vector that grew by push_back alone is a power of 2. *)
Full(n) == n = 0 \/ \E k \in 0 .. n : n = 2 ^ k

Append1 ==
  /\ connection_fds' = [connection_fds EXCEPT ![assigned_thread] = Append(@, accepted)]
  /\ next_thread' = next_thread + 1
  /\ acceptor' = "accept"
  /\ UNCHANGED <<accepted, flagVars, workerVars, main>>

Push ==
  /\ acceptor = "push"
  /\ ~Full(Len(connection_fds[assigned_thread]))
  /\ Append1

StartGrowing ==
  /\ acceptor = "push"
  /\ Full(Len(connection_fds[assigned_thread]))
  /\ acceptor' = "grow"
  /\ UNCHANGED <<accepted, next_thread, connection_fds, flagVars, workerVars, main>>

EndGrowing == acceptor = "grow" /\ Append1

(* EAGAIN or EINTR: only now the acceptor looks at the clock; before the   *)
(* deadline it sleeps and tries again.                                     *)
NothingToAccept ==
  /\ acceptor = "accept" /\ accepting_connections /\ listen_open
  /\ IF Over THEN /\ accepting_connections' = FALSE /\ acceptor' = "exited"
                  /\ UNCHANGED <<accepted, next_thread, connection_fds, timer_started,
                                  expired, workerVars, main>>
             ELSE UNCHANGED vars

(* Seeded fault: the acceptor ends without telling the workers. *)
AcceptFailsAlone ==
  /\ acceptor = "accept" /\ accepting_connections
  /\ ~listen_open \/ "accept" \in Faults
  /\ acceptor' = "exited"
  /\ UNCHANGED <<accepted, next_thread, connection_fds, flagVars, workerVars, main>>

(* Any other error; accept4 on the socket main has closed is one. *)
AcceptFails ==
  /\ acceptor = "accept" /\ accepting_connections
  /\ ~listen_open \/ "accept" \in Faults
  /\ accepting_connections' = FALSE /\ acceptor' = "exited"
  /\ UNCHANGED <<accepted, next_thread, connection_fds, timer_started, expired,
                 workerVars, main>>

Acceptor ==
  Accept \/ StartTimer \/ Push \/ StartGrowing \/ EndGrowing \/ NothingToAccept

(***************************************************************************)
(* worker_thread and the first loop of handle_connection.                  *)
(***************************************************************************)

Growing(t) == acceptor = "grow" /\ t = assigned_thread
Sizes(t) ==
  {Len(connection_fds[t])} \cup (IF Growing(t) THEN TornSizes ELSE {})
Observe(t) == torn' = IF Growing(t) THEN torn \cup {t} ELSE torn

Goto(t, state) == worker' = [worker EXCEPT ![t] = state]

Setup(t) ==
  /\ worker[t] = "setup"
  /\ \/ Goto(t, "wait") /\ UNCHANGED failed
     \/ "setup" \in Faults /\ Goto(t, "exited") /\ failed' = failed \cup {t}
  /\ UNCHANGED <<acceptorVars, flagVars, num_connections, op, fd_to_conn_index, torn,
                 handled, main>>

Enough(size) == size >= ConnectionsPerThread

AwaitConnections(t) ==
  /\ worker[t] = "wait" /\ accepting_connections
  /\ \E size \in Sizes(t) : Enough(size)
  /\ Goto(t, "enter")
  /\ Observe(t)
  /\ handled' = handled \cup {t}
  /\ UNCHANGED <<acceptorVars, flagVars, num_connections, op, fd_to_conn_index, failed, main>>

(* It sleeps a millisecond and looks again. *)
KeepWaiting(t) ==
  /\ worker[t] = "wait" /\ accepting_connections
  /\ \E size \in Sizes(t) : ~Enough(size)
  /\ UNCHANGED vars

StopWorking(t) ==
  /\ worker[t] = "wait" /\ ~accepting_connections
  /\ Goto(t, "exited")
  /\ UNCHANGED <<acceptorVars, flagVars, num_connections, op, fd_to_conn_index, torn,
                 handled, failed, main>>

EnterHandleConnection(t) ==
  /\ worker[t] = "enter"
  /\ \E size \in Sizes(t) : num_connections' = [num_connections EXCEPT ![t] = size]
  /\ op' = [op EXCEPT ![t] = 0]
  /\ Goto(t, "init")
  /\ Observe(t)
  /\ UNCHANGED <<acceptorVars, flagVars, fd_to_conn_index, handled, failed, main>>

(* One iteration: size() is read again, the vector indexed with it.  A     *)
(* descriptor read out of a vector being reallocated is whatever lies      *)
(* there: 0 stands for it.                                                 *)
Element(t, i) ==
  IF Growing(t) \/ i >= Len(connection_fds[t]) THEN 0 ELSE connection_fds[t][i + 1]

ConnIndex(i, size) == i % size

MoreOperations(t) == op[t] < InflightOps

InitOperation(t) ==
  /\ worker[t] = "init" /\ MoreOperations(t)
  /\ \E size \in Sizes(t) \ {0} :
       LET i == ConnIndex(op[t], size)
           fd == Element(t, op[t] % size)
           index == fd_to_conn_index[t]
       IN  fd_to_conn_index' =
             [fd_to_conn_index EXCEPT
                ![t] = [f \in DOMAIN index \cup {fd} |-> IF f = fd THEN i ELSE index[f]]]
  /\ op' = [op EXCEPT ![t] = @ + 1]
  /\ Observe(t)
  /\ UNCHANGED <<acceptorVars, flagVars, worker, num_connections, handled, failed, main>>

(* The loop is through, or the ring is full; a failed submit and every     *)
(* break out of the event loop lead to the same place.                     *)
EndInit(t) ==
  /\ worker[t] = "init"
  /\ \/ op[t] = InflightOps /\ Goto(t, "serve")
     \/ op[t] > 0 /\ Goto(t, "check")
  /\ UNCHANGED <<acceptorVars, flagVars, num_connections, op, fd_to_conn_index, torn,
                 handled, failed, main>>

(* Deadline or loss of a connection. *)
EndServing(t) ==
  /\ worker[t] = "serve"
  /\ Goto(t, "check")
  /\ UNCHANGED <<acceptorVars, flagVars, num_connections, op, fd_to_conn_index, torn,
                 handled, failed, main>>

CheckTime(t) ==
  /\ worker[t] = "check"
  /\ IF Over THEN Goto(t, "exited") ELSE Goto(t, "wait")
  /\ UNCHANGED <<acceptorVars, flagVars, num_connections, op, fd_to_conn_index, torn,
                 handled, failed, main>>

Worker(t) ==
  \/ Setup(t) \/ AwaitConnections(t) \/ KeepWaiting(t) \/ StopWorking(t)
  \/ EnterHandleConnection(t) \/ InitOperation(t) \/ EndInit(t) \/ EndServing(t) \/ CheckTime(t)

(***************************************************************************)
(* main and the clock.                                                     *)
(***************************************************************************)

JoinWorkers ==
  /\ main = "join" /\ \A t \in Threads : worker[t] = "exited"
  /\ main' = "close"
  /\ UNCHANGED <<acceptorVars, flagVars, workerVars>>

CloseListenFd ==
  /\ main = "close" /\ main' = "join_acceptor"
  /\ UNCHANGED <<acceptorVars, flagVars, workerVars>>

JoinAcceptor ==
  /\ main = "join_acceptor" /\ acceptor = "exited"
  /\ main' = "exited"
  /\ UNCHANGED <<acceptorVars, flagVars, workerVars>>

Main == JoinWorkers \/ CloseListenFd \/ JoinAcceptor

Tick ==
  /\ timer_started /\ ~expired
  /\ expired' = TRUE
  /\ UNCHANGED <<acceptorVars, accepting_connections, timer_started, workerVars, main>>

Terminated == main = "exited" /\ UNCHANGED vars

Next ==
  Acceptor \/ AcceptFails \/ (\E t \in Threads : Worker(t)) \/ Main \/ Tick \/ Terminated

Spec == Init /\ [][Next]_vars

(* Every thread is scheduled; accept4 on a closed socket fails; the event  *)
(* loop ends after the deadline (UringServer!DeadlineEndsWorker).          *)
Fairness ==
  /\ WF_vars(Acceptor) /\ WF_vars(~listen_open /\ AcceptFails)
  /\ \A t \in Threads :
       /\ WF_vars(Setup(t) \/ AwaitConnections(t) \/ StopWorking(t)
                    \/ EnterHandleConnection(t) \/ InitOperation(t) \/ CheckTime(t))
       /\ WF_vars(EndInit(t))
       /\ WF_vars(expired /\ EndServing(t))
  /\ WF_vars(Main)

FairSpec == Spec /\ Fairness

(***************************************************************************)
(* Properties.                                                             *)
(***************************************************************************)

TypeOK ==
  /\ acceptor \in {"accept", "timer", "push", "grow", "exited"}
  /\ accepted \in 0 .. MaxAccepts /\ next_thread \in 0 .. MaxAccepts
  /\ connection_fds \in [Threads -> Seq(Fds)]
  /\ accepting_connections \in BOOLEAN /\ timer_started \in BOOLEAN /\ expired \in BOOLEAN
  /\ worker \in [Threads -> {"setup", "wait", "enter", "init", "serve", "check", "exited"}]
  /\ num_connections \in [Threads -> Nat]
  /\ op \in [Threads -> 0 .. InflightOps]
  /\ DOMAIN fd_to_conn_index = Threads
  /\ \A t \in Threads : \A fd \in DOMAIN fd_to_conn_index[t] :
       fd \in Fds \cup {0} /\ fd_to_conn_index[t][fd] \in Nat
  /\ torn \subseteq Threads /\ handled \subseteq Threads /\ failed \subseteq Threads
  /\ main \in {"join", "close", "join_acceptor", "exited"}

Handling(t) == worker[t] \in {"init", "serve", "check"}

(* As long as no more clients have connected than the server is set up     *)
(* for, and a worker has not read a vector under reallocation, the worker  *)
(* handles exactly connections_per_thread connections and every index it   *)
(* will use into message_count and per_second_metrics, both of that        *)
(* length, is inside (server.cpp:270-303, 393, 493): the size read again   *)
(* at 298 agrees with the one read at 270.                                 *)
IndexInBounds ==
  \A t \in Threads :
    Handling(t) /\ t \notin torn /\ accepted <= ThreadCount * ConnectionsPerThread =>
      /\ num_connections[t] = ConnectionsPerThread
      /\ \A fd \in DOMAIN fd_to_conn_index[t] : fd_to_conn_index[t][fd] < num_connections[t]

(* Also under the race: a worker reaches the tests of the time (server.cpp *)
(* 361, 630) only after the timer has started, so they are not skipped.    *)
ServesWithTimer == \A t \in Threads : t \in handled => timer_started

(* A worker whose ring was set up leaves only when the time is over or the *)
(* acceptor has stopped: no loss of a connection ends it early.            *)
WorkersStay ==
  \A t \in Threads :
    worker[t] = "exited" => t \in failed \/ ~accepting_connections \/ expired

(* The inductive invariant behind the three above.  Round robin is said    *)
(* without a division: thread t has been dealt the connections n of        *)
(* 0 .. next_thread - 1 with n % ThreadCount = t.                          *)
DealtRoundRobin ==
  \A t \in Threads :
    /\ next_thread - t <= ThreadCount * Len(connection_fds[t])
    /\ ThreadCount * Len(connection_fds[t]) <= next_thread - t + ThreadCount - 1

TimerBeforePush ==
  /\ acceptor \in {"push", "grow"} => timer_started
  /\ \A t \in Threads : Len(connection_fds[t]) > 0 => timer_started

CountersAgree ==
  /\ next_thread <= accepted
  /\ acceptor \in {"timer", "push", "grow"} => next_thread < accepted

EntersWithEnough ==
  \A t \in Threads :
    worker[t] \in {"enter", "init", "serve", "check"} /\ t \notin torn =>
      Len(connection_fds[t]) >= ConnectionsPerThread

IndexesOfNoSurplus ==
  \A t \in Threads :
    t \notin torn /\ accepted <= ThreadCount * ConnectionsPerThread =>
      /\ Handling(t) => num_connections[t] = ConnectionsPerThread
      /\ \A fd \in DOMAIN fd_to_conn_index[t] : fd_to_conn_index[t][fd] < ConnectionsPerThread

ThreadsInv ==
  /\ TypeOK /\ CountersAgree /\ DealtRoundRobin /\ TimerBeforePush /\ EntersWithEnough
  /\ IndexesOfNoSurplus /\ ServesWithTimer /\ WorkersStay

(* Once the time is over, or accept has failed before anybody connected,   *)
(* the server shuts down: also when some worker never gets its connections,*)
(* when clients keep connecting, and when main closes the socket under the *)
(* acceptor.                                                               *)
ShutsDown == expired \/ (~accepting_connections /\ ~timer_started) ~> main = "exited"

(* With as many clients as the server is set up for, every worker gets its *)
(* share and enters handle_connection, unless time or acceptor stop it.    *)
EveryWorkerServes ==
  next_thread >= ThreadCount * ConnectionsPerThread ~>
    \/ \A t \in Threads : t \in handled \cup failed
    \/ expired \/ ~accepting_connections
============================================================================
