--------------------------- MODULE ProgramsProofs ----------------------------
(***************************************************************************)
(* Two sets of theorems: about the threads of the io_uring server around   *)
(* the workers' event loops (ServerThreads), and about the smaller         *)
(* programs (Programs), one invariant to a program; get_page's are in      *)
(* FastNetProofs.                                                          *)
(*                                                                         *)
(* ThreadsInv is inductive for every number of threads, connections and    *)
(* operations.  Its only arithmetic is the round robin:                    *)
(* next_thread % ThreadCount picks the thread, and the number of           *)
(* connections of a thread stays within the bounds of DealtRoundRobin.     *)
(***************************************************************************)
EXTENDS ServerThreads, Programs, CountLemmas

(***************************************************************************)
(* The server's threads: the steps.                                        *)
(***************************************************************************)

LEMMA InitInv == Init => ThreadsInv
<1> SUFFICES ASSUME Init PROVE ThreadsInv
  OBVIOUS
<1> USE ThreadsAssumption DEF Init
<1>1. \A t \in Threads : Len(connection_fds[t]) = 0
  BY DEF Threads
<1>2. TypeOK
  <2>1. connection_fds \in [Threads -> Seq(Fds)]
    OBVIOUS
  <2>2. /\ accepted \in 0 .. MaxAccepts /\ next_thread \in 0 .. MaxAccepts
        /\ op \in [Threads -> 0 .. InflightOps]
        /\ num_connections \in [Threads -> Nat]
    OBVIOUS
  <2>3. /\ DOMAIN fd_to_conn_index = Threads
        /\ \A t \in Threads : DOMAIN fd_to_conn_index[t] = {}
    OBVIOUS
  <2>4. worker \in [Threads ->
                      {"setup", "wait", "enter", "init", "serve", "check", "exited"}]
    OBVIOUS
  <2> QED
    BY <2>1, <2>2, <2>3, <2>4 DEF TypeOK
<1>3. DealtRoundRobin
  BY <1>1 DEF DealtRoundRobin, Threads
<1>4. CountersAgree /\ TimerBeforePush /\ EntersWithEnough /\ ServesWithTimer /\ WorkersStay
  BY <1>1 DEF CountersAgree, TimerBeforePush, EntersWithEnough, ServesWithTimer, WorkersStay
<1>5. IndexesOfNoSurplus
  BY DEF IndexesOfNoSurplus, Handling
<1> QED
  BY <1>2, <1>3, <1>4, <1>5 DEF ThreadsInv

(* accept4 only adds to accepted, which makes less of IndexesOfNoSurplus.  *)
LEMMA AcceptKeepsInv ==
  ASSUME ThreadsInv, Accept
  PROVE  ThreadsInv'
<1> USE ThreadsAssumption DEF ThreadsInv, Accept, AfterAccept, flagVars, workerVars, TypeOK
<1>1. TypeOK'
  <2>1. accepted + 1 \in 0 .. MaxAccepts /\ accepted' = accepted + 1
    OBVIOUS
  <2>2. accepted' \in 0 .. MaxAccepts /\ acceptor' \in {"timer", "push"}
    BY <2>1
  <2> QED
    BY <2>2
<1>2. CountersAgree'
  BY DEF CountersAgree
<1>3. DealtRoundRobin' /\ TimerBeforePush' /\ EntersWithEnough' /\ ServesWithTimer' /\ WorkersStay'
  BY DEF DealtRoundRobin, TimerBeforePush, EntersWithEnough, ServesWithTimer, WorkersStay
<1>4. IndexesOfNoSurplus'
  <2>1. ThreadCount * ConnectionsPerThread \in Int /\ accepted \in Int
    OBVIOUS
  <2>2. accepted' <= ThreadCount * ConnectionsPerThread =>
          accepted <= ThreadCount * ConnectionsPerThread
    BY <2>1
  <2> QED
    BY <2>2 DEF IndexesOfNoSurplus, Handling
<1> QED
  BY <1>1, <1>2, <1>3, <1>4

LEMMA StartTimerKeepsInv ==
  ASSUME ThreadsInv, StartTimer
  PROVE  ThreadsInv'
<1> USE ThreadsAssumption DEF ThreadsInv, StartTimer, workerVars, TypeOK
<1>1. TypeOK'
  OBVIOUS
<1>2. CountersAgree' /\ DealtRoundRobin' /\ TimerBeforePush' /\ EntersWithEnough'
        /\ ServesWithTimer' /\ WorkersStay'
  BY DEF CountersAgree, DealtRoundRobin, TimerBeforePush, EntersWithEnough, ServesWithTimer,
         WorkersStay
<1>3. IndexesOfNoSurplus'
  BY DEF IndexesOfNoSurplus, Handling
<1> QED
  BY <1>1, <1>2, <1>3

LEMMA StartGrowingKeepsInv ==
  ASSUME ThreadsInv, StartGrowing
  PROVE  ThreadsInv'
<1> USE ThreadsAssumption DEF ThreadsInv, StartGrowing, flagVars, workerVars, TypeOK
<1>1. TypeOK'
  OBVIOUS
<1>2. CountersAgree' /\ DealtRoundRobin' /\ TimerBeforePush' /\ EntersWithEnough'
        /\ ServesWithTimer' /\ WorkersStay'
  BY DEF CountersAgree, DealtRoundRobin, TimerBeforePush, EntersWithEnough, ServesWithTimer,
         WorkersStay
<1>3. IndexesOfNoSurplus'
  BY DEF IndexesOfNoSurplus, Handling
<1> QED
  BY <1>1, <1>2, <1>3

(* The acceptor stops: nothing was in the middle of being dealt. *)
LEMMA AcceptorExitKeepsInv ==
  ASSUME ThreadsInv, NothingToAccept \/ AcceptFails
  PROVE  ThreadsInv'
<1> USE ThreadsAssumption DEF ThreadsInv, NothingToAccept, AcceptFails, workerVars, vars, TypeOK
<1>1. TypeOK'
  OBVIOUS
<1>2. CountersAgree' /\ DealtRoundRobin' /\ TimerBeforePush' /\ EntersWithEnough'
        /\ ServesWithTimer' /\ WorkersStay'
  BY DEF CountersAgree, DealtRoundRobin, TimerBeforePush, EntersWithEnough, ServesWithTimer,
         WorkersStay
<1>3. IndexesOfNoSurplus'
  BY DEF IndexesOfNoSurplus, Handling
<1> QED
  BY <1>1, <1>2, <1>3

(* A connection is dealt.  The vector of the thread picked grows by one,   *)
(* which only helps a worker that waits for enough connections.            *)
LEMMA AppendKeepsInv ==
  ASSUME ThreadsInv, acceptor \in {"push", "grow"}, Append1
  PROVE  ThreadsInv'
<1> DEFINE a == assigned_thread
<1>1. /\ TypeOK /\ CountersAgree /\ DealtRoundRobin /\ TimerBeforePush /\ EntersWithEnough
      /\ IndexesOfNoSurplus /\ ServesWithTimer /\ WorkersStay
  BY DEF ThreadsInv
<1>2. next_thread \in Nat /\ next_thread < accepted /\ accepted \in Fds /\ timer_started
  BY <1>1 DEF TypeOK, CountersAgree, TimerBeforePush, Fds
<1>3. a \in Threads
  BY <1>2, ThreadsAssumption, Residue DEF Threads, assigned_thread
<1>4. /\ connection_fds' = [connection_fds EXCEPT ![a] = Append(@, accepted)]
      /\ next_thread' = next_thread + 1
      /\ acceptor' = "accept"
      /\ UNCHANGED <<accepted, flagVars, workerVars, main>>
  BY DEF Append1
<1>5. connection_fds \in [Threads -> Seq(Fds)]
  BY <1>1 DEF TypeOK
<1> HIDE DEF a
<1>6. connection_fds' \in [Threads -> Seq(Fds)]
  <2>1. Append(connection_fds[a], accepted) \in Seq(Fds)
    BY <1>2, <1>3, <1>5, AppendProperties
  <2> QED
    BY <2>1, <1>3, <1>4, <1>5
<1>7. /\ Len(connection_fds'[a]) = Len(connection_fds[a]) + 1
      /\ \A t \in Threads : t # a => Len(connection_fds'[t]) = Len(connection_fds[t])
      /\ \A t \in Threads : Len(connection_fds[t]) \in Nat
  BY <1>2, <1>3, <1>4, <1>5, AppendProperties, LenProperties
<1>8. TypeOK'
  <2>1. next_thread' \in 0 .. MaxAccepts
    BY <1>1, <1>2, <1>4, ThreadsAssumption DEF TypeOK
  <2> QED
    BY <2>1, <1>1, <1>4, <1>6 DEF TypeOK, flagVars, workerVars
<1>9. CountersAgree'
  BY <1>1, <1>2, <1>4 DEF CountersAgree, TypeOK, Fds
<1>10. DealtRoundRobin'
  <2> SUFFICES ASSUME NEW t \in Threads
               PROVE  /\ next_thread' - t <= ThreadCount * Len(connection_fds'[t])
                      /\ ThreadCount * Len(connection_fds'[t])
                           <= next_thread' - t + ThreadCount - 1
    BY DEF DealtRoundRobin
  <2> DEFINE L == Len(connection_fds[t])
  <2>1. /\ L \in Nat /\ t \in 0 .. ThreadCount - 1
        /\ next_thread - t <= ThreadCount * L
        /\ ThreadCount * L <= next_thread - t + ThreadCount - 1
    BY <1>1, <1>7 DEF DealtRoundRobin, Threads
  <2> HIDE DEF L
  <2>2. /\ t = next_thread % ThreadCount =>
             /\ (next_thread + 1) - t <= ThreadCount * (L + 1)
             /\ ThreadCount * (L + 1) <= (next_thread + 1) - t + ThreadCount - 1
        /\ t # next_thread % ThreadCount =>
             /\ (next_thread + 1) - t <= ThreadCount * L
             /\ ThreadCount * L <= (next_thread + 1) - t + ThreadCount - 1
    BY <2>1, <1>2, ThreadsAssumption, DealOne
  <2>3. CASE t = next_thread % ThreadCount
    <3>1. Len(connection_fds'[t]) = L + 1
      BY <2>3, <1>7 DEF L, a, assigned_thread
    <3> QED
      BY <3>1, <2>2, <2>3, <1>4
  <2>4. CASE t # next_thread % ThreadCount
    <3>1. Len(connection_fds'[t]) = L
      BY <2>4, <1>7 DEF L, a, assigned_thread
    <3> QED
      BY <3>1, <2>2, <2>4, <1>4
  <2> QED
    BY <2>3, <2>4
<1>11. TimerBeforePush'
  BY <1>2, <1>4 DEF TimerBeforePush, flagVars
<1>12. EntersWithEnough'
  <2> SUFFICES ASSUME NEW t \in Threads,
                      worker[t] \in {"enter", "init", "serve", "check"}, t \notin torn
               PROVE  Len(connection_fds'[t]) >= ConnectionsPerThread
    BY <1>4 DEF EntersWithEnough, workerVars
  <2>1. Len(connection_fds[t]) >= ConnectionsPerThread /\ Len(connection_fds[t]) \in Nat
    BY <1>1, <1>7 DEF EntersWithEnough
  <2>2. Len(connection_fds'[t]) \in {Len(connection_fds[t]), Len(connection_fds[t]) + 1}
    BY <1>7
  <2> QED
    BY <2>1, <2>2, ThreadsAssumption
<1>13. IndexesOfNoSurplus'
  BY <1>1, <1>4 DEF IndexesOfNoSurplus, Handling, workerVars
<1>14. ServesWithTimer' /\ WorkersStay'
  BY <1>1, <1>4 DEF ServesWithTimer, WorkersStay, flagVars, workerVars
<1> QED
  BY <1>8, <1>9, <1>10, <1>11, <1>12, <1>13, <1>14 DEF ThreadsInv

(* What a worker that has not met a reallocation reads is the size.        *)
LEMMA ObservedSize ==
  ASSUME ThreadsInv, NEW t \in Threads, Observe(t)
  PROVE  /\ torn \subseteq torn' /\ torn' \subseteq torn \cup {t} /\ torn' \subseteq Threads
         /\ t \notin torn' => t \notin torn /\ Sizes(t) = {Len(connection_fds[t])}
         /\ Sizes(t) \subseteq Nat
<1>1. torn \subseteq Threads /\ Len(connection_fds[t]) \in Nat
  BY LenProperties DEF ThreadsInv, TypeOK
<1> QED
  BY <1>1, ThreadsAssumption DEF Observe, Sizes

(* Steps of a worker that only move it from one state to another, not into *)
(* one in which it depends on its connections.                             *)
LEMMA MoveKeepsInv ==
  ASSUME ThreadsInv, NEW t \in Threads,
         Setup(t) \/ StopWorking(t) \/ EndInit(t) \/ EndServing(t) \/ CheckTime(t)
  PROVE  ThreadsInv'
<1>1. /\ TypeOK /\ CountersAgree /\ DealtRoundRobin /\ TimerBeforePush /\ EntersWithEnough
      /\ IndexesOfNoSurplus /\ ServesWithTimer /\ WorkersStay
  BY DEF ThreadsInv
<1>2. PICK state \in {"wait", "exited", "serve", "check"} : worker' = [worker EXCEPT ![t] = state]
  BY DEF Setup, StopWorking, EndInit, EndServing, CheckTime, Goto
<1>3. /\ failed \subseteq failed' /\ failed' \subseteq failed \cup {t}
      /\ state \in {"serve", "check"} => worker[t] \in {"init", "serve"}
      /\ state = "exited" => t \in failed' \/ ~accepting_connections \/ expired
      /\ UNCHANGED <<acceptorVars, flagVars, num_connections, op, fd_to_conn_index, torn,
                     handled, main>>
  BY <1>1, <1>2 DEF Setup, StopWorking, EndInit, EndServing, CheckTime, Goto, Over, TypeOK
<1>4. TypeOK'
  BY <1>1, <1>2, <1>3 DEF TypeOK, acceptorVars, flagVars
<1>5. CountersAgree' /\ DealtRoundRobin' /\ TimerBeforePush' /\ ServesWithTimer'
  BY <1>1, <1>3 DEF CountersAgree, DealtRoundRobin, TimerBeforePush, ServesWithTimer,
                    acceptorVars, flagVars
<1>6. \A u \in Threads :
        /\ worker'[u] = IF u = t THEN state ELSE worker[u]
        /\ Handling(u)' => Handling(u)
        /\ worker'[u] \in {"enter", "init", "serve", "check"} =>
             worker[u] \in {"enter", "init", "serve", "check"}
  BY <1>1, <1>2, <1>3 DEF Handling, TypeOK
<1>7. EntersWithEnough' /\ IndexesOfNoSurplus'
  BY <1>1, <1>3, <1>6 DEF EntersWithEnough, IndexesOfNoSurplus, acceptorVars
<1>8. WorkersStay'
  BY <1>1, <1>3, <1>6 DEF WorkersStay, flagVars
<1> QED
  BY <1>4, <1>5, <1>7, <1>8 DEF ThreadsInv

(* A worker goes ahead: it has seen enough connections, unless it has read *)
(* a vector under reallocation; then a connection is being dealt to it.    *)
LEMMA AwaitKeepsInv ==
  ASSUME ThreadsInv, NEW t \in Threads, AwaitConnections(t)
  PROVE  ThreadsInv'
<1>1. /\ TypeOK /\ CountersAgree /\ DealtRoundRobin /\ TimerBeforePush /\ EntersWithEnough
      /\ IndexesOfNoSurplus /\ ServesWithTimer /\ WorkersStay
  BY DEF ThreadsInv
<1>2. /\ worker' = [worker EXCEPT ![t] = "enter"]
      /\ handled' = handled \cup {t}
      /\ Observe(t)
      /\ UNCHANGED <<acceptorVars, flagVars, num_connections, op, fd_to_conn_index, failed, main>>
  BY DEF AwaitConnections, Goto
<1>3. /\ torn \subseteq torn' /\ torn' \subseteq torn \cup {t} /\ torn' \subseteq Threads
      /\ t \notin torn' => t \notin torn /\ Sizes(t) = {Len(connection_fds[t])}
  BY <1>2, ObservedSize
<1>4. \A u \in Threads : worker'[u] = IF u = t THEN "enter" ELSE worker[u]
  BY <1>1, <1>2 DEF TypeOK
<1>5. TypeOK'
  BY <1>1, <1>2, <1>3 DEF TypeOK, acceptorVars, flagVars
<1>6. CountersAgree' /\ DealtRoundRobin' /\ TimerBeforePush'
  BY <1>1, <1>2 DEF CountersAgree, DealtRoundRobin, TimerBeforePush, acceptorVars, flagVars
<1>7. EntersWithEnough'
  <2>1. t \notin torn' => Len(connection_fds[t]) >= ConnectionsPerThread
    BY <1>3 DEF AwaitConnections, Enough
  <2> QED
    BY <2>1, <1>1, <1>2, <1>3, <1>4 DEF EntersWithEnough, acceptorVars
<1>8. IndexesOfNoSurplus'
  <2>1. \A u \in Threads : Handling(u)' => Handling(u)
    BY <1>4 DEF Handling
  <2> QED
    BY <2>1, <1>1, <1>2, <1>3 DEF IndexesOfNoSurplus, acceptorVars
<1>9. ServesWithTimer'
  <2>1. Growing(t) => timer_started
    BY <1>1 DEF Growing, TimerBeforePush
  <2>2. ~Growing(t) => timer_started
    <3>1. ~Growing(t) => Len(connection_fds[t]) >= ConnectionsPerThread
      BY DEF AwaitConnections, Enough, Sizes
    <3>2. Len(connection_fds[t]) \in Nat
      BY <1>1, LenProperties DEF TypeOK
    <3> QED
      BY <3>1, <3>2, <1>1, ThreadsAssumption DEF TimerBeforePush
  <2> QED
    BY <2>1, <2>2, <1>1, <1>2 DEF ServesWithTimer, flagVars
<1>10. WorkersStay'
  BY <1>1, <1>2, <1>4 DEF WorkersStay, flagVars
<1> QED
  BY <1>5, <1>6, <1>7, <1>8, <1>9, <1>10 DEF ThreadsInv

(* The number of connections of a worker while no surplus client has       *)
(* connected: dealt at most, and waited for at least.                      *)
LEMMA ExactlyEnough ==
  ASSUME ThreadsInv, NEW t \in Threads, t \notin torn,
         worker[t] \in {"enter", "init", "serve", "check"},
         accepted <= ThreadCount * ConnectionsPerThread
  PROVE  Len(connection_fds[t]) = ConnectionsPerThread
<1>1. Len(connection_fds[t]) \in Nat /\ t \in 0 .. ThreadCount - 1
  BY LenProperties DEF ThreadsInv, TypeOK, Threads
<1>2. Len(connection_fds[t]) >= ConnectionsPerThread
  BY DEF ThreadsInv, EntersWithEnough
<1>3. next_thread \in Nat /\ next_thread <= ThreadCount * ConnectionsPerThread
  <2>1. /\ next_thread \in Nat /\ accepted \in Nat /\ next_thread <= accepted
        /\ ThreadCount * ConnectionsPerThread \in Nat
    BY ThreadsAssumption DEF ThreadsInv, TypeOK, CountersAgree
  <2> QED
    BY <2>1
<1>4. ThreadCount * Len(connection_fds[t]) <= next_thread - t + ThreadCount - 1
  BY DEF ThreadsInv, DealtRoundRobin
<1>5. Len(connection_fds[t]) <= ConnectionsPerThread
  BY <1>1, <1>3, <1>4, DealtAtMost, ThreadsAssumption
<1> QED
  BY <1>1, <1>2, <1>5, ThreadsAssumption

LEMMA EnterKeepsInv ==
  ASSUME ThreadsInv, NEW t \in Threads, EnterHandleConnection(t)
  PROVE  ThreadsInv'
<1>1. /\ TypeOK /\ CountersAgree /\ DealtRoundRobin /\ TimerBeforePush /\ EntersWithEnough
      /\ IndexesOfNoSurplus /\ ServesWithTimer /\ WorkersStay
  BY DEF ThreadsInv
<1>2. PICK size \in Sizes(t) : num_connections' = [num_connections EXCEPT ![t] = size]
  BY DEF EnterHandleConnection
<1>3. /\ worker[t] = "enter" /\ worker' = [worker EXCEPT ![t] = "init"]
      /\ op' = [op EXCEPT ![t] = 0]
      /\ Observe(t)
      /\ UNCHANGED <<acceptorVars, flagVars, fd_to_conn_index, handled, failed, main>>
  BY DEF EnterHandleConnection, Goto
<1>4. /\ torn \subseteq torn' /\ torn' \subseteq torn \cup {t} /\ torn' \subseteq Threads
      /\ t \notin torn' => t \notin torn /\ Sizes(t) = {Len(connection_fds[t])}
      /\ size \in Nat
  BY <1>2, <1>3, ObservedSize
<1>5. \A u \in Threads :
        /\ worker'[u] = IF u = t THEN "init" ELSE worker[u]
        /\ num_connections'[u] = IF u = t THEN size ELSE num_connections[u]
  BY <1>1, <1>2, <1>3 DEF TypeOK
<1>6. TypeOK'
  <2>1. /\ op' \in [Threads -> 0 .. InflightOps]
        /\ num_connections' \in [Threads -> Nat]
    BY <1>1, <1>2, <1>3, <1>4, ThreadsAssumption DEF TypeOK
  <2> QED
    BY <2>1, <1>1, <1>3, <1>4 DEF TypeOK, acceptorVars, flagVars
<1>7. CountersAgree' /\ DealtRoundRobin' /\ TimerBeforePush' /\ ServesWithTimer'
  BY <1>1, <1>3 DEF CountersAgree, DealtRoundRobin, TimerBeforePush, ServesWithTimer,
                    acceptorVars, flagVars
<1>8. EntersWithEnough' /\ WorkersStay'
  BY <1>1, <1>3, <1>4, <1>5 DEF EntersWithEnough, WorkersStay, acceptorVars, flagVars
<1>9. IndexesOfNoSurplus'
  <2>1. t \notin torn' /\ accepted <= ThreadCount * ConnectionsPerThread =>
          size = ConnectionsPerThread
    BY <1>2, <1>3, <1>4, ExactlyEnough
  <2>2. \A u \in Threads : u # t => (Handling(u)' => Handling(u))
    BY <1>5 DEF Handling
  <2> QED
    BY <2>1, <2>2, <1>1, <1>3, <1>4, <1>5 DEF IndexesOfNoSurplus, acceptorVars
<1> QED
  BY <1>6, <1>7, <1>8, <1>9 DEF ThreadsInv

(* One operation of the first loop: with the size of the vector an index   *)
(* below it is recorded.                                                   *)
LEMMA InitOperationKeepsInv ==
  ASSUME ThreadsInv, NEW t \in Threads, InitOperation(t)
  PROVE  ThreadsInv'
<1>1. /\ TypeOK /\ CountersAgree /\ DealtRoundRobin /\ TimerBeforePush /\ EntersWithEnough
      /\ IndexesOfNoSurplus /\ ServesWithTimer /\ WorkersStay
  BY DEF ThreadsInv
<1> DEFINE index == fd_to_conn_index[t]
           updated(k, fd) ==
             [f \in DOMAIN index \cup {fd} |-> IF f = fd THEN k ELSE index[f]]
<1>2. PICK size \in Sizes(t) \ {0} :
        fd_to_conn_index' =
          [fd_to_conn_index EXCEPT
             ![t] = updated(ConnIndex(op[t], size), Element(t, op[t] % size))]
  BY DEF InitOperation
<1>3. /\ worker[t] = "init" /\ op[t] < InflightOps
      /\ op' = [op EXCEPT ![t] = @ + 1]
      /\ Observe(t)
      /\ UNCHANGED <<acceptorVars, flagVars, worker, num_connections, handled, failed, main>>
  BY DEF InitOperation, MoreOperations
<1>4. /\ torn \subseteq torn' /\ torn' \subseteq torn \cup {t} /\ torn' \subseteq Threads
      /\ t \notin torn' => t \notin torn /\ Sizes(t) = {Len(connection_fds[t])}
      /\ size \in Nat \ {0}
  BY <1>2, <1>3, ObservedSize
<1>5. op[t] \in Nat /\ op[t] % size \in 0 .. size - 1
  <2>1. op[t] \in 0 .. InflightOps
    BY <1>1 DEF TypeOK
  <2>2. op[t] \in Nat
    BY <2>1, ThreadsAssumption
  <2> QED
    BY <2>2, <1>4, Residue
<1>6. PICK k \in 0 .. size - 1, fd \in Fds \cup {0} :
        fd_to_conn_index' = [fd_to_conn_index EXCEPT ![t] = updated(k, fd)]
  <2>1. Element(t, op[t] % size) \in Fds \cup {0}
    <3>1. connection_fds[t] \in Seq(Fds) /\ op[t] % size \in Nat
      BY <1>1, <1>5 DEF TypeOK
    <3>2. op[t] % size < Len(connection_fds[t]) =>
            connection_fds[t][(op[t] % size) + 1] \in Fds
      BY <3>1, ElementOfSeq
    <3> QED
      BY <3>1, <3>2 DEF Element
  <2> QED
    BY <2>1, <1>2, <1>5 DEF ConnIndex
<1>7. /\ DOMAIN fd_to_conn_index' = Threads
      /\ fd_to_conn_index'[t] = updated(k, fd)
      /\ \A u \in Threads : u # t => fd_to_conn_index'[u] = fd_to_conn_index[u]
  BY <1>1, <1>6 DEF TypeOK
<1>8. /\ DOMAIN updated(k, fd) = DOMAIN index \cup {fd}
      /\ \A f \in DOMAIN index \cup {fd} :
           updated(k, fd)[f] = IF f = fd THEN k ELSE index[f]
  OBVIOUS
<1> HIDE DEF updated
<1>9. TypeOK'
  <2>1. op' \in [Threads -> 0 .. InflightOps]
    BY <1>1, <1>3, ThreadsAssumption DEF TypeOK
  <2>2. \A u \in Threads : \A f \in DOMAIN fd_to_conn_index'[u] :
          f \in Fds \cup {0} /\ fd_to_conn_index'[u][f] \in Nat
    <3>1. \A f \in DOMAIN updated(k, fd) : f \in Fds \cup {0} /\ updated(k, fd)[f] \in Nat
      BY <1>1, <1>4, <1>6, <1>8 DEF TypeOK
    <3> QED
      BY <3>1, <1>1, <1>7 DEF TypeOK
  <2> QED
    BY <2>1, <2>2, <1>1, <1>3, <1>4, <1>7 DEF TypeOK, acceptorVars, flagVars
<1>10. CountersAgree' /\ DealtRoundRobin' /\ TimerBeforePush' /\ ServesWithTimer'
         /\ WorkersStay'
  BY <1>1, <1>3 DEF CountersAgree, DealtRoundRobin, TimerBeforePush, ServesWithTimer,
                    WorkersStay, acceptorVars, flagVars
<1>11. EntersWithEnough'
  BY <1>1, <1>3, <1>4 DEF EntersWithEnough, acceptorVars
<1>12. IndexesOfNoSurplus'
  <2>1. ASSUME t \notin torn', accepted <= ThreadCount * ConnectionsPerThread
        PROVE  \A f \in DOMAIN fd_to_conn_index'[t] :
                 fd_to_conn_index'[t][f] < ConnectionsPerThread
    <3>1. size = ConnectionsPerThread
      BY <2>1, <1>2, <1>3, <1>4, ExactlyEnough
    <3>2. k < ConnectionsPerThread
      BY <3>1, <1>4, <1>6
    <3>3. \A f \in DOMAIN index : index[f] < ConnectionsPerThread
      BY <2>1, <1>1, <1>4 DEF IndexesOfNoSurplus
    <3> QED
      BY <3>2, <3>3, <1>7, <1>8
  <2> QED
    BY <2>1, <1>1, <1>3, <1>4, <1>7 DEF IndexesOfNoSurplus, Handling, acceptorVars
<1> QED
  BY <1>9, <1>10, <1>11, <1>12 DEF ThreadsInv

(* main and the clock touch nothing but main and expired. *)
LEMMA MainKeepsInv ==
  ASSUME ThreadsInv, Main \/ Tick \/ UNCHANGED vars
  PROVE  ThreadsInv'
<1> USE DEF ThreadsInv, Main, JoinWorkers, CloseListenFd, JoinAcceptor, Tick, vars,
            acceptorVars, flagVars, workerVars
<1>1. TypeOK'
  BY DEF TypeOK
<1>2. CountersAgree' /\ DealtRoundRobin' /\ TimerBeforePush' /\ EntersWithEnough'
        /\ ServesWithTimer' /\ WorkersStay'
  BY DEF CountersAgree, DealtRoundRobin, TimerBeforePush, EntersWithEnough, ServesWithTimer,
         WorkersStay, TypeOK
<1>3. IndexesOfNoSurplus'
  BY DEF IndexesOfNoSurplus, Handling
<1> QED
  BY <1>1, <1>2, <1>3

LEMMA NextKeepsInv ==
  ASSUME ThreadsInv, [Next]_vars
  PROVE  ThreadsInv'
<1>1. CASE Accept
  BY <1>1, AcceptKeepsInv
<1>2. CASE StartTimer
  BY <1>2, StartTimerKeepsInv
<1>3. CASE Push \/ EndGrowing
  BY <1>3, AppendKeepsInv DEF Push, EndGrowing
<1>4. CASE StartGrowing
  BY <1>4, StartGrowingKeepsInv
<1>5. CASE NothingToAccept \/ AcceptFails
  BY <1>5, AcceptorExitKeepsInv
<1>6. ASSUME NEW t \in Threads, Worker(t)
      PROVE  ThreadsInv'
  <2>1. CASE Setup(t) \/ StopWorking(t) \/ EndInit(t) \/ EndServing(t) \/ CheckTime(t)
    BY <2>1, MoveKeepsInv
  <2>2. CASE AwaitConnections(t)
    BY <2>2, AwaitKeepsInv
  <2>3. CASE KeepWaiting(t)
    BY <2>3, MainKeepsInv DEF KeepWaiting
  <2>4. CASE EnterHandleConnection(t)
    BY <2>4, EnterKeepsInv
  <2>5. CASE InitOperation(t)
    BY <2>5, InitOperationKeepsInv
  <2> QED
    BY <1>6, <2>1, <2>2, <2>3, <2>4, <2>5 DEF Worker
<1>7. CASE Main \/ Tick \/ Terminated \/ UNCHANGED vars
  BY <1>7, MainKeepsInv DEF Terminated
<1> QED
  BY <1>1, <1>2, <1>3, <1>4, <1>5, <1>6, <1>7 DEF Next, Acceptor

(***************************************************************************)
(* The theorems.                                                           *)
(***************************************************************************)

(* The invariant holds in every reachable state of server.cpp's threads.   *)
THEOREM ThreadsInvariant == Spec => []ThreadsInv
<1>1. Init => ThreadsInv
  BY InitInv
<1>2. ThreadsInv /\ [Next]_vars => ThreadsInv'
  BY NextKeepsInv
<1> QED
  BY <1>1, <1>2, PTL DEF Spec

(* Without surplus clients and torn reads no worker indexes message_count  *)
(* or per_second_metrics beyond connections_per_thread.                    *)
THEOREM IndexAlwaysInBounds == Spec => []IndexInBounds
<1>1. ThreadsInv => IndexInBounds
  <2> SUFFICES ASSUME ThreadsInv, NEW t \in Threads, Handling(t), t \notin torn,
                      accepted <= ThreadCount * ConnectionsPerThread
               PROVE  /\ num_connections[t] = ConnectionsPerThread
                      /\ \A fd \in DOMAIN fd_to_conn_index[t] :
                           fd_to_conn_index[t][fd] < num_connections[t]
    BY DEF IndexInBounds
  <2> QED
    BY DEF ThreadsInv, IndexesOfNoSurplus
<1> QED
  BY <1>1, ThreadsInvariant, PTL

(* No worker handles connections before the timer of the run has started.  *)
THEOREM TimerAlwaysFirst == Spec => []ServesWithTimer
<1>1. ThreadsInv => ServesWithTimer
  BY DEF ThreadsInv
<1> QED
  BY <1>1, ThreadsInvariant, PTL

(* A worker that was set up stays until the time is over or the acceptor   *)
(* has stopped.                                                            *)
THEOREM WorkersAlwaysStay == Spec => []WorkersStay
<1>1. ThreadsInv => WorkersStay
  BY DEF ThreadsInv
<1> QED
  BY <1>1, ThreadsInvariant, PTL

(* The variables keep their types. *)
THEOREM TypeCorrect == Spec => []TypeOK
<1>1. ThreadsInv => TypeOK
  BY DEF ThreadsInv
<1> QED
  BY <1>1, ThreadsInvariant, PTL

(***************************************************************************)
(* The smaller programs: no step but a program's own disturbs it.          *)
(***************************************************************************)

(* A program's steps are its own. *)
LEMMA Dispatch ==
  ASSUME [ProgramNext]_programs
  PROVE  /\ program' = program
         /\ program = "setup" => [Liburing!Next]_(Liburing!vars)
         /\ program = "serve" => [Serve!Next]_(Serve!server)
         /\ program = "max" => [Stream!Next]_(Stream!max)
         /\ program = "pair" => [Pair!Next]_(Pair!stream)
         /\ program = "pages" => [Pages!Next]_(Pages!getpage)
         /\ program = "batches" => [Batches!Next]_(Batches!getpageiou)
         /\ program = "frames" => [Frames!Next]_(Frames!dpdk)
         /\ program = "futures" => [Futures!Next]_(Futures!seastar)
         /\ program = "tasks" => [Tasks!Next]_(Tasks!tokio)
         /\ program = "run" => [Run!Next]_(Run!run)
<1>1. KeepUnused => program' = program
  BY DEF KeepUnused
<1>2. CASE UNCHANGED programs
  BY <1>2 DEF programs
<1>3. CASE ProgramNext
  BY <1>1, <1>3 DEF ProgramNext, SetupStep, ServeStep, MaxStep, PairStep, PagesStep, BatchesStep,
       FramesStep, FuturesStep, TasksStep, RunStep
<1> QED
  BY <1>2, <1>3

LEMMA InitOf ==
  ASSUME ProgramInit
  PROVE  /\ program = "setup" => Liburing!Init
         /\ program = "serve" => Serve!Init
         /\ program = "max" => Stream!Init
         /\ program = "pair" => Pair!Init
         /\ program = "pages" => Pages!Init
         /\ program = "batches" => Batches!Init
         /\ program = "frames" => Frames!Init
         /\ program = "futures" => Futures!Init
         /\ program = "tasks" => Tasks!Init
         /\ program = "run" => Run!Init
BY DEF ProgramInit

(***************************************************************************)
(* The full-duplex pair (PageStream).                                      *)
(***************************************************************************)

PairTypeOK ==
  /\ client \in [send : Nat, sent : Nat, recv : Nat, received : Nat, retired : Nat]
  /\ server \in [send : Nat, sent : Nat, recv : Nat, received : Nat]
  /\ up \in Nat /\ down \in Nat
  /\ total_requests_completed \in Nat
  /\ shortfall \in [requests : Nat, pages : Nat]

(* The three sides of AwaitedIsOnItsWay: requests, answers, pages.         *)
Asked == up + shortfall.requests
Owed == server.received + server.send
Paged == down + shortfall.pages

PairInv == PairTypeOK /\ Pair!BuffersKept /\ Pair!AwaitedIsOnItsWay

(* Products of sizes and counts. *)
LEMMA Distributes ==
  \A k, a, b \in Int : k * (a + b) = k * a + k * b /\ k * (a - b) = k * a - k * b
OBVIOUS

LEMMA Monotonic ==
  \A k \in Nat : \A a, b \in Int : a <= b => k * a <= k * b
OBVIOUS

(* The arithmetic of AwaitedIsOnItsWay: w receives wait, a pieces of       *)
(* requests and p of pages are on the connection or were left out, and the *)
(* server owes o pages.                                                    *)
Covered(w, a, o, p) ==
  PairPageSize * RequestSize * w
    <= PairPageSize * a + PairPageSize * RequestSize * o + RequestSize * p

LEMMA CoveredSteps ==
  ASSUME NEW w \in Int, NEW a \in Int, NEW o \in Int, NEW p \in Int,
         Covered(w, a, o, p)
  PROVE  /\ Covered(w + 1, a + RequestSize, o, p)
         /\ \A n \in Int : n <= RequestSize => Covered(w, a - n, o + 1, p)
         /\ Covered(w, a, o - 1, p + PairPageSize)
         /\ \A n \in Int : n <= PairPageSize => Covered(w - 1, a, o, p - n)
<1> DEFINE P == PairPageSize
           R == RequestSize
           PR == PairPageSize * RequestSize
<1>1. P \in Nat /\ R \in Nat /\ PR \in Nat /\ P * R = PR /\ R * P = PR
  BY PairAssumption
<1> HIDE DEF P, R, PR
<1>2. PR * w <= P * a + PR * o + R * p
  BY DEF Covered, P, R, PR
<1>3. /\ P * a \in Int /\ PR * o \in Int /\ R * p \in Int /\ PR * w \in Int
      /\ PR * 1 = PR
  BY <1>1
<1>4. Covered(w + 1, a + R, o, p)
  <2>1. PR * (w + 1) = PR * w + PR /\ P * (a + R) = P * a + PR
    BY <1>1, <1>3, Distributes
  <2>2. PR * (w + 1) <= P * (a + R) + PR * o + R * p
    BY <1>1, <1>2, <1>3, <2>1
  <2> QED
    BY <2>2 DEF Covered, P, R, PR
<1>5. ASSUME NEW n \in Int, n <= R
      PROVE  Covered(w, a - n, o + 1, p)
  <2>1. /\ P * (a - n) = P * a - P * n /\ PR * (o + 1) = PR * o + PR
        /\ P * n <= P * R /\ P * n \in Int
    BY <1>1, <1>3, <1>5, Distributes, Monotonic
  <2>2. PR * w <= P * (a - n) + PR * (o + 1) + R * p
    BY <1>1, <1>2, <1>3, <2>1
  <2> QED
    BY <2>2 DEF Covered, P, R, PR
<1>6. Covered(w, a, o - 1, p + P)
  <2>1. PR * (o - 1) = PR * o - PR /\ R * (p + P) = R * p + PR
    BY <1>1, <1>3, Distributes
  <2>2. PR * w <= P * a + PR * (o - 1) + R * (p + P)
    BY <1>1, <1>2, <1>3, <2>1
  <2> QED
    BY <2>2 DEF Covered, P, R, PR
<1>7. ASSUME NEW n \in Int, n <= P
      PROVE  Covered(w - 1, a, o, p - n)
  <2>1. /\ PR * (w - 1) = PR * w - PR /\ R * (p - n) = R * p - R * n
        /\ R * n <= R * P /\ R * n \in Int
    BY <1>1, <1>3, <1>7, Distributes, Monotonic
  <2>2. PR * (w - 1) <= P * a + PR * o + R * (p - n)
    BY <1>1, <1>2, <1>3, <2>1
  <2> QED
    BY <2>2 DEF Covered, P, R, PR
<1> QED
  BY <1>4, <1>5, <1>6, <1>7 DEF P, R

LEMMA AwaitedIsCovered == Pair!AwaitedIsOnItsWay <=> Covered(Pair!Awaiting, Asked, Owed, Paged)
BY DEF Pair!AwaitedIsOnItsWay, Covered, Asked, Owed, Paged

LEMMA InitPair ==
  ASSUME Pair!Init
  PROVE  PairInv
<1>1. PairTypeOK /\ Pair!BuffersKept
  BY PairAssumption DEF Pair!Init, PairTypeOK, Pair!BuffersKept
<1>2. Pair!Awaiting = 0 /\ Asked = 0 /\ Owed = 0 /\ Paged = 0
  BY DEF Pair!Init, Pair!Awaiting, Asked, Owed, Paged
<1>3. \A k \in Int : k * 0 = 0
  OBVIOUS
<1>4. PairPageSize \in Int /\ RequestSize \in Int /\ PairPageSize * RequestSize \in Int
  BY PairAssumption
<1>5. Covered(0, 0, 0, 0)
  BY <1>3, <1>4 DEF Covered
<1> QED
  BY <1>1, <1>2, <1>5, AwaitedIsCovered DEF PairInv

(* A send puts on the connection what it does not leave out. *)
LEMMA SendsWhole ==
  ASSUME NEW size \in Nat, NEW n \in Nat, NEW k \in Pair!Sends(size, n)
  PROVE  k \in 1 .. size
BY DEF Pair!Sends

(* Steps of the event loops change the stage of an operation only.         *)
LEMMA LoopsKeepPair ==
  ASSUME PairInv, Pair!Client \/ Pair!Server
  PROVE  PairInv'
<1> USE DEF PairInv
<1>1. CASE Pair!ClientSendDone
  <2>1. PairTypeOK' /\ Pair!BuffersKept'
    BY <1>1 DEF Pair!ClientSendDone, Pair!Stage, PairTypeOK, Pair!BuffersKept
  <2>2. Pair!Awaiting' = Pair!Awaiting /\ Asked' = Asked /\ Owed' = Owed /\ Paged' = Paged
    BY <1>1 DEF Pair!ClientSendDone, Pair!Stage, PairTypeOK, Pair!Awaiting, Asked, Owed, Paged
  <2> QED
    BY <2>1, <2>2, AwaitedIsCovered DEF Pair!AwaitedIsOnItsWay, Covered, Asked, Owed, Paged
<1>2. CASE Pair!ClientRecvDone
  <2>1. PairTypeOK' /\ Pair!BuffersKept'
    BY <1>2 DEF Pair!ClientRecvDone, Pair!Stage, PairTypeOK, Pair!BuffersKept
  <2>2. Pair!Awaiting' = Pair!Awaiting /\ Asked' = Asked /\ Owed' = Owed /\ Paged' = Paged
    BY <1>2 DEF Pair!ClientRecvDone, Pair!Stage, PairTypeOK, Pair!Awaiting, Asked, Owed, Paged
  <2> QED
    BY <2>1, <2>2, AwaitedIsCovered DEF Pair!AwaitedIsOnItsWay, Covered, Asked, Owed, Paged
<1>3. CASE Pair!ServerRecvDone
  <2>1. PairTypeOK' /\ Pair!BuffersKept'
    <3>1. /\ server'.received = server.received - 1 /\ server'.recv = server.recv + 1
          /\ server'.send = server.send + 1 /\ server'.sent = server.sent
          /\ server.received > 0
      BY <1>3 DEF Pair!ServerRecvDone, PairTypeOK
    <3>2. server' \in [send : Nat, sent : Nat, recv : Nat, received : Nat]
      <4>1. server.received - 1 \in Nat /\ server.send + 1 \in Nat /\ server.recv + 1 \in Nat
        BY <3>1 DEF PairTypeOK
      <4>2. \A r, s, t \in Nat :
              [server EXCEPT !.received = r, !.send = s, !.recv = t]
                \in [send : Nat, sent : Nat, recv : Nat, received : Nat]
        BY DEF PairTypeOK
      <4> QED
        BY <1>3, <4>1, <4>2 DEF Pair!ServerRecvDone
    <3>3. UNCHANGED <<client, up, down, total_requests_completed, shortfall>>
      BY <1>3 DEF Pair!ServerRecvDone
    <3> QED
      BY <3>1, <3>2, <3>3 DEF PairTypeOK, Pair!BuffersKept
  <2>2. Pair!Awaiting' = Pair!Awaiting /\ Asked' = Asked /\ Owed' = Owed /\ Paged' = Paged
    BY <1>3 DEF Pair!ServerRecvDone, PairTypeOK, Pair!Awaiting, Asked, Owed, Paged
  <2> QED
    BY <2>1, <2>2, AwaitedIsCovered DEF Pair!AwaitedIsOnItsWay, Covered, Asked, Owed, Paged
<1>4. CASE Pair!ServerSendDone
  <2>1. PairTypeOK' /\ Pair!BuffersKept'
    BY <1>4 DEF Pair!ServerSendDone, PairTypeOK, Pair!BuffersKept
  <2>2. Pair!Awaiting' = Pair!Awaiting /\ Asked' = Asked /\ Owed' = Owed /\ Paged' = Paged
    BY <1>4 DEF Pair!ServerSendDone, PairTypeOK, Pair!Awaiting, Asked, Owed, Paged
  <2> QED
    BY <2>1, <2>2, AwaitedIsCovered DEF Pair!AwaitedIsOnItsWay, Covered, Asked, Owed, Paged
<1> QED
  BY <1>1, <1>2, <1>3, <1>4 DEF Pair!Client, Pair!Server

(* The new state is covered when its four sides are. *)
LEMMA CoveredNext ==
  ASSUME Covered(Pair!Awaiting', Asked', Owed', Paged')
  PROVE  Pair!AwaitedIsOnItsWay'
BY DEF Pair!AwaitedIsOnItsWay, Covered, Pair!Awaiting, Asked, Owed, Paged

LEMMA KernelKeepsPair ==
  ASSUME PairInv, Pair!Kernel
  PROVE  PairInv'
<1>1. PairTypeOK /\ Pair!BuffersKept /\ Covered(Pair!Awaiting, Asked, Owed, Paged)
  BY AwaitedIsCovered DEF PairInv
<1>2. Pair!Awaiting \in Int /\ Asked \in Int /\ Owed \in Int /\ Paged \in Int
  BY <1>1 DEF PairTypeOK, Pair!Awaiting, Asked, Owed, Paged
<1>3. RequestSize \in Nat /\ PairPageSize \in Nat
  BY PairAssumption
<1>4. CASE Pair!ClientSend
  <2>1. PICK n \in Pair!Sends(RequestSize, up) :
          up' = up + n /\ shortfall' = [shortfall EXCEPT !.requests = @ + RequestSize - n]
    BY <1>4 DEF Pair!ClientSend
  <2>2. n \in 1 .. RequestSize
    BY <1>1, <1>3, SendsWhole DEF PairTypeOK
  <2>3. PairTypeOK' /\ Pair!BuffersKept'
    BY <1>1, <1>3, <1>4, <2>1, <2>2 DEF Pair!ClientSend, Pair!Stage, PairTypeOK, Pair!BuffersKept
  <2>4. /\ Pair!Awaiting' = Pair!Awaiting + 1 /\ Asked' = Asked + RequestSize
        /\ Owed' = Owed /\ Paged' = Paged
    BY <1>1, <1>3, <1>4, <2>1, <2>2
    DEF Pair!ClientSend, Pair!Stage, PairTypeOK, Pair!Awaiting, Asked, Owed, Paged
  <2>5. Pair!AwaitedIsOnItsWay'
    BY <1>1, <1>2, <2>4, CoveredSteps, CoveredNext
  <2> QED
    BY <2>3, <2>5 DEF PairInv
<1>5. CASE Pair!ServerSend
  <2>1. PICK n \in Pair!Sends(PairPageSize, down) :
          down' = down + n /\ shortfall' = [shortfall EXCEPT !.pages = @ + PairPageSize - n]
    BY <1>5 DEF Pair!ServerSend
  <2>2. n \in 1 .. PairPageSize
    BY <1>1, <1>3, SendsWhole DEF PairTypeOK
  <2>3. PairTypeOK' /\ Pair!BuffersKept'
    BY <1>1, <1>3, <1>5, <2>1, <2>2 DEF Pair!ServerSend, Pair!Stage, PairTypeOK, Pair!BuffersKept
  <2>4. /\ Pair!Awaiting' = Pair!Awaiting /\ Asked' = Asked
        /\ Owed' = Owed - 1 /\ Paged' = Paged + PairPageSize
    BY <1>1, <1>3, <1>5, <2>1, <2>2
    DEF Pair!ServerSend, Pair!Stage, PairTypeOK, Pair!Awaiting, Asked, Owed, Paged
  <2>5. Pair!AwaitedIsOnItsWay'
    BY <1>1, <1>2, <2>4, CoveredSteps, CoveredNext
  <2> QED
    BY <2>3, <2>5 DEF PairInv
<1>6. CASE Pair!ServerRecv
  <2>1. PICK n \in 1 .. RequestSize : n <= up /\ up' = up - n
    BY <1>6 DEF Pair!ServerRecv
  <2>2. n \in Int /\ n <= RequestSize
    BY <1>3, <2>1
  <2>3. PairTypeOK' /\ Pair!BuffersKept'
    BY <1>1, <1>3, <1>6, <2>1 DEF Pair!ServerRecv, Pair!Stage, PairTypeOK, Pair!BuffersKept
  <2>4. /\ Pair!Awaiting' = Pair!Awaiting /\ Asked' = Asked - n
        /\ Owed' = Owed + 1 /\ Paged' = Paged
    BY <1>1, <1>6, <2>1, <2>2
    DEF Pair!ServerRecv, Pair!Stage, PairTypeOK, Pair!Awaiting, Asked, Owed, Paged
  <2>5. Pair!AwaitedIsOnItsWay'
    BY <1>1, <1>2, <2>2, <2>4, CoveredSteps, CoveredNext
  <2> QED
    BY <2>3, <2>5 DEF PairInv
<1>7. CASE Pair!ClientRecv
  <2>1. PICK n \in 1 .. PairPageSize : n <= down /\ down' = down - n
    BY <1>7 DEF Pair!ClientRecv
  <2>2. n \in Int /\ n <= PairPageSize
    BY <1>3, <2>1
  <2>3. PairTypeOK' /\ Pair!BuffersKept'
    BY <1>1, <1>3, <1>7, <2>1 DEF Pair!ClientRecv, Pair!Stage, PairTypeOK, Pair!BuffersKept
  <2>4. /\ Pair!Awaiting' = Pair!Awaiting - 1 /\ Asked' = Asked
        /\ Owed' = Owed /\ Paged' = Paged - n
    BY <1>1, <1>7, <2>1, <2>2
    DEF Pair!ClientRecv, Pair!Stage, PairTypeOK, Pair!Awaiting, Asked, Owed, Paged
  <2>5. Pair!AwaitedIsOnItsWay'
    BY <1>1, <1>2, <2>2, <2>4, CoveredSteps, CoveredNext
  <2> QED
    BY <2>3, <2>5 DEF PairInv
<1> QED
  BY <1>4, <1>5, <1>6, <1>7 DEF Pair!Kernel

LEMMA NextKeepsPair ==
  ASSUME PairInv, [Pair!Next]_Pair!stream
  PROVE  PairInv'
<1>1. CASE Pair!Client \/ Pair!Server
  BY <1>1, LoopsKeepPair
<1>2. CASE Pair!Kernel
  BY <1>2, KernelKeepsPair
<1>3. CASE Pair!Lost \/ Pair!Tick \/ UNCHANGED Pair!stream
  <2>1. UNCHANGED <<client, server, up, down, total_requests_completed, shortfall>>
    BY <1>3 DEF Pair!Lost, Pair!Tick, Pair!stream
  <2> QED
    BY <2>1 DEF PairInv, PairTypeOK, Pair!BuffersKept, Pair!AwaitedIsOnItsWay, Pair!Awaiting
<1> QED
  BY <1>1, <1>2, <1>3 DEF Pair!Next

(* With no piece left out by a short send, a waiting receive is never      *)
(* waiting for nothing: a page or a request is on the connection or the    *)
(* server holds a request, so one of the two ends or the kernel can step.  *)
THEOREM NobodyStarves ==
  ProgramSpec => [](/\ program = "pair" /\ Pair!Awaiting > 0
             /\ shortfall = [requests |-> 0, pages |-> 0]
             => up > 0 \/ server.received > 0 \/ server.send > 0 \/ down > 0)
<1>1. ASSUME PairInv, Pair!Awaiting > 0, shortfall = [requests |-> 0, pages |-> 0],
             ~(up > 0 \/ server.received > 0 \/ server.send > 0 \/ down > 0)
      PROVE  FALSE
  <2>1. PairTypeOK /\ Covered(Pair!Awaiting, Asked, Owed, Paged)
    BY <1>1, AwaitedIsCovered DEF PairInv
  <2>2. Asked = 0 /\ Owed = 0 /\ Paged = 0 /\ Pair!Awaiting \in Nat /\ 1 <= Pair!Awaiting
    BY <1>1, <2>1 DEF PairTypeOK, Asked, Owed, Paged, Pair!Awaiting
  <2> DEFINE k == PairPageSize * RequestSize
  <2>3. k \in Nat /\ k > 0 /\ PairPageSize * 0 = 0 /\ RequestSize * 0 = 0 /\ k * 0 = 0
    BY PairAssumption
  <2>4. k * Pair!Awaiting <= 0
    BY <2>1, <2>2, <2>3 DEF Covered
  <2> HIDE DEF k
  <2>5. k * 1 <= k * Pair!Awaiting /\ k * 1 = k /\ k * Pair!Awaiting \in Int
    BY <2>2, <2>3, Monotonic
  <2> QED
    BY <2>3, <2>4, <2>5
<1> DEFINE I == program = "pair" => PairInv
<1>2. ProgramInit => I
  BY InitOf, InitPair
<1>3. I /\ [ProgramNext]_programs => I'
  BY Dispatch, NextKeepsPair
<1>4. I => (/\ program = "pair" /\ Pair!Awaiting > 0
            /\ shortfall = [requests |-> 0, pages |-> 0]
            => up > 0 \/ server.received > 0 \/ server.send > 0 \/ down > 0)
  BY <1>1
<1> QED
  BY <1>2, <1>3, <1>4, PTL DEF ProgramSpec

(***************************************************************************)
(* The DPDK sender and receiver (Dpdk).                                    *)
(***************************************************************************)

FrameKinds == {"reply", "other"}

Owners == {"free", "rx", "tx", "app"}
Pools == [free : Int, rx : Int, tx : Nat, app : Nat]

FramesTypeOK ==
  /\ sender \in {"start", "arp", "wait_reply", "alloc", "tx", "complete", "exited", "crashed"}
  /\ pool \in Pools
  /\ i \in Nat /\ burst \in Nat /\ sent \in Nat
  /\ frames \in Seq(FrameKinds)
  /\ wire \in Nat /\ counted \in Nat /\ foreign \in Nat /\ lost \in Nat

(* Where the sender is, and what it and the driver hold then. *)
FramesPlaces ==
  /\ pool.free + pool.rx + pool.tx + pool.app = NumMbufs
  /\ pool.rx <= RxRingSize /\ pool.tx <= TxRingSize
  /\ burst <= BurstSize /\ (sender # "tx" => burst = 0)
  /\ burst <= pool.app /\ pool.app < burst + BurstSize
  /\ sender \in {"start", "arp", "wait_reply"} => pool.app = 0
  /\ sender \in {"start", "arp"} => pool.tx = 0
  /\ sender = "start" => pool.rx = 0
  /\ sender = "wait_reply" => pool.tx <= 1

(* The ARP request has left before its reply is there. *)
FramesReply ==
  /\ sender \in {"start", "arp"} => \A k \in 1 .. Len(frames) : frames[k] = "other"
  /\ sender = "wait_reply" /\ pool.tx > 0 => \A k \in 1 .. Len(frames) : frames[k] = "other"

FramesArrive ==
  /\ sender \in {"alloc", "tx", "complete", "crashed"} =>
       counted + wire + lost + pool.tx <= sent + foreign
  /\ counted + wire + lost <= sent + foreign
  /\ counted < NumIterations + BurstSize
  /\ receiver = "complete" => counted >= NumIterations

FramesNoCrash ==
  NumMbufs >= RxRingSize + TxRingSize + 2 * BurstSize - 1 => sender # "crashed"

FramesInv == FramesTypeOK /\ FramesPlaces /\ FramesReply /\ FramesArrive /\ FramesNoCrash

(* The smaller of two numbers. *)
LEMMA MinType == \A a, b \in Int : /\ Frames!Min({a, b}) \in {a, b}
                                /\ Frames!Min({a, b}) <= a /\ Frames!Min({a, b}) <= b
<1> TAKE a, b \in Int
<1>1. \E x \in {a, b} : \A y \in {a, b} : x <= y
  BY DEF Frames!Min
<1> QED
  BY <1>1 DEF Frames!Min

LEMMA InitFrames ==
  ASSUME Frames!Init
  PROVE  FramesInv
BY FramesAssumption DEF Frames!Init, FramesInv, FramesTypeOK, FramesPlaces, FramesReply,
   FramesArrive, FramesNoCrash, Pools

(* Buffers change hands. *)
LEMMA PoolMoved ==
  ASSUME pool \in Pools, NEW from \in Owners, NEW to \in Owners, from # to, NEW n \in Nat,
         from \in {"tx", "app"} => n <= pool[from],
         NEW p, p = Frames!Moved(from, to, n)
  PROVE  /\ p \in Pools /\ p[from] = pool[from] - n /\ p[to] = pool[to] + n
         /\ \A owner \in Owners \ {from, to} : p[owner] = pool[owner]
<1> DEFINE a == pool[from] - n
           b == pool[to] + n
<1>1. /\ a \in Int /\ b \in Int
      /\ from \in {"tx", "app"} => a \in Nat
      /\ to \in {"tx", "app"} => b \in Nat
  BY DEF Pools, Owners
<1>2. p = [pool EXCEPT ![from] = a, ![to] = b]
  BY DEF Frames!Moved
<1> HIDE DEF a, b
<1>3. p[from] = a /\ p[to] = b /\ \A owner \in Owners \ {from, to} : p[owner] = pool[owner]
  BY <1>2 DEF Pools, Owners
<1>4. p \in Pools
  BY <1>1, <1>2 DEF Pools, Owners
<1> QED
  BY <1>3, <1>4 DEF a, b

LEMMA PoolUnsentFreed ==
  ASSUME pool \in Pools, burst \in Nat, burst <= pool.app, NEW n \in Nat,
         NEW p, p = Frames!UnsentFreed(n)
  PROVE  /\ p \in Pools /\ p.free = pool.free + burst - n /\ p.app = pool.app - burst
         /\ p.rx = pool.rx /\ p.tx = pool.tx + n
<1> DEFINE a == pool.app - burst
           b == pool.tx + n
           c == pool.free + burst - n
<1>1. a \in Nat /\ b \in Nat /\ c \in Int
  BY DEF Pools
<1>2. p = [pool EXCEPT !.app = a, !.tx = b, !.free = c]
  BY DEF Frames!UnsentFreed
<1> HIDE DEF a, b, c
<1>3. p \in Pools /\ p.free = c /\ p.app = a /\ p.rx = pool.rx /\ p.tx = b
  BY <1>1, <1>2 DEF Pools
<1> QED
  BY <1>3 DEF a, b, c

LEMMA PoolNow ==
  ASSUME FramesInv
  PROVE  /\ pool \in Pools
         /\ pool.free \in Int /\ pool.rx \in Int /\ pool.tx \in Nat /\ pool.app \in Nat
BY DEF FramesInv, FramesTypeOK, Pools

LEMMA PortInitKeeps ==
  ASSUME FramesInv, Frames!PortInit
  PROVE  FramesInv'
<1>1. sender = "start" /\ sender' \in {"exited", "arp"}
      /\ UNCHANGED <<i, burst, max_retries, frames, sent, wire, receiver, counted, foreign, lost>>
  BY DEF Frames!PortInit
<1>2. pool' = pool \/ pool' = Frames!Moved("free", "rx", RxRingSize)
  BY DEF Frames!PortInit
<1>3. /\ pool' \in Pools /\ pool'.rx \in {pool.rx, pool.rx + RxRingSize}
      /\ pool'.free + pool'.rx = pool.free + pool.rx /\ pool'.tx = pool.tx /\ pool'.app = pool.app
      /\ pool'.free \in Int
  <2>1. CASE pool' = pool
    BY <2>1, PoolNow
  <2>2. CASE pool' = Frames!Moved("free", "rx", RxRingSize)
    <3>1. RxRingSize \in Nat
      BY FramesAssumption
    <3>2. /\ pool' \in Pools /\ pool'.free = pool.free - RxRingSize
          /\ pool'.rx = pool.rx + RxRingSize /\ pool'.tx = pool.tx /\ pool'.app = pool.app
      BY <2>2, <3>1, PoolNow, PoolMoved DEF Owners
    <3> QED
      BY <3>1, <3>2, PoolNow
  <2> QED
    BY <1>2, <2>1, <2>2
<1>4. pool.rx = 0
  BY <1>1 DEF FramesInv, FramesPlaces
<1>5. FramesPlaces'
  BY <1>1, <1>3, <1>4, PoolNow, FramesAssumption DEF FramesInv, FramesPlaces
<1> QED
  BY <1>1, <1>3, <1>5 DEF FramesInv, FramesTypeOK, FramesReply, FramesArrive, FramesNoCrash

LEMMA SendArpKeeps ==
  ASSUME FramesInv, Frames!SendArp
  PROVE  FramesInv'
<1>1. sender = "arp" /\ sender' \in {"exited", "wait_reply"}
      /\ UNCHANGED <<i, burst, max_retries, frames, sent, wire, receiver, counted, foreign, lost>>
  BY DEF Frames!SendArp
<1>2. pool' = pool \/ pool' = Frames!Moved("free", "tx", 1)
  BY DEF Frames!SendArp
<1>3. /\ pool' \in Pools /\ pool'.tx \in {pool.tx, pool.tx + 1}
      /\ pool'.free + pool'.tx = pool.free + pool.tx /\ pool'.rx = pool.rx /\ pool'.app = pool.app
      /\ pool'.free \in Int
  <2>1. CASE pool' = pool
    BY <2>1, PoolNow
  <2>2. CASE pool' = Frames!Moved("free", "tx", 1)
    <3>1. /\ pool' \in Pools /\ pool'.free = pool.free - 1 /\ pool'.tx = pool.tx + 1
          /\ pool'.rx = pool.rx /\ pool'.app = pool.app
      <4> DEFINE p == pool'
                 from == "free"
                 to == "tx"
      <4>1. from \in Owners /\ to \in Owners /\ from # to /\ from \notin {"tx", "app"}
        BY DEF Owners
      <4>2. p = Frames!Moved(from, to, 1)
        BY <2>2
      <4> HIDE DEF p, from, to
      <4>3. /\ p \in Pools /\ p[from] = pool[from] - 1 /\ p[to] = pool[to] + 1
            /\ \A owner \in Owners \ {from, to} : p[owner] = pool[owner]
        BY ONLY <4>1, <4>2, PoolNow, PoolMoved, FramesInv, 1 \in Nat
      <4> QED
        BY <4>3 DEF p, from, to, Owners
    <3> QED
      BY <3>1, PoolNow
  <2> QED
    BY <1>2, <2>1, <2>2
<1>4. FramesPlaces'
  BY <1>1, <1>3, PoolNow, FramesAssumption DEF FramesInv, FramesPlaces
<1> QED
  BY <1>1, <1>3, <1>4 DEF FramesInv, FramesTypeOK, FramesReply, FramesArrive, FramesNoCrash

(* A first reply among the frames polled is one of them, so less than a burst is kept. *)
LEMMA KeptType ==
  ASSUME NEW polled \in Seq(FrameKinds), Len(polled) <= BurstSize
  PROVE  Frames!Kept(polled) \in 0 .. BurstSize - 1
<1> DEFINE At == {k \in 1 .. Len(polled) : polled[k] = "reply"}
<1>1. CASE Frames!Contains(polled, "reply")
  <2>1. At # {} /\ At \in SUBSET Nat /\ At \subseteq 1 .. Len(polled)
    BY <1>1 DEF Frames!Contains
  <2>2. Frames!SelectInSeq(polled, LAMBDA packet : packet = "reply") = Frames!Min(At)
    BY <2>1 DEF Frames!SelectInSeq
  <2> HIDE DEF At
  <2>3. \E m \in At : \A n \in At : m <= n
    BY <2>1, SmallestOf
  <2>4. Frames!Min(At) \in At
    BY <2>3 DEF Frames!Min
  <2> QED
    BY <1>1, <2>1, <2>2, <2>4, FramesAssumption DEF Frames!Kept
<1> QED
  BY <1>1, FramesAssumption DEF Frames!Kept

LEMMA WaitReplyKeeps ==
  ASSUME FramesInv, Frames!WaitReply
  PROVE  FramesInv'
<1>1. sender = "wait_reply"
      /\ UNCHANGED <<i, burst, sent, wire, receiver, counted, foreign, lost>>
  BY DEF Frames!WaitReply
<1>2. CASE max_retries = 0
  <2>1. sender' = "exited" /\ UNCHANGED <<pool, frames>>
    BY <1>2 DEF Frames!WaitReply
  <2> QED
    BY <1>1, <2>1, FramesAssumption DEF FramesInv, FramesTypeOK, FramesPlaces, FramesReply,
       FramesArrive, FramesNoCrash
<1>3. CASE max_retries # 0
  <2> DEFINE n == Frames!Min({Len(frames), BurstSize})
             polled == SubSeq(frames, 1, n)
             rest == SubSeq(frames, n + 1, Len(frames))
             kept == Frames!Kept(polled)
  <2>1. n \in 0 .. Len(frames) /\ n <= BurstSize
    <3>1. frames \in Seq(FrameKinds) /\ BurstSize \in Nat
      BY FramesAssumption DEF FramesInv, FramesTypeOK
    <3>2. Len(frames) \in Nat /\ Len(frames) \in Int /\ BurstSize \in Int
      BY <3>1
    <3>3. n \in {Len(frames), BurstSize} /\ n <= Len(frames) /\ n <= BurstSize
      BY ONLY <3>2, MinType
    <3> QED
      BY <3>1, <3>2, <3>3
  <2>2. /\ frames' = rest
        /\ pool' = Frames!Moved("free", "app", kept)
        /\ sender' = IF Frames!Contains(polled, "reply") THEN "alloc" ELSE "wait_reply"
    BY <1>3 DEF Frames!WaitReply
  <2> HIDE DEF n
  <2>3. frames \in Seq(FrameKinds)
    BY DEF FramesInv, FramesTypeOK
  <2>4. /\ polled \in Seq(FrameKinds) /\ Len(polled) = n
        /\ \A k \in 1 .. n : polled[k] = frames[k]
    BY <2>1, <2>3
  <2>5. /\ rest \in Seq(FrameKinds) /\ Len(rest) = Len(frames) - n
        /\ \A k \in 1 .. Len(rest) : rest[k] = frames[n + k]
    <3>1. Len(rest) = Len(frames) - n /\ rest \in Seq(FrameKinds)
      BY ONLY <2>1, <2>3 DEF rest
    <3>2. \A k \in 1 .. Len(frames) - n : rest[k] = frames[n + k]
      BY ONLY <2>1, <2>3
    <3> QED
      BY ONLY <3>1, <3>2
  <2>6. kept \in 0 .. BurstSize - 1
    BY <2>1, <2>4, KeptType
  <2>7. ~Frames!Contains(polled, "reply") => kept = 0
    BY DEF Frames!Kept
  <2>8. Frames!Contains(polled, "reply") => \E k \in 1 .. Len(frames) : frames[k] = "reply"
    BY <2>1, <2>4 DEF Frames!Contains
  <2> HIDE DEF kept, polled, rest
  <2>9. /\ pool' \in Pools /\ pool'.free = pool.free - kept /\ pool'.app = pool.app + kept
        /\ pool'.rx = pool.rx /\ pool'.tx = pool.tx
    <3>1. kept \in Nat
      BY <2>6, FramesAssumption
    <3> QED
      BY <2>2, <3>1, PoolNow, PoolMoved DEF Owners
  <2>10. pool.app = 0 /\ pool.tx <= 1
    BY <1>1 DEF FramesInv, FramesPlaces
  <2>11. FramesReply'
    <3>1. CASE pool.tx > 0
      <4>1. \A k \in 1 .. Len(frames) : frames[k] = "other"
        BY <1>1, <3>1 DEF FramesInv, FramesReply
      <4>2. \A k \in 1 .. Len(rest) : n + k \in 1 .. Len(frames)
        BY <2>1, <2>3, <2>5
      <4>3. \A k \in 1 .. Len(rest) : rest[k] = "other"
        BY <2>5, <4>1, <4>2
      <4> QED
        BY <2>2, <4>3 DEF FramesReply
    <3>2. CASE ~(pool.tx > 0)
      BY <2>2, <2>9, <3>2 DEF FramesReply
    <3> QED
      BY <3>1, <3>2
  <2>12. FramesTypeOK'
    BY <1>1, <2>2, <2>5, <2>9 DEF FramesInv, FramesTypeOK
  <2>13. FramesPlaces'
    BY <1>1, <2>2, <2>6, <2>7, <2>9, <2>10, PoolNow, FramesAssumption DEF FramesInv, FramesPlaces
  <2>14. FramesNoCrash'
    BY <2>2 DEF FramesNoCrash
  <2>15. sender' = "alloc" => ~(pool.tx > 0)
    BY <1>1, <2>2, <2>8 DEF FramesInv, FramesReply
  <2>16. FramesArrive'
    BY <1>1, <2>2, <2>9, <2>15, PoolNow, FramesAssumption DEF FramesInv, FramesTypeOK,
       FramesArrive
  <2> QED
    BY <2>11, <2>12, <2>13, <2>14, <2>16 DEF FramesInv
<1> QED
  BY <1>2, <1>3

LEMMA AllocKeeps ==
  ASSUME FramesInv, Frames!Alloc
  PROVE  FramesInv'
<1>1. sender = "alloc"
      /\ UNCHANGED <<i, frames, sent, wire, receiver, counted, foreign, lost>>
  BY DEF Frames!Alloc
<1> DEFINE n == Frames!Min({BurstSize, NumIterations - i})
<1>2. /\ n <= BurstSize /\ n \in Int /\ (i < NumIterations => n \in 1 .. BurstSize)
      /\ BurstSize \in Nat \ {0} /\ burst = 0
  <2>1. BurstSize \in Nat \ {0} /\ NumIterations - i \in Int /\ i \in Nat /\ NumIterations \in Nat
    BY FramesAssumption DEF FramesInv, FramesTypeOK
  <2>2. n \in {BurstSize, NumIterations - i} /\ n <= BurstSize
    BY <2>1, MinType
  <2> QED
    BY <1>1, <2>1, <2>2 DEF FramesInv, FramesPlaces
<1>3. \/ sender' = "complete" /\ UNCHANGED <<pool, burst>>
      \/ sender' = "crashed" /\ UNCHANGED <<pool, burst>> /\ pool.free < n
      \/ /\ i < NumIterations
         /\ pool' = Frames!Moved("free", "app", n)
         /\ burst' = n /\ sender' = "tx"
  <2>1. i \in Nat /\ NumIterations \in Nat
    BY FramesAssumption DEF FramesInv, FramesTypeOK
  <2>2. i < NumIterations <=> ~(i >= NumIterations)
    BY <2>1
  <2> QED
    BY <2>2 DEF Frames!Alloc
<1> HIDE DEF n
<1>4. CASE sender' = "tx"
  <2>1. /\ pool' \in Pools /\ pool'.free = pool.free - n /\ pool'.app = pool.app + n
        /\ pool'.rx = pool.rx /\ pool'.tx = pool.tx /\ burst' = n /\ n \in 1 .. BurstSize
    <3>1. /\ n \in 1 .. BurstSize /\ n \in Nat /\ burst' = n
          /\ pool' = Frames!Moved("free", "app", n)
      BY <1>2, <1>3, <1>4
    <3> QED
      BY <3>1, PoolNow, PoolMoved DEF Owners
  <2>2. FramesPlaces'
    BY <1>1, <1>2, <1>4, <2>1, PoolNow DEF FramesInv, FramesPlaces
  <2> QED
    BY <1>1, <1>2, <1>4, <2>1, <2>2 DEF FramesInv, FramesTypeOK,
       FramesReply, FramesArrive, FramesNoCrash
<1>5. CASE sender' # "tx"
  <2>1. UNCHANGED <<pool, burst>> /\ sender' \in {"complete", "crashed"}
    BY <1>3, <1>5
  <2>2. FramesPlaces'
    BY <1>1, <1>2, <2>1, PoolNow DEF FramesInv, FramesPlaces
  <2>3. FramesNoCrash'
    <3> SUFFICES ASSUME NumMbufs >= RxRingSize + TxRingSize + 2 * BurstSize - 1
                 PROVE  sender' # "crashed"
      BY DEF FramesNoCrash
    <3>1. pool.free >= n
      BY <1>1, <1>2, PoolNow, FramesAssumption DEF FramesInv, FramesPlaces
    <3> QED
      BY <1>2, <1>3, <3>1, PoolNow
  <2> QED
    BY <1>1, <2>1, <2>2, <2>3 DEF FramesInv, FramesTypeOK, FramesReply, FramesArrive
<1> QED
  BY <1>4, <1>5

LEMMA TxBurstKeeps ==
  ASSUME FramesInv, Frames!TxBurst
  PROVE  FramesInv'
<1> DEFINE n == Frames!Min({burst, TxRingSize - pool.tx})
<1>1. /\ sender = "tx" /\ sender' = "alloc" /\ burst' = 0 /\ i' = i + BurstSize
      /\ sent' = sent + n
      /\ pool' = Frames!UnsentFreed(n)
      /\ UNCHANGED <<frames, wire, receiver, counted, foreign, lost>>
  BY DEF Frames!TxBurst
<1>2. /\ n \in Nat /\ n <= burst /\ n <= TxRingSize - pool.tx /\ burst \in Nat
      /\ burst <= pool.app
  <2>1. /\ burst \in Nat /\ TxRingSize - pool.tx \in Nat /\ burst <= pool.app
    <3>1. burst \in Nat /\ burst <= pool.app /\ pool.tx <= TxRingSize
      BY DEF FramesInv, FramesTypeOK, FramesPlaces
    <3>2. pool.tx \in Nat
      BY PoolNow
    <3>3. TxRingSize \in Nat
      BY FramesAssumption
    <3> QED
      BY ONLY <3>1, <3>2, <3>3
  <2>2. n \in {burst, TxRingSize - pool.tx} /\ n <= burst /\ n <= TxRingSize - pool.tx
    <3>1. burst \in Int /\ TxRingSize - pool.tx \in Int
      BY <2>1
    <3> QED
      BY <3>1, MinType
  <2> QED
    BY <2>1, <2>2
<1> HIDE DEF n
<1>3. /\ pool' \in Pools /\ pool'.free = pool.free + burst - n /\ pool'.app = pool.app - burst
      /\ pool'.rx = pool.rx /\ pool'.tx = pool.tx + n
  BY <1>1, <1>2, PoolNow, PoolUnsentFreed
<1>4. FramesPlaces'
  BY <1>1, <1>2, <1>3, PoolNow, FramesAssumption DEF FramesInv, FramesPlaces
<1>5. FramesArrive'
  <2>1. /\ counted + wire + lost + pool.tx <= sent + foreign
        /\ counted < NumIterations + BurstSize
        /\ receiver = "complete" => counted >= NumIterations
    BY <1>1 DEF FramesInv, FramesArrive
  <2>2. /\ counted \in Nat /\ wire \in Nat /\ lost \in Nat /\ sent \in Nat /\ foreign \in Nat
        /\ pool.tx \in Nat
    BY PoolNow DEF FramesInv, FramesTypeOK
  <2>3. /\ sent' = sent + n /\ pool'.tx = pool.tx + n /\ n \in Nat
        /\ UNCHANGED <<wire, receiver, counted, foreign, lost>>
    BY <1>1, <1>2, <1>3
  <2>4. counted + wire + lost + (pool.tx + n) <= (sent + n) + foreign
    BY ONLY <2>1, <2>2, <2>3
  <2>5. counted + wire + lost <= (sent + n) + foreign
    BY ONLY <2>1, <2>2, <2>3
  <2> QED
    BY ONLY <2>1, <2>3, <2>4, <2>5 DEF FramesArrive
<1>6. FramesTypeOK'
  BY <1>1, <1>2, <1>3, FramesAssumption DEF FramesInv, FramesTypeOK
<1> QED
  BY <1>1, <1>4, <1>5, <1>6 DEF FramesInv, FramesReply, FramesNoCrash

LEMMA ReceiverKeeps ==
  ASSUME FramesInv, Frames!ReceiverInit \/ Frames!Receive
  PROVE  FramesInv'
<1>1. UNCHANGED <<sender, pool, i, burst, max_retries, frames, sent, foreign, lost>>
  BY DEF Frames!ReceiverInit, Frames!Receive
<1>2. CASE Frames!ReceiverInit
  <2>1. receiver' # "complete" /\ UNCHANGED <<wire, counted>>
    BY <1>2 DEF Frames!ReceiverInit
  <2> QED
    BY <1>1, <2>1 DEF FramesInv, FramesTypeOK, FramesPlaces, FramesReply, FramesArrive,
       FramesNoCrash
<1>3. CASE Frames!Receive
  <2>1. CASE Frames!Enough
    <3>1. receiver' = "complete" /\ UNCHANGED <<wire, counted>> /\ counted >= NumIterations
      BY <1>3, <2>1 DEF Frames!Receive, Frames!Enough
    <3> QED
      BY <1>1, <3>1 DEF FramesInv, FramesTypeOK, FramesPlaces, FramesReply, FramesArrive,
         FramesNoCrash
  <2>2. CASE ~Frames!Enough
    <3>1. PICK n \in 1 .. Frames!Min({wire, BurstSize}) :
            counted' = counted + n /\ wire' = wire - n
      BY <1>3, <2>2 DEF Frames!Receive
    <3>2. wire \in Nat /\ BurstSize \in Nat /\ NumIterations \in Nat /\ counted \in Nat
      BY FramesAssumption DEF FramesInv, FramesTypeOK
    <3>3. Frames!Min({wire, BurstSize}) \in {wire, BurstSize}
          /\ Frames!Min({wire, BurstSize}) <= wire /\ Frames!Min({wire, BurstSize}) <= BurstSize
      BY <3>2, MinType
    <3>4. n \in Nat /\ n <= wire /\ n <= BurstSize
      BY <3>1, <3>2, <3>3
    <3>5. receiver' = receiver /\ counted < NumIterations
      BY <1>3, <2>2, <3>2 DEF Frames!Receive, Frames!Enough
    <3>6. receiver # "complete"
      BY <1>3 DEF Frames!Receive
    <3> QED
      BY <1>1, <3>1, <3>2, <3>4, <3>5, <3>6, PoolNow DEF FramesInv, FramesTypeOK, FramesPlaces,
         FramesReply, FramesArrive, FramesNoCrash
  <2> QED
    BY <2>1, <2>2
<1> QED
  BY <1>2, <1>3

LEMMA TransmitKeeps ==
  ASSUME FramesInv, Frames!Transmit
  PROVE  FramesInv'
<1>1. /\ pool.tx > 0 /\ sender # "exited"
      /\ pool' = Frames!Moved("tx", "free", 1)
      /\ UNCHANGED <<sender, i, burst, max_retries, sent, receiver, counted, foreign>>
  BY DEF Frames!Transmit
<1>2. FramesPlaces' /\ pool' \in Pools /\ pool'.tx = pool.tx - 1
  <2>1. /\ pool' \in Pools /\ pool'.free = pool.free + 1 /\ pool'.app = pool.app
        /\ pool'.rx = pool.rx /\ pool'.tx = pool.tx - 1
    <3>1. 1 <= pool.tx
      BY <1>1, PoolNow
    <3> QED
      <4> DEFINE p == pool'
                 from == "tx"
                 to == "free"
      <4>1. from \in Owners /\ to \in Owners /\ from # to /\ 1 <= pool[from]
        BY <3>1 DEF Owners
      <4>2. p = Frames!Moved(from, to, 1)
        BY <1>1
      <4> HIDE DEF p, from, to
      <4>3. /\ p \in Pools /\ p[from] = pool[from] - 1 /\ p[to] = pool[to] + 1
            /\ \A owner \in Owners \ {from, to} : p[owner] = pool[owner]
        BY ONLY <4>1, <4>2, PoolNow, PoolMoved, FramesInv, 1 \in Nat
      <4> QED
        BY <4>3 DEF p, from, to, Owners
  <2> QED
    BY <1>1, <2>1, PoolNow, FramesAssumption DEF FramesInv, FramesPlaces
<1>3. CASE sender = "wait_reply"
  <2>1. frames' \in {frames, Append(frames, "reply")} /\ UNCHANGED <<wire, lost>>
    BY <1>3 DEF Frames!Transmit
  <2>2. frames' \in Seq(FrameKinds)
    BY <2>1 DEF FramesInv, FramesTypeOK, FrameKinds
  <2>3. pool'.tx = 0
    BY <1>1, <1>2, <1>3, PoolNow DEF FramesInv, FramesPlaces
  <2>4. FramesReply'
    BY <1>1, <1>3, <2>3 DEF FramesReply
  <2>5. FramesArrive'
    BY <1>1, <1>3, <2>1 DEF FramesInv, FramesArrive
  <2> QED
    BY <1>1, <1>2, <2>1, <2>2, <2>4, <2>5 DEF FramesInv, FramesTypeOK, FramesNoCrash
<1>4. CASE sender # "wait_reply"
  <2>1. /\ frames' = frames
        /\ \/ wire' = wire + 1 /\ lost' = lost
           \/ wire' = wire /\ lost' = lost + 1
    BY <1>4 DEF Frames!Transmit
  <2>2. sender \in {"alloc", "tx", "complete", "crashed"}
    BY <1>1, <1>4 DEF FramesInv, FramesTypeOK, FramesPlaces
  <2>3. FramesReply'
    BY <1>1, <2>2 DEF FramesReply
  <2>4. FramesTypeOK'
    BY <1>1, <1>2, <2>1 DEF FramesInv, FramesTypeOK
  <2>5. FramesArrive'
    <3>1. /\ counted + wire + lost + pool.tx <= sent + foreign
          /\ counted < NumIterations + BurstSize
          /\ receiver = "complete" => counted >= NumIterations
      BY <2>2 DEF FramesInv, FramesArrive
    <3>2. /\ counted \in Nat /\ wire \in Nat /\ lost \in Nat /\ sent \in Nat
          /\ foreign \in Nat /\ pool.tx \in Nat /\ pool.tx > 0 /\ pool'.tx = pool.tx - 1
      BY <1>1, <1>2, PoolNow DEF FramesInv, FramesTypeOK
    <3>3. UNCHANGED <<sent, receiver, counted, foreign>>
      BY <1>1
    <3>4. counted + wire' + lost' + pool'.tx <= sent + foreign
      BY ONLY <2>1, <3>1, <3>2
    <3>5. counted + wire' + lost' <= sent + foreign
      BY ONLY <2>1, <3>1, <3>2
    <3> QED
      BY ONLY <3>1, <3>3, <3>4, <3>5 DEF FramesArrive
  <2> QED
    BY <1>1, <1>2, <2>3, <2>4, <2>5 DEF FramesInv, FramesNoCrash
<1> QED
  BY <1>3, <1>4

LEMMA ForeignKeeps ==
  ASSUME FramesInv, Frames!Foreign
  PROVE  FramesInv'
<1>1. UNCHANGED <<sender, pool, i, burst, max_retries, sent, receiver, counted, lost>>
  BY DEF Frames!Foreign
<1>2. CASE wire' = wire + 1 /\ foreign' = foreign + 1 /\ frames' = frames
  <2>1. /\ FramesTypeOK' /\ FramesPlaces' /\ FramesReply' /\ FramesNoCrash'
    BY <1>1, <1>2 DEF FramesInv, FramesTypeOK, FramesPlaces, FramesReply, FramesNoCrash
  <2>2. FramesArrive'
    <3>1. FramesArrive
      BY DEF FramesInv
    <3>2. /\ counted \in Nat /\ wire \in Nat /\ lost \in Nat /\ sent \in Nat
          /\ foreign \in Nat /\ pool.tx \in Nat
      BY PoolNow DEF FramesInv, FramesTypeOK
    <3> QED
      BY ONLY <1>1, <1>2, <3>1, <3>2 DEF FramesArrive
  <2> QED
    BY ONLY <2>1, <2>2 DEF FramesInv
<1>3. CASE frames' = Append(frames, "other") /\ UNCHANGED <<wire, foreign>>
  <2>1. /\ frames' \in Seq(FrameKinds) /\ Len(frames') = Len(frames) + 1
        /\ \A k \in 1 .. Len(frames) : frames'[k] = frames[k]
        /\ frames'[Len(frames) + 1] = "other"
    BY <1>3 DEF FramesInv, FramesTypeOK, FrameKinds
  <2>2. (\A k \in 1 .. Len(frames) : frames[k] = "other") =>
          \A k \in 1 .. Len(frames') : frames'[k] = "other"
    <3>1. \A k \in 1 .. Len(frames') : k \in 1 .. Len(frames) \/ k = Len(frames) + 1
      BY <2>1 DEF FramesInv, FramesTypeOK
    <3> QED
      BY <2>1, <3>1
  <2> QED
    BY <1>1, <1>3, <2>1, <2>2 DEF FramesInv, FramesTypeOK, FramesPlaces, FramesReply,
       FramesArrive, FramesNoCrash
<1> QED
  BY <1>2, <1>3 DEF Frames!Foreign

LEMMA NextKeepsFrames ==
  ASSUME FramesInv, [Frames!Next]_(Frames!dpdk)
  PROVE  FramesInv'
<1>1. CASE Frames!Sender
  BY <1>1, PortInitKeeps, SendArpKeeps, WaitReplyKeeps, AllocKeeps, TxBurstKeeps DEF Frames!Sender
<1>2. CASE UNCHANGED Frames!dpdk
  BY <1>2 DEF Frames!dpdk, FramesInv, FramesTypeOK, FramesPlaces, FramesReply, FramesArrive,
     FramesNoCrash
<1> QED
  BY <1>1, <1>2, ReceiverKeeps, TransmitKeeps, ForeignKeeps DEF Frames!Next

LEMMA FramesCount ==
  ASSUME FramesInv
  PROVE  Frames!BuffersAccounted /\ Frames!CountsArrivals
<1>1. FramesTypeOK /\ FramesPlaces /\ FramesArrive /\ FramesNoCrash
  BY DEF FramesInv
<1>2. pool.free \in Int /\ pool.rx \in Int /\ pool.tx \in Nat /\ pool.app \in Nat
  BY PoolNow
<1>3. burst \in Nat /\ BurstSize \in Nat
  BY <1>1, FramesAssumption DEF FramesTypeOK
<1>4. Frames!BuffersAccounted
  <2>1. pool.app - burst \in 0 .. BurstSize - 1
    BY ONLY <1>1, <1>2, <1>3 DEF FramesPlaces
  <2> QED
    BY ONLY <1>1, <2>1 DEF FramesPlaces, FramesNoCrash, Frames!BuffersAccounted
<1>5. Frames!CountsArrivals
  BY ONLY <1>1 DEF FramesArrive, Frames!CountsArrivals
<1> QED
  BY <1>4, <1>5

(* The buffers of the sender's pool (dpdk_sender.c:102-134): none is lost, *)
(* a burst leaves none with the program but what was polled after the ARP  *)
(* reply, and a pool large enough for rings and bursts never runs out; and *)
(* the receiver (dpdk_receiver.c) counts what arrived, once.               *)
THEOREM FramesAlwaysCounted == ProgramSpec => []FramesCounted
<1> DEFINE I == program = "frames" => FramesInv
<1>1. ProgramInit => I
  BY InitOf, InitFrames
<1>2. I /\ [ProgramNext]_programs => I'
  BY Dispatch, NextKeepsFrames
<1>3. I => FramesCounted
  BY FramesCount DEF FramesCounted
<1> QED
  BY <1>1, <1>2, <1>3, PTL DEF ProgramSpec

(***************************************************************************)
(* The client and the server of MaxStream.                                 *)
(***************************************************************************)

StreamStates == {"none", "waiting", "open", "closed", "reset"}

StreamTypeOK ==
  /\ pc \in [Stream!Threads -> {"setup_socket", "queue_init", "fill", "reap", "done"}]
  /\ sent \in [Stream!Threads -> Nat] /\ completed \in [Stream!Threads -> Nat]
  /\ ring \in [Stream!Threads -> [kernel : Nat, whole : Nat, failed : Nat]]
  /\ stream \in [Stream!Threads ->
       [unread : Nat, state : StreamStates]]
  /\ servers \in [Stream!Threads -> {"none", "queue_init", "event_loop", "finished"}]
  /\ process \in {"accept", "wait", "join", "returned", "exited"}
  /\ total \in Nat /\ shortfall \in Nat /\ lossy \in BOOLEAN

(* A thread's share is not exceeded, and until it has its socket there is  *)
(* no connection.                                                          *)
StreamShares ==
  \A t \in Stream!Threads :
    /\ sent[t] <= Stream!local_num_requests(t)
    /\ pc[t] = "setup_socket" => stream[t].state = "none"

(* What has failed: sent, but neither completed nor under way.             *)
Failed(t) == sent[t] - completed[t] - ring[t].kernel - ring[t].whole

StreamWindow ==
  \A t \in Stream!Threads :
    /\ sent[t] - completed[t] \in 0 .. StreamRingSize
    /\ Failed(t) >= ring[t].failed
    /\ Failed(t) > 0 => stream[t].state = "reset" \/ pc[t] = "done"

Completions(c, r) == [t \in Stream!Threads |-> StreamPageSize * (c[t] + r[t].whole)]

Unread(s) == [t \in Stream!Threads |-> s[t].unread]

StreamCounts ==
  /\ Total(Unread(stream)) \in Int /\ Total(Completions(completed, ring)) \in Int
  /\ total + Total(Unread(stream)) + shortfall <= Total(Completions(completed, ring))
  /\ lossy \/ total + Total(Unread(stream)) + shortfall = Total(Completions(completed, ring))
  /\ process \in {"join", "returned"} => 100 * total >= 95 * Stream!expected_total_bytes

StreamInv == StreamTypeOK /\ StreamShares /\ StreamWindow /\ StreamCounts

LEMMA FewThreads == IsFiniteSet(Stream!Threads) /\ Stream!Threads \subseteq Nat
BY StreamAssumption, FS_Interval DEF Stream!Threads

LEMMA StreamMin == \A a, b \in Nat : LET m == Stream!Min({a, b})
                                  IN  m \in Nat /\ m <= a /\ m <= b
<1> SUFFICES ASSUME NEW a \in Nat, NEW b \in Nat
             PROVE  LET m == CHOOSE x \in {a, b} : \A y \in {a, b} : x <= y
                    IN  m \in Nat /\ m <= a /\ m <= b
  BY DEF Stream!Min
<1>1. \E x \in {a, b} : \A y \in {a, b} : x <= y
  OBVIOUS
<1> QED
  BY <1>1

LEMMA ShareType == \A t \in Stream!Threads : Stream!local_num_requests(t) \in Nat
<1> DEFINE q == StreamRequests \div StreamThreads
<1>1. q \in Nat /\ StreamThreads * q <= StreamRequests
  BY StreamAssumption, Residue
<1> HIDE DEF q
<1>2. (StreamThreads - 1) * q = StreamThreads * q - q /\ StreamThreads * q \in Nat
  BY <1>1, StreamAssumption
<1>3. StreamRequests - (StreamThreads - 1) * q \in Nat
  BY <1>1, <1>2, StreamAssumption
<1> QED
  BY <1>1, <1>3 DEF Stream!local_num_requests, q

LEMMA CompletionsType ==
  ASSUME NEW c \in [Stream!Threads -> Nat],
         NEW r \in [Stream!Threads -> [kernel : Nat, whole : Nat, failed : Nat]]
  PROVE  Completions(c, r) \in [Stream!Threads -> Int]
<1> SUFFICES ASSUME NEW t \in Stream!Threads
             PROVE  StreamPageSize * (c[t] + r[t].whole) \in Int
  BY DEF Completions
<1>1. c[t] + r[t].whole \in Nat
  OBVIOUS
<1> QED
  BY <1>1, StreamAssumption

LEMMA UnreadType ==
  ASSUME NEW s \in [Stream!Threads ->
           [unread : Nat, state : StreamStates]]
  PROVE  Unread(s) \in [Stream!Threads -> Int]
BY DEF Unread

LEMMA InitStream == ASSUME Stream!Init PROVE StreamInv
<1>1. StreamTypeOK
  <2>1. /\ [kernel |-> 0, whole |-> 0, failed |-> 0] \in
             [kernel : Nat, whole : Nat, failed : Nat]
        /\ [unread |-> 0, state |-> "none"] \in [unread : Nat, state : StreamStates]
    BY DEF StreamStates
  <2> QED
    BY <2>1 DEF Stream!Init, StreamTypeOK
<1>2. StreamShares
  BY ShareType DEF Stream!Init, StreamShares
<1>3. StreamWindow
  BY StreamAssumption DEF Stream!Init, StreamWindow, Failed
<1>4. StreamPageSize * (0 + 0) = 0
  BY StreamAssumption
<1>5. Completions(completed, ring) \in [Stream!Threads -> {0}]
  BY <1>4 DEF Stream!Init, Completions
<1>6. Unread(stream) \in [Stream!Threads -> {0}]
  BY DEF Stream!Init, Unread
<1>7. Total(Completions(completed, ring)) = 0 /\ Total(Unread(stream)) = 0
  BY <1>5, <1>6, FewThreads, TotalZero
<1>8. StreamCounts
  BY <1>7 DEF Stream!Init, StreamCounts
<1> QED
  BY <1>1, <1>2, <1>3, <1>8 DEF StreamInv

(* Steps that neither send nor read leave the sums as they are.            *)
LEMMA SameCounts ==
  ASSUME StreamCounts,
         Unread(stream') = Unread(stream),
         Completions(completed', ring') = Completions(completed, ring),
         UNCHANGED <<total, shortfall>>, lossy => lossy',
         process' \in {"join", "returned"} => 100 * total >= 95 * Stream!expected_total_bytes
  PROVE  StreamCounts'
BY DEF StreamCounts, Unread, Completions, Stream!expected_total_bytes

LEMMA CountsKept ==
  ASSUME StreamCounts, Unread(stream') = Unread(stream),
         UNCHANGED <<completed, ring, total, shortfall>>, lossy => lossy',
         process' \in {"join", "returned"} => process' = process
  PROVE  StreamCounts'
<1>1. process' \in {"join", "returned"} => 100 * total >= 95 * Stream!expected_total_bytes
  BY DEF StreamCounts
<1>2. Completions(completed', ring') = Completions(completed, ring)
  OBVIOUS
<1> QED
  BY <1>1, <1>2, SameCounts

LEMMA CompletionsKept ==
  ASSUME StreamCounts, Completions(completed', ring') = Completions(completed, ring),
         UNCHANGED <<stream, process, total, shortfall, lossy>>
  PROVE  StreamCounts'
<1>1. process' \in {"join", "returned"} => 100 * total >= 95 * Stream!expected_total_bytes
  BY DEF StreamCounts
<1>2. Unread(stream') = Unread(stream)
  OBVIOUS
<1> QED
  BY <1>1, <1>2, SameCounts

(* Two counts of a ring are set. *)
LEMMA RingSet ==
  ASSUME NEW q \in [kernel : Nat, whole : Nat, failed : Nat], NEW x \in Nat, NEW y \in Nat
  PROVE  /\ LET r == [q EXCEPT !.kernel = x, !.whole = y]
            IN  /\ r \in [kernel : Nat, whole : Nat, failed : Nat]
                /\ r.kernel = x /\ r.whole = y /\ r.failed = q.failed
         /\ LET r == [q EXCEPT !.kernel = x, !.failed = y]
            IN  /\ r \in [kernel : Nat, whole : Nat, failed : Nat]
                /\ r.kernel = x /\ r.whole = q.whole /\ r.failed = y
         /\ LET r == [q EXCEPT !.whole = x, !.failed = y]
            IN  /\ r \in [kernel : Nat, whole : Nat, failed : Nat]
                /\ r.kernel = q.kernel /\ r.whole = x /\ r.failed = y
<1> DEFINE a == [q EXCEPT !.kernel = x]
           b == [q EXCEPT !.whole = x]
<1>1. /\ a \in [kernel : Nat, whole : Nat, failed : Nat]
      /\ a.kernel = x /\ a.whole = q.whole /\ a.failed = q.failed
  OBVIOUS
<1>2. /\ b \in [kernel : Nat, whole : Nat, failed : Nat]
      /\ b.kernel = q.kernel /\ b.whole = x /\ b.failed = q.failed
  OBVIOUS
<1> HIDE DEF a, b
<1>3. LET r == [a EXCEPT !.whole = y]
      IN  /\ r \in [kernel : Nat, whole : Nat, failed : Nat]
          /\ r.kernel = x /\ r.whole = y /\ r.failed = q.failed
  BY <1>1
<1>4. LET r == [a EXCEPT !.failed = y]
      IN  /\ r \in [kernel : Nat, whole : Nat, failed : Nat]
          /\ r.kernel = x /\ r.whole = q.whole /\ r.failed = y
  BY <1>1
<1>5. LET r == [b EXCEPT !.failed = y]
      IN  /\ r \in [kernel : Nat, whole : Nat, failed : Nat]
          /\ r.kernel = q.kernel /\ r.whole = x /\ r.failed = y
  BY <1>2
<1> QED
  BY <1>3, <1>4, <1>5 DEF a, b

StreamTables == [Stream!Threads -> [unread : Nat, state : StreamStates]]

(* Table r is s with the state of thread t set to x.                       *)
StateIs(r, s, t, x) ==
  /\ r \in StreamTables
  /\ r[t].state = x /\ \A u \in Stream!Threads \ {t} : r[u] = s[u]
  /\ Unread(r) = Unread(s)

LEMMA StateSet ==
  ASSUME NEW s \in StreamTables, NEW t \in Stream!Threads, NEW x \in StreamStates
  PROVE  StateIs([s EXCEPT ![t].state = x], s, t, x)
<1> USE DEF StreamTables
<1> DEFINE q == [s[t] EXCEPT !.state = x]
<1>1. s[t] \in [unread : Nat, state : StreamStates]
  OBVIOUS
<1>2. /\ q \in [unread : Nat, state : StreamStates]
      /\ q.unread = s[t].unread /\ q.state = x
  BY <1>1
<1>3. [s EXCEPT ![t].state = x] = [s EXCEPT ![t] = q]
  OBVIOUS
<1> HIDE DEF q
<1> QED
  BY <1>2, <1>3 DEF Unread, StateIs

LEMMA SetupSocketKeeps ==
  ASSUME StreamInv, NEW t \in Stream!Threads, Stream!SetupSocket(t)
  PROVE  StreamInv'
<1> DEFINE s == [stream EXCEPT ![t].state = "waiting"]
<1>1. /\ s \in [Stream!Threads -> [unread : Nat, state : StreamStates]]
      /\ \A u \in Stream!Threads \ {t} : s[u] = stream[u]
      /\ Unread(s) = Unread(stream)
  <2>1. "waiting" \in StreamStates /\ stream \in StreamTables
    BY DEF StreamInv, StreamTypeOK, StreamStates, StreamTables
  <2>2. StateIs(s, stream, t, "waiting")
    BY <2>1, StateSet
  <2> QED
    BY <2>2 DEF StateIs, StreamTables
<1>2. /\ pc[t] = "setup_socket" /\ (lossy' = TRUE \/ lossy' = lossy)
      /\ \/ stream' = stream /\ pc' = [pc EXCEPT ![t] = "done"]
         \/ stream' = s /\ pc' = [pc EXCEPT ![t] = "queue_init"]
      /\ UNCHANGED <<sent, completed, ring, servers, process, total, shortfall>>
  BY DEF Stream!SetupSocket
<1> HIDE DEF s
<1> USE DEF StreamInv
<1>3. StreamTypeOK'
  BY <1>1, <1>2 DEF StreamTypeOK
<1>4. StreamShares'
  BY <1>1, <1>2 DEF StreamTypeOK, StreamShares, Stream!local_num_requests
<1>5. StreamWindow'
  BY <1>1, <1>2 DEF StreamTypeOK, StreamShares, StreamWindow, Failed
<1>6. Unread(stream') = Unread(stream) /\ (lossy => lossy')
  BY <1>1, <1>2 DEF StreamTypeOK
<1>7. StreamCounts'
  BY <1>2, <1>6, CountsKept
<1> QED
  BY <1>3, <1>4, <1>5, <1>7

LEMMA CloseIs ==
  ASSUME StreamTypeOK, NEW t \in Stream!Threads, Stream!Close(t)
  PROVE  /\ stream' \in [Stream!Threads -> [unread : Nat, state : StreamStates]]
         /\ \A u \in Stream!Threads \ {t} : stream'[u] = stream[u]
         /\ stream[t].state = "reset" => stream'[t].state = "reset"
         /\ Unread(stream') = Unread(stream)
<1> DEFINE x == IF stream[t].state = "reset" THEN stream[t].state ELSE "closed"
<1>1. stream' = [stream EXCEPT ![t].state = x]
  BY DEF Stream!Close
<1>2. x \in StreamStates /\ stream \in StreamTables
  BY DEF StreamStates, StreamTypeOK, StreamTables
<1>3. stream[t].state = "reset" => x = "reset"
  OBVIOUS
<1> HIDE DEF x
<1>4. /\ stream' \in [Stream!Threads -> [unread : Nat, state : StreamStates]]
      /\ stream'[t].state = x /\ \A u \in Stream!Threads \ {t} : stream'[u] = stream[u]
      /\ Unread(stream') = Unread(stream)
  <2>1. StateIs(stream', stream, t, x)
    BY <1>1, <1>2, StateSet
  <2> QED
    BY <2>1 DEF StateIs, StreamTables
<1> QED
  BY <1>3, <1>4

LEMMA QueueInitKeeps ==
  ASSUME StreamInv, NEW t \in Stream!Threads, Stream!QueueInit(t)
  PROVE  StreamInv'
<1> USE DEF StreamInv
<1>1. /\ stream' \in [Stream!Threads -> [unread : Nat, state : StreamStates]]
      /\ \A u \in Stream!Threads \ {t} : stream'[u] = stream[u]
      /\ stream[t].state = "reset" => stream'[t].state = "reset"
      /\ Unread(stream') = Unread(stream)
  BY CloseIs DEF Stream!QueueInit, StreamTypeOK
<1>2. /\ pc[t] = "queue_init" /\ (lossy' = TRUE \/ lossy' = lossy)
      /\ \E p \in {"fill", "done"} : pc' = [pc EXCEPT ![t] = p]
      /\ UNCHANGED <<sent, completed, ring, servers, process, total, shortfall>>
  BY DEF Stream!QueueInit
<1>3. StreamTypeOK'
  BY <1>1, <1>2 DEF StreamTypeOK
<1>4. StreamShares'
  BY <1>1, <1>2 DEF StreamTypeOK, StreamShares, Stream!local_num_requests
<1>5. StreamWindow'
  BY <1>1, <1>2 DEF StreamTypeOK, StreamWindow, Failed
<1>6. lossy => lossy'
  BY <1>2
<1>7. StreamCounts'
  BY <1>1, <1>2, <1>6, CountsKept
<1> QED
  BY <1>3, <1>4, <1>5, <1>7

LEMMA FillKeeps ==
  ASSUME StreamInv, NEW t \in Stream!Threads, Stream!Fill(t)
  PROVE  StreamInv'
<1> USE DEF StreamInv
<1> DEFINE n == Stream!Min({Stream!local_num_requests(t) - sent[t], Stream!Window(t)})
<1>1. CASE completed[t] < Stream!local_num_requests(t)
  <2>1. n \in Nat /\ n <= Stream!local_num_requests(t) - sent[t] /\ n <= Stream!Window(t)
    <3>1. Stream!local_num_requests(t) - sent[t] \in Nat
      BY ShareType DEF StreamShares, StreamTypeOK
    <3>2. Stream!Window(t) \in Nat
      BY StreamAssumption DEF StreamWindow, StreamTypeOK, Stream!Window
    <3> QED
      BY <3>1, <3>2, StreamMin
  <2>2. /\ sent' = [sent EXCEPT ![t] = sent[t] + n]
        /\ ring' = [ring EXCEPT ![t].kernel = ring[t].kernel + n]
        /\ pc' = [pc EXCEPT ![t] = "reap"] /\ UNCHANGED stream
        /\ UNCHANGED <<completed, servers, process, total, shortfall, lossy>>
        /\ pc[t] = "fill"
    BY <1>1 DEF Stream!Fill
  <2> HIDE DEF n
  <2> DEFINE m == ring[t].kernel + n
             r == [ring[t] EXCEPT !.kernel = m]
  <2>3. m \in Nat /\ r \in [kernel : Nat, whole : Nat, failed : Nat]
        /\ r.kernel = m /\ r.whole = ring[t].whole /\ r.failed = ring[t].failed
    <3>1. m \in Nat
      BY <2>1 DEF StreamTypeOK
    <3> HIDE DEF m
    <3> QED
      BY <3>1 DEF StreamTypeOK
  <2>4. ring' = [ring EXCEPT ![t] = r]
    BY <2>2
  <2> HIDE DEF r
  <2>5. sent[t] + n \in Nat
    BY <2>1 DEF StreamTypeOK
  <2>6. StreamTypeOK'
    BY <2>2, <2>3, <2>4, <2>5 DEF StreamTypeOK
  <2>7. StreamShares'
    <3>1. sent[t] + n <= Stream!local_num_requests(t)
      BY <2>1, ShareType DEF StreamTypeOK
    <3> QED
      BY <2>2, <3>1 DEF StreamTypeOK, StreamShares, Stream!local_num_requests
  <2>8. StreamWindow'
    <3> SUFFICES ASSUME NEW u \in Stream!Threads
                 PROVE  /\ (sent[u] - completed[u] \in 0 .. StreamRingSize)'
                        /\ Failed(u)' = Failed(u)
                        /\ (ring[u].failed)' = ring[u].failed
                        /\ pc[u] = "done" => (pc[u] = "done")'
      BY <2>2 DEF StreamWindow
    <3>1. CASE u = t
      BY <2>1, <2>2, <2>3, <2>4, <3>1, StreamAssumption
         DEF StreamTypeOK, StreamWindow, Failed, m, Stream!Window
    <3>2. CASE u # t
      BY <2>2, <2>4, <3>2 DEF StreamTypeOK, StreamWindow, Failed
    <3> QED
      BY <3>1, <3>2
  <2>9. Completions(completed', ring') = Completions(completed, ring)
    BY <2>2, <2>3, <2>4 DEF Completions, StreamTypeOK
  <2>10. StreamCounts'
    BY <2>2, <2>9, CompletionsKept
  <2> QED
    BY <2>6, <2>7, <2>8, <2>10
<1>2. CASE ~(completed[t] < Stream!local_num_requests(t))
  <2>1. /\ stream' \in [Stream!Threads -> [unread : Nat, state : StreamStates]]
        /\ \A u \in Stream!Threads \ {t} : stream'[u] = stream[u]
        /\ stream[t].state = "reset" => stream'[t].state = "reset"
        /\ Unread(stream') = Unread(stream)
    BY <1>2, CloseIs DEF Stream!Fill
  <2>2. /\ pc[t] = "fill" /\ pc' = [pc EXCEPT ![t] = "done"]
        /\ UNCHANGED <<sent, completed, ring, servers, process, total, shortfall, lossy>>
    BY <1>2 DEF Stream!Fill
  <2>3. StreamTypeOK'
    BY <2>1, <2>2 DEF StreamTypeOK
  <2>4. StreamShares'
    BY <2>1, <2>2 DEF StreamTypeOK, StreamShares, Stream!local_num_requests
  <2>5. StreamWindow'
    BY <2>1, <2>2 DEF StreamTypeOK, StreamWindow, Failed
  <2>6. StreamCounts'
    BY <2>1, <2>2, CountsKept
  <2> QED
    BY <2>3, <2>4, <2>5, <2>6
<1> QED
  BY <1>1, <1>2

LEMMA ReapKeeps ==
  ASSUME StreamInv, NEW t \in Stream!Threads, Stream!Reap(t)
  PROVE  StreamInv'
<1> USE DEF StreamInv
<1> DEFINE c == completed[t] + ring[t].whole
           r == [ring[t] EXCEPT !.whole = 0, !.failed = 0]
<1>1. c \in Nat /\ r \in [kernel : Nat, whole : Nat, failed : Nat]
      /\ r.kernel = ring[t].kernel /\ r.whole = 0 /\ r.failed = 0
  <2>1. ring[t] \in [kernel : Nat, whole : Nat, failed : Nat] /\ completed[t] \in Nat
    BY DEF StreamTypeOK
  <2>2. \A z \in Nat : LET q == [ring[t] EXCEPT !.whole = z, !.failed = z]
                     IN  /\ q \in [kernel : Nat, whole : Nat, failed : Nat]
                         /\ q.kernel = ring[t].kernel /\ q.whole = z /\ q.failed = z
    BY ONLY <2>1, RingSet
  <2>3. 0 \in Nat
    OBVIOUS
  <2>4. c \in Nat
    BY <2>1
  <2> HIDE DEF c
  <2> QED
    BY ONLY <2>2, <2>3, <2>4, Zenon DEF r
<1>2. /\ completed' = [completed EXCEPT ![t] = c] /\ ring' = [ring EXCEPT ![t] = r]
      /\ pc' = [pc EXCEPT ![t] = "fill"] /\ pc[t] = "reap"
      /\ UNCHANGED <<sent, stream, servers, process, total, shortfall, lossy>>
  BY DEF Stream!Reap, Stream!Counted, StreamTypeOK
<1> HIDE DEF r
<1>3. StreamTypeOK'
  <2> HIDE DEF c
  <2> QED
    BY <1>1, <1>2 DEF StreamTypeOK
<1>4. StreamShares'
  BY <1>2 DEF StreamTypeOK, StreamShares, Stream!local_num_requests
<1>5. StreamWindow'
  <2> SUFFICES ASSUME NEW u \in Stream!Threads
               PROVE  /\ (sent[u] - completed[u] \in 0 .. StreamRingSize)'
                      /\ Failed(u)' = Failed(u)
                      /\ (ring[u].failed)' <= ring[u].failed /\ (ring[u].failed)' \in Nat
                      /\ pc[u] = "done" => (pc[u] = "done")'
    <3>1. \A v \in Stream!Threads : Failed(v) \in Int /\ ring[v].failed \in Nat
      BY DEF StreamTypeOK, Failed
    <3> QED
      BY <1>2, <3>1 DEF StreamWindow, StreamTypeOK, Failed
  <2>1. CASE u = t
    BY <1>1, <1>2, <2>1, StreamAssumption DEF StreamTypeOK, StreamWindow, Failed
  <2>2. CASE u # t
    BY <1>2, <2>2 DEF StreamTypeOK, StreamWindow, Failed
  <2> QED
    BY <2>1, <2>2
<1>6. Completions(completed', ring') = Completions(completed, ring)
  <2> SUFFICES ASSUME NEW u \in Stream!Threads
               PROVE  completed'[u] + ring'[u].whole = completed[u] + ring[u].whole
    BY DEF Completions
  <2> QED
    BY <1>1, <1>2 DEF StreamTypeOK
<1>7. StreamCounts'
  BY <1>2, <1>6, CompletionsKept
<1> QED
  BY <1>3, <1>4, <1>5, <1>7

LEMMA ServersKeep ==
  ASSUME StreamInv, NEW t \in Stream!Threads, Stream!Accept(t) \/ Stream!HandleClient(t)
  PROVE  StreamInv'
<1> DEFINE x == IF stream[t].state = "waiting" THEN "open" ELSE stream[t].state
           s == [stream EXCEPT ![t].state = x]
<1>1. /\ s \in [Stream!Threads -> [unread : Nat, state : StreamStates]]
      /\ s[t].state = x /\ \A u \in Stream!Threads \ {t} : s[u] = stream[u]
      /\ Unread(s) = Unread(stream)
  <2>1. x \in StreamStates /\ stream \in StreamTables
    BY DEF StreamInv, StreamTypeOK, StreamStates, StreamTables
  <2> HIDE DEF x
  <2>2. StateIs(s, stream, t, x)
    BY <2>1, StateSet
  <2> QED
    BY <2>2 DEF StateIs, StreamTables
<1>2. /\ (stream' = s /\ stream[t].state # "none") \/ stream' = stream
      /\ \E p \in {"queue_init", "event_loop"} : servers' = [servers EXCEPT ![t] = p]
      /\ process' \in {process, "accept", "wait"}
      /\ UNCHANGED <<pc, sent, completed, ring, total, shortfall, lossy>>
  BY DEF Stream!Accept, Stream!HandleClient
<1> HIDE DEF s
<1> USE DEF StreamInv
<1>3. StreamTypeOK'
  BY <1>1, <1>2 DEF StreamTypeOK
<1>4. StreamShares'
  BY <1>1, <1>2 DEF StreamTypeOK, StreamShares, Stream!local_num_requests
<1>5. StreamWindow'
  BY <1>1, <1>2 DEF StreamTypeOK, StreamWindow, Failed
<1>6. Unread(stream') = Unread(stream)
      /\ (process' \in {"join", "returned"} => process' = process)
  BY <1>1, <1>2
<1>7. StreamCounts'
  BY <1>2, <1>6, CountsKept
<1> QED
  BY <1>3, <1>4, <1>5, <1>7

(* What is lost is unread no longer.                                       *)
LEMMA LossKeeps ==
  ASSUME StreamInv, Stream!ServerExits \/ \E t \in Stream!Threads : Stream!Reset(t)
  PROVE  StreamInv'
<1> USE DEF StreamInv
<1> DEFINE gone == [unread |-> 0, state |-> "reset"]
<1>1. gone \in [unread : Nat, state : StreamStates] /\ gone.unread = 0 /\ gone.state = "reset"
  BY DEF StreamStates
<1> HIDE DEF gone
<1>2. /\ stream' \in [Stream!Threads -> {gone} \cup [unread : Nat, state : StreamStates]]
      /\ \A u \in Stream!Threads :
           \/ stream'[u] = stream[u]
           \/ stream'[u] = gone /\ stream[u].state # "none"
      /\ servers' \in [Stream!Threads -> {"none", "queue_init", "event_loop", "finished"}]
      /\ process' \in {process, "exited"} /\ lossy' = TRUE
      /\ UNCHANGED <<pc, sent, completed, ring, total, shortfall>>
  <2>1. CASE Stream!ServerExits
    <3>1. stream' = [t \in Stream!Threads |->
            IF stream[t].state = "none" THEN stream[t] ELSE gone]
      BY <2>1 DEF Stream!ServerExits, gone
    <3>2. /\ process' = "exited" /\ servers' = [t \in Stream!Threads |-> "finished"]
          /\ lossy' = TRUE /\ UNCHANGED <<pc, sent, completed, ring, total, shortfall>>
      BY <2>1 DEF Stream!ServerExits
    <3> QED
      BY <3>1, <3>2 DEF StreamTypeOK
  <2>2. CASE \E t \in Stream!Threads : Stream!Reset(t)
    <3>1. PICK t \in Stream!Threads : Stream!Reset(t)
      BY <2>2
    <3>2. stream' = [stream EXCEPT ![t] = gone] /\ stream[t].state = "open"
          /\ lossy' = TRUE
          /\ UNCHANGED <<pc, sent, completed, ring, servers, process, total, shortfall>>
      BY <3>1 DEF Stream!Reset, gone
    <3> QED
      BY <3>2 DEF StreamTypeOK
  <2> QED
    BY <2>1, <2>2
<1>3. StreamTypeOK'
  BY <1>1, <1>2 DEF StreamTypeOK
<1>4. StreamShares' /\ StreamWindow'
  BY <1>1, <1>2
     DEF StreamTypeOK, StreamShares, StreamWindow, Failed, Stream!local_num_requests
<1>5. \A u \in Stream!Threads : Unread(stream')[u] <= Unread(stream)[u]
  BY <1>1, <1>2 DEF StreamTypeOK, Unread
<1>6. Unread(stream) \in [Stream!Threads -> Int] /\ Unread(stream') \in [Stream!Threads -> Int]
  BY <1>3, UnreadType DEF StreamTypeOK
<1>7. Total(Unread(stream')) <= Total(Unread(stream)) /\ Total(Unread(stream')) \in Int
  BY ONLY <1>5, <1>6, FewThreads, TotalGrows
<1>8. StreamCounts'
  <2>1. (Total(Unread(stream)))' = Total(Unread(stream'))
        /\ (Total(Completions(completed, ring)))' = Total(Completions(completed, ring))
    BY <1>2 DEF Unread, Completions
  <2> QED
    BY <1>2, <1>7, <2>1 DEF StreamCounts, StreamTypeOK, Stream!expected_total_bytes
<1> QED
  BY <1>3, <1>4, <1>8

LEMMA EventLoopKeeps ==
  ASSUME StreamInv, NEW t \in Stream!Threads, Stream!EventLoop(t)
  PROVE  StreamInv'
<1> USE DEF StreamInv
<1> DEFINE n == Stream!Min({stream[t].unread, StreamPageSize})
           read == /\ n > 0
                   /\ stream' = [stream EXCEPT ![t].unread = stream[t].unread - n]
                   /\ total' = total + n
                   /\ UNCHANGED servers
           end == /\ stream[t].unread = 0 /\ stream[t].state \in {"closed", "reset"}
                  /\ servers' = [servers EXCEPT ![t] = "finished"]
                  /\ UNCHANGED <<stream, total>>
<1>1. /\ servers[t] = "event_loop" /\ (read \/ end)
      /\ UNCHANGED <<pc, sent, completed, ring, process, shortfall, lossy>>
  BY DEF Stream!EventLoop
<1>2. n \in Nat /\ n <= stream[t].unread
  BY StreamAssumption, StreamMin DEF StreamTypeOK
<1> HIDE DEF n
<1>3. CASE read
  <2> DEFINE m == stream[t].unread - n
             s == [stream[t] EXCEPT !.unread = m]
  <2>1. m \in Nat /\ s \in [unread : Nat, state : StreamStates]
        /\ s.unread = m /\ s.state = stream[t].state
    <3>1. m \in Nat
      BY <1>2 DEF StreamTypeOK
    <3> HIDE DEF m
    <3> QED
      BY <3>1 DEF StreamTypeOK
  <2>2. stream' = [stream EXCEPT ![t] = s] /\ total' = total + n /\ servers' = servers
    BY <1>3
  <2> HIDE DEF s
  <2>3. StreamTypeOK'
    <3>1. total' \in Nat
      BY <1>2, <2>2 DEF StreamTypeOK
    <3> QED
      BY <1>1, <2>1, <2>2, <3>1 DEF StreamTypeOK
  <2>4. StreamShares' /\ StreamWindow'
    BY <1>1, <2>1, <2>2
       DEF StreamTypeOK, StreamShares, StreamWindow, Failed, Stream!local_num_requests
  <2>5. /\ \A u \in Stream!Threads \ {t} : Unread(stream')[u] = Unread(stream)[u]
        /\ Unread(stream')[t] = m /\ Unread(stream)[t] = stream[t].unread
    <3> HIDE DEF m
    <3> QED
      BY <2>1, <2>2 DEF Unread, StreamTypeOK
  <2>6. Unread(stream) \in [Stream!Threads -> Int] /\ Unread(stream') \in [Stream!Threads -> Int]
    BY <2>3, UnreadType DEF StreamTypeOK
  <2>7. Total(Unread(stream')) = Total(Unread(stream)) + m - stream[t].unread
        /\ Total(Unread(stream)) \in Int
    <3> HIDE DEF m
    <3>1. /\ Total(Unread(stream')) =
               Total(Unread(stream)) + Unread(stream')[t] - Unread(stream)[t]
          /\ Total(Unread(stream)) \in Int
      BY ONLY <2>5, <2>6, FewThreads, TotalChanged, t \in Stream!Threads
    <3> QED
      BY <2>5, <3>1
  <2>8. StreamCounts'
    <3>1. (Total(Unread(stream)))' = Total(Unread(stream'))
          /\ (Total(Completions(completed, ring)))' = Total(Completions(completed, ring))
          /\ (Stream!expected_total_bytes)' = Stream!expected_total_bytes
      BY <1>1 DEF Unread, Completions, Stream!expected_total_bytes
    <3>2. Stream!expected_total_bytes \in Int
      BY StreamAssumption DEF Stream!expected_total_bytes
    <3>3. stream[t].unread \in Nat
      BY DEF StreamTypeOK
    <3> QED
      BY <1>1, <1>2, <2>2, <2>7, <3>1, <3>2, <3>3 DEF StreamCounts, StreamTypeOK
  <2> QED
    BY <2>3, <2>4, <2>8
<1>4. CASE end
  <2>1. StreamTypeOK' /\ StreamShares' /\ StreamWindow'
    BY <1>1, <1>4
       DEF StreamTypeOK, StreamShares, StreamWindow, Failed, Stream!local_num_requests
  <2>2. StreamCounts'
    BY <1>1, <1>4, SameCounts DEF StreamCounts
  <2> QED
    BY <2>1, <2>2
<1> QED
  BY <1>1, <1>3, <1>4

LEMMA MainKeepsStream ==
  ASSUME StreamInv, Stream!Main
  PROVE  StreamInv'
<1> USE DEF StreamInv, Stream!Main
<1>1. StreamTypeOK' /\ StreamShares' /\ StreamWindow'
  BY DEF StreamTypeOK, StreamShares, StreamWindow, Failed, Stream!local_num_requests
<1>2. Stream!expected_total_bytes \in Int /\ Stream!expected_total_bytes >= 0
  BY StreamAssumption DEF Stream!expected_total_bytes
<1>3. process' \in {"join", "returned"} => 100 * total >= 95 * Stream!expected_total_bytes
  BY <1>2 DEF StreamTypeOK, StreamCounts, Stream!Waits
<1>4. StreamCounts'
  BY <1>3, SameCounts
<1> QED
  BY <1>1, <1>4

LEMMA SendKeeps ==
  ASSUME StreamInv, NEW t \in Stream!Threads, Stream!Send(t)
  PROVE  StreamInv'
<1> USE DEF StreamInv
<1>1. ring[t].kernel > 0 /\ UNCHANGED <<pc, sent, completed, servers, process, total, lossy>>
  BY DEF Stream!Send
<1> DEFINE k == ring[t].kernel - 1
<1>2. k \in Nat /\ ring[t].kernel = k + 1 /\ ring[t] \in [kernel : Nat, whole : Nat, failed : Nat]
      /\ ring[t].whole + 1 \in Nat /\ ring[t].failed + 1 \in Nat
  BY <1>1 DEF StreamTypeOK
<1>3. ASSUME NEW n \in 0 .. StreamPageSize, stream[t].state \in {"waiting", "open"},
             stream' = [stream EXCEPT ![t].unread = stream[t].unread + n],
             shortfall' = shortfall + StreamPageSize - n,
             ring' = [ring EXCEPT ![t].kernel = k, ![t].whole = ring[t].whole + 1]
      PROVE  StreamInv'
  <2> DEFINE w == ring[t].whole + 1
             r == [ring[t] EXCEPT !.kernel = k, !.whole = w]
             m == stream[t].unread + n
             s == [stream[t] EXCEPT !.unread = m]
  <2>1. k \in Nat /\ w \in Nat /\ ring[t] \in [kernel : Nat, whole : Nat, failed : Nat]
    BY <1>2
  <2>2. ring' = [ring EXCEPT ![t] = r]
    BY <1>3
  <2>3. m \in Nat
    BY DEF StreamTypeOK
  <2>4. s \in [unread : Nat, state : StreamStates] /\ s.unread = m /\ s.state = stream[t].state
    <3> HIDE DEF m
    <3> QED
      BY <2>3 DEF StreamTypeOK
  <2>5. stream' = [stream EXCEPT ![t] = s]
    BY <1>3
  <2> HIDE DEF s, w
  <2>6. r \in [kernel : Nat, whole : Nat, failed : Nat]
        /\ r.kernel = k /\ r.whole = w /\ r.failed = ring[t].failed
    <3> HIDE DEF k
    <3> QED
      BY ONLY <2>1, RingSet DEF r
  <2> HIDE DEF r
  <2>7. StreamTypeOK'
    <3>1. shortfall' \in Nat
      BY <1>3, StreamAssumption DEF StreamTypeOK
    <3> QED
      BY <1>1, <2>2, <2>4, <2>5, <2>6, <3>1 DEF StreamTypeOK
  <2>8. StreamShares'
    BY <1>1, <2>4, <2>5 DEF StreamTypeOK, StreamShares, Stream!local_num_requests
  <2>9. StreamWindow'
    <3> SUFFICES ASSUME NEW u \in Stream!Threads
                 PROVE  Failed(u)' = Failed(u) /\ (ring[u].failed)' = ring[u].failed
                        /\ stream'[u].state = stream[u].state
      BY <1>1 DEF StreamWindow
    <3>1. CASE u = t
      <4>1. ring'[u] = r /\ stream'[u] = s /\ sent'[u] = sent[u] /\ completed'[u] = completed[u]
            /\ sent[u] \in Nat /\ completed[u] \in Nat
        BY <1>1, <2>2, <2>5, <3>1 DEF StreamTypeOK
      <4> QED
        BY <1>2, <2>4, <2>6, <3>1, <4>1 DEF Failed, w
    <3>2. CASE u # t
      BY <1>1, <2>2, <2>5, <3>2 DEF StreamTypeOK, Failed
    <3> QED
      BY <3>1, <3>2
  <2>10. /\ Total(Unread(stream')) = Total(Unread(stream)) + n
         /\ Total(Unread(stream)) \in Int
    <3>1. /\ \A u \in Stream!Threads \ {t} : Unread(stream')[u] = Unread(stream)[u]
          /\ Unread(stream')[t] = m /\ Unread(stream)[t] = stream[t].unread
      <4> HIDE DEF m
      <4> QED
        BY <2>4, <2>5 DEF Unread, StreamTypeOK
    <3>2. /\ Unread(stream) \in [Stream!Threads -> Int]
          /\ Unread(stream') \in [Stream!Threads -> Int]
      BY <2>7, UnreadType DEF StreamTypeOK
    <3>3. /\ Total(Unread(stream')) =
               Total(Unread(stream)) + Unread(stream')[t] - Unread(stream)[t]
          /\ Total(Unread(stream)) \in Int
      <4> DEFINE old == Unread(stream)
                 new == Unread(stream')
      <4>1. /\ \A u \in Stream!Threads \ {t} : new[u] = old[u]
            /\ old \in [Stream!Threads -> Int] /\ new \in [Stream!Threads -> Int]
        BY <3>1, <3>2
      <4> HIDE DEF old, new
      <4>2. Total(new) = Total(old) + new[t] - old[t] /\ Total(old) \in Int
        BY ONLY <4>1, FewThreads, TotalChanged, t \in Stream!Threads
      <4> QED
        BY <4>2 DEF old, new
    <3> QED
      BY <3>1, <3>3 DEF StreamTypeOK
  <2>11. /\ Total(Completions(completed', ring')) =
              Total(Completions(completed, ring)) + StreamPageSize
         /\ Total(Completions(completed, ring)) \in Int
    <3> DEFINE f == Completions(completed, ring)
               h == Completions(completed', ring')
    <3>1. \A u \in Stream!Threads \ {t} : h[u] = f[u]
      BY <1>1, <2>2 DEF Completions, StreamTypeOK
    <3>2. h[t] = StreamPageSize * (completed[t] + w)
          /\ f[t] = StreamPageSize * (completed[t] + ring[t].whole)
      BY <1>1, <2>2, <2>6 DEF Completions, StreamTypeOK
    <3>3. h[t] = f[t] + StreamPageSize
      <4>1. completed[t] \in Nat /\ ring[t].whole \in Nat
        BY DEF StreamTypeOK
      <4>2. completed[t] + ring[t].whole \in Nat
            /\ completed[t] + w = completed[t] + ring[t].whole + 1
        BY <4>1 DEF w
      <4>3. \A x \in Nat : StreamPageSize * (x + 1) = StreamPageSize * x + StreamPageSize
        BY StreamAssumption
      <4> QED
        BY ONLY <3>2, <4>2, <4>3
    <3>4. f \in [Stream!Threads -> Int] /\ h \in [Stream!Threads -> Int]
      BY <2>7, CompletionsType DEF StreamTypeOK
    <3> HIDE DEF f, h
    <3>5. Total(h) = Total(f) + h[t] - f[t] /\ Total(f) \in Int
      BY ONLY <3>1, <3>4, FewThreads, TotalChanged, t \in Stream!Threads
    <3>6. f[t] \in Int
      BY <3>4
    <3> QED
      BY <3>3, <3>5, <3>6, StreamAssumption DEF f, h
  <2>12. StreamCounts'
    <3>1. (Total(Unread(stream)))' = Total(Unread(stream'))
          /\ (Total(Completions(completed, ring)))' = Total(Completions(completed', ring'))
          /\ (Stream!expected_total_bytes)' = Stream!expected_total_bytes
      BY DEF Unread, Completions, Stream!expected_total_bytes
    <3> QED
      BY <1>1, <1>3, <2>10, <2>11, <3>1, StreamAssumption DEF StreamCounts, StreamTypeOK
  <2> QED
    BY <2>7, <2>8, <2>9, <2>12
<1>4. ASSUME stream[t].state = "reset", UNCHANGED <<stream, shortfall>>,
             ring' = [ring EXCEPT ![t].kernel = k, ![t].failed = ring[t].failed + 1]
      PROVE  StreamInv'
  <2> DEFINE w == ring[t].failed + 1
             r == [ring[t] EXCEPT !.kernel = k, !.failed = w]
  <2>1. k \in Nat /\ w \in Nat /\ ring[t] \in [kernel : Nat, whole : Nat, failed : Nat]
    BY <1>2
  <2>2. ring' = [ring EXCEPT ![t] = r]
    BY <1>4
  <2> HIDE DEF w
  <2>3. r \in [kernel : Nat, whole : Nat, failed : Nat]
        /\ r.kernel = k /\ r.whole = ring[t].whole /\ r.failed = w
    <3> HIDE DEF k
    <3> QED
      BY ONLY <2>1, RingSet DEF r
  <2> HIDE DEF r
  <2>4. StreamTypeOK' /\ StreamShares'
    BY <1>1, <1>4, <2>2, <2>3 DEF StreamTypeOK, StreamShares, Stream!local_num_requests
  <2>5. StreamWindow'
    <3> SUFFICES ASSUME NEW u \in Stream!Threads
                 PROVE  /\ (sent[u] - completed[u] \in 0 .. StreamRingSize)'
                        /\ Failed(u)' >= ring'[u].failed
                        /\ Failed(u)' > 0 => (stream[u].state = "reset" \/ pc[u] = "done")'
      BY <1>1 DEF StreamWindow
    <3>1. CASE u = t
      BY <1>1, <1>2, <1>4, <2>2, <2>3, <3>1 DEF StreamTypeOK, StreamWindow, Failed, w
    <3>2. CASE u # t
      BY <1>1, <1>4, <2>2, <3>2 DEF StreamTypeOK, StreamWindow, Failed
    <3> QED
      BY <3>1, <3>2
  <2>6. Completions(completed', ring') = Completions(completed, ring)
    BY <1>1, <2>2, <2>3 DEF Completions, StreamTypeOK
  <2>7. StreamCounts'
    BY <1>1, <1>4, <2>6, CompletionsKept
  <2> QED
    BY <2>4, <2>5, <2>7
<1>5. \A n \in {StreamPageSize} \cup IF "short" \in StreamFaults
                                       THEN {1, StreamPageSize - 1} ELSE {} :
        n \in 0 .. StreamPageSize
  BY StreamAssumption
<1> QED
  BY <1>3, <1>4, <1>5 DEF Stream!Send

LEMMA NextKeepsStream ==
  ASSUME StreamInv, [Stream!Next]_(Stream!max)
  PROVE  StreamInv'
<1>1. CASE UNCHANGED Stream!max
  BY <1>1 DEF Stream!max, StreamInv, StreamTypeOK, StreamShares, StreamWindow, Failed,
     StreamCounts, Unread, Completions, Stream!local_num_requests, Stream!expected_total_bytes
<1>2. ASSUME NEW t \in Stream!Threads, Stream!Steps(t)
      PROVE  StreamInv'
  BY <1>2, SetupSocketKeeps, QueueInitKeeps, FillKeeps, ReapKeeps, ServersKeep, EventLoopKeeps,
     SendKeeps DEF Stream!Steps, Stream!Client
<1> QED
  BY <1>1, <1>2, LossKeeps, MainKeepsStream DEF Stream!Next

LEMMA StreamAgrees ==
  ASSUME StreamInv
  PROVE  Stream!WindowKept /\ Stream!CountsAgree
<1>1. Stream!WindowKept
  BY DEF StreamInv, StreamWindow, Failed, Stream!WindowKept
<1>2. \A f : Stream!Total(f) = Total(f)
  BY DEF Stream!Total, Total, Stream!FoldFunction, FoldFunction, Stream!FoldFunctionOnSet,
     FoldFunctionOnSet, Stream!MapThenFoldSet, MapThenFoldSet
<1>3. Stream!CountsAgree
  <2>1. /\ Stream!Total([t \in Stream!Threads |-> StreamPageSize * (completed[t] + ring[t].whole)])
            = Total(Completions(completed, ring))
        /\ Stream!Total([t \in Stream!Threads |-> stream[t].unread]) = Total(Unread(stream))
    BY <1>2 DEF Completions, Unread
  <2> DEFINE a == Total(Unread(stream))
             b == Total(Completions(completed, ring))
  <2>2. /\ a \in Int /\ total \in Int /\ shortfall \in Int
        /\ total + a + shortfall <= b
        /\ lossy \/ total + a + shortfall = b
        /\ process \in {"join", "returned"} => 100 * total >= 95 * Stream!expected_total_bytes
    BY DEF StreamInv, StreamCounts, StreamTypeOK
  <2> HIDE DEF a, b
  <2> QED
    BY <2>1, <2>2 DEF Stream!CountsAgree, a, b
<1> QED
  BY <1>1, <1>3

(* max_client and max_server count the same pages (max_client.cpp:103,     *)
(* max_server.cpp:162), and the full-duplex pair keeps what its receives   *)
(* wait for, whatever the number of threads, requests, bytes and buffers.  *)
THEOREM StreamAlwaysCounted == ProgramSpec => []StreamCounted
<1> DEFINE I == /\ program = "max" => StreamInv
                /\ program = "pair" => PairInv
<1>1. ProgramInit => I
  BY InitOf, InitStream, InitPair
<1>2. I /\ [ProgramNext]_programs => I'
  BY Dispatch, NextKeepsStream, NextKeepsPair
<1>3. I => StreamCounted
  BY StreamAgrees DEF StreamCounted, PairInv
<1> QED
  BY <1>1, <1>2, <1>3, PTL DEF ProgramSpec

(***************************************************************************)
(* The Seastar client and server (SeastarDemo).                            *)
(***************************************************************************)

Half == {1, 2} \X Nat

(* The halves of pages a to b - 1, in order. *)
IsStream(s, a, b) ==
  /\ Len(s) = 2 * (b - a)
  /\ \A k \in 0 .. b - a - 1 : s[2 * k + 1] = <<1, a + k>> /\ s[2 * k + 2] = <<2, a + k>>

LEMMA StreamAppended ==
  ASSUME NEW s \in Seq(Half), NEW a \in Nat, NEW b \in Nat, a <= b, IsStream(s, a, b)
  PROVE  IsStream(s \o Futures!Halves(b), a, b + 1) /\ Futures!Halves(b) \in Seq(Half)
<1> DEFINE t == s \o Futures!Halves(b)
<1>1. Len(t) = 2 * ((b + 1) - a) /\ Len(s) = 2 * (b - a) /\ Futures!Halves(b) \in Seq(Half)
      /\ Len(Futures!Halves(b)) = 2 /\ t \in Seq(Half)
  BY DEF IsStream, Futures!Halves, Half
<1>2. \A k \in 1 .. Len(t) : t[k] = IF k <= Len(s) THEN s[k] ELSE Futures!Halves(b)[k - Len(s)]
  <2> DEFINE h == Futures!Halves(b)
  <2>1. h \in Seq(Half)
    BY <1>1
  <2> HIDE DEF h
  <2>2. t = s \o h
    BY DEF h
  <2> HIDE DEF t
  <2>3. \A k \in 1 .. Len(t) : t[k] = IF k <= Len(s) THEN s[k] ELSE h[k - Len(s)]
    BY ONLY <2>1, <2>2, s \in Seq(Half)
  <2> QED
    BY <2>3 DEF h
<1>3. Futures!Halves(b)[1] = <<1, b>> /\ Futures!Halves(b)[2] = <<2, b>>
  BY DEF Futures!Halves
<1> HIDE DEF t
<1>4. \A k \in 0 .. (b + 1) - a - 1 : t[2 * k + 1] = <<1, a + k>> /\ t[2 * k + 2] = <<2, a + k>>
  <2> SUFFICES ASSUME NEW k \in 0 .. b - a
               PROVE  t[2 * k + 1] = <<1, a + k>> /\ t[2 * k + 2] = <<2, a + k>>
    <3>1. (b + 1) - a - 1 = b - a
      OBVIOUS
    <3> QED
      BY <3>1
  <2>1. CASE k = b - a
    <3>1. a + k = b /\ 2 * k + 1 = Len(s) + 1 /\ 2 * k + 2 = Len(s) + 2
          /\ Len(t) = Len(s) + 2 /\ Len(s) \in Nat
      BY <1>1, <2>1
    <3>2. t[Len(s) + 1] = Futures!Halves(b)[1] /\ t[Len(s) + 2] = Futures!Halves(b)[2]
      BY <1>2, <3>1
    <3> QED
      BY <1>3, <3>1, <3>2
  <2>2. CASE k < b - a
    <3>1. 2 * k + 1 \in 1 .. Len(s) /\ 2 * k + 2 \in 1 .. Len(s) /\ Len(s) <= Len(t)
          /\ k \in 0 .. b - a - 1
      BY <1>1, <2>2
    <3>2. t[2 * k + 1] = s[2 * k + 1] /\ t[2 * k + 2] = s[2 * k + 2]
      BY <1>1, <1>2, <3>1
    <3> QED
      BY <3>1, <3>2 DEF IsStream
  <2> QED
    BY <2>1, <2>2
<1> QED
  BY <1>1, <1>4 DEF IsStream, t

LEMMA StreamTaken ==
  ASSUME NEW s \in Seq(Half), NEW a \in Nat, NEW b \in Nat, a < b, IsStream(s, a, b)
  PROVE  /\ Len(s) >= 2 /\ s[1] = <<1, a>> /\ s[2] = <<2, a>>
         /\ SubSeq(s, 1, 2) = Futures!Halves(a)
         /\ SubSeq(s, 3, Len(s)) \in Seq(Half) /\ IsStream(SubSeq(s, 3, Len(s)), a + 1, b)
<1>1. Len(s) >= 2 /\ s[1] = <<1, a>> /\ s[2] = <<2, a>> /\ Len(s) = 2 * (b - a)
  <2>1. 0 \in 0 .. b - a - 1 /\ 2 * 0 + 1 = 1 /\ 2 * 0 + 2 = 2 /\ a + 0 = a
    OBVIOUS
  <2>2. Len(s) = 2 * (b - a) /\ s[2 * 0 + 1] = <<1, a + 0>> /\ s[2 * 0 + 2] = <<2, a + 0>>
    BY <2>1 DEF IsStream
  <2> QED
    BY <2>1, <2>2
<1>2. SubSeq(s, 1, 2) = <<s[1], s[2]>>
  <2>1. s[1] \in Half /\ s[2] \in Half
    <3>1. 1 \in 1 .. Len(s) /\ 2 \in 1 .. Len(s)
      <4>1. Len(s) \in Nat
        BY LenProperties
      <4> QED
        BY ONLY <1>1, <4>1
    <3> QED
      BY ONLY s \in Seq(Half), <3>1, ElementOfSeq, Zenon
  <2>2. SubSeq(s, 1, 2) \in Seq(Half) /\ Len(SubSeq(s, 1, 2)) = 2
        /\ SubSeq(s, 1, 2)[1] = s[1] /\ SubSeq(s, 1, 2)[2] = s[2]
    BY <1>1
  <2>3. <<s[1], s[2]>> \in Seq(Half) /\ Len(<<s[1], s[2]>>) = 2
        /\ <<s[1], s[2]>>[1] = s[1] /\ <<s[1], s[2]>>[2] = s[2]
    BY <2>1
  <2>4. \A k \in 1 .. 2 : k = 1 \/ k = 2
    OBVIOUS
  <2>5. \A k \in 1 .. Len(SubSeq(s, 1, 2)) : SubSeq(s, 1, 2)[k] = <<s[1], s[2]>>[k]
    BY <2>2, <2>3, <2>4
  <2> QED
    BY <2>2, <2>3, <2>5, SeqEqual
<1> DEFINE t == SubSeq(s, 3, Len(s))
<1>3. t \in Seq(Half) /\ Len(t) = 2 * (b - (a + 1)) /\ \A k \in 1 .. Len(t) : t[k] = s[k + 2]
  BY <1>1
<1> HIDE DEF t
<1>4. \A k \in 0 .. b - (a + 1) - 1 :
        t[2 * k + 1] = <<1, (a + 1) + k>> /\ t[2 * k + 2] = <<2, (a + 1) + k>>
  <2> SUFFICES ASSUME NEW k \in 0 .. b - (a + 1) - 1
               PROVE  t[2 * k + 1] = <<1, (a + 1) + k>> /\ t[2 * k + 2] = <<2, (a + 1) + k>>
    OBVIOUS
  <2>1. t[2 * k + 1] = s[2 * (k + 1) + 1] /\ t[2 * k + 2] = s[2 * (k + 1) + 2]
    <3>1. 2 * k + 1 \in 1 .. Len(t) /\ 2 * k + 2 \in 1 .. Len(t)
      BY <1>3
    <3>2. (2 * k + 1) + 2 = 2 * (k + 1) + 1 /\ (2 * k + 2) + 2 = 2 * (k + 1) + 2
      OBVIOUS
    <3> QED
      BY <1>3, <3>1, <3>2
  <2>2. k + 1 \in 0 .. b - a - 1 /\ a + (k + 1) = (a + 1) + k
    OBVIOUS
  <2>3. s[2 * (k + 1) + 1] = <<1, a + (k + 1)>> /\ s[2 * (k + 1) + 2] = <<2, a + (k + 1)>>
    BY <2>2 DEF IsStream
  <2> QED
    BY <2>1, <2>2, <2>3
<1>5. IsStream(t, a + 1, b)
  BY <1>3, <1>4 DEF IsStream
<1> QED
  BY <1>1, <1>2, <1>3, <1>5 DEF t, Futures!Halves

(* The first r futures are resolved, each with its own page or with        *)
(* nothing.                                                                *)
ServedTo(r) ==
  /\ r <= 2 * FutureRequests /\ DOMAIN futures = 1 .. 2 * FutureRequests
  /\ \A k \in 1 .. 2 * FutureRequests : futures[k].resolved <=> k <= r
  /\ \A k \in 1 .. r :
       \/ futures[k].halves = <<>>
       \/ (futures[k].halves = Futures!Halves(k - 1) /\ k <= FutureRequests)

(* f requests have been flushed.                                           *)
FlushedTo(f) ==
  /\ f <= FutureRequests
  /\ flushing \in Seq(Nat) /\ Len(flushing) = FutureRequests - f
  /\ \A k \in 1 .. FutureRequests - f : flushing[k] = f + k - 1

(* r pages have been read and a answered of f requests.                    *)
Answered(r, f, a) ==
  /\ r <= a /\ a <= f /\ r <= FutureRequests
  /\ IsStream(down, r, a)
  /\ Len(partial) <= 1 /\ IsStream(partial \o up, a, f)

(* Once the connection is lost what was answered can still be read.        *)
Left(r) ==
  /\ up = <<>>
  /\ down = <<>> \/ \E c \in Nat : r < c /\ c <= FutureRequests /\ IsStream(down, r, c)
  /\ conn # "server ends" => r <= FutureRequests

Streams(r, f, a) ==
  /\ ServedTo(r) /\ FlushedTo(f)
  /\ IF conn = "open" THEN Answered(r, f, a) ELSE Left(r)

SeastarTypes ==
  /\ client \in {"connect", "when_all", "done", "failed"}
  /\ conn \in {"none", "open", "reset", "server ends"}
  /\ up \in Seq(Half) /\ down \in Seq(Half) /\ partial \in Seq(Half)
  /\ client = "connect" => conn = "none"
  /\ client = "done" => conn = "server ends"
  /\ conn = "none" =>
       /\ client \in {"connect", "failed"} /\ futures = <<>>
       /\ up = <<>> /\ down = <<>> /\ partial = <<>> /\ handler = "none"

SeastarInv ==
  /\ SeastarTypes
  /\ conn # "none" => \E r, f, a \in Nat : Streams(r, f, a)

LEMMA InitFutures == ASSUME Futures!Init PROVE SeastarInv
BY DEF Futures!Init, SeastarInv, SeastarTypes

LEMMA EmptyStream == ASSUME NEW a \in Nat PROVE IsStream(<<>>, a, a)
<1>1. Len(<<>>) = 0 /\ 2 * (a - a) = 0 /\ \A k \in 0 .. a - a - 1 : FALSE
  OBVIOUS
<1> QED
  BY <1>1 DEF IsStream

LEMMA AllResolved ==
  ASSUME NEW r \in Nat, ServedTo(r)
  PROVE  Futures!Resolved = 1 .. r /\ r \in 0 .. 2 * FutureRequests
<1>1. 2 * FutureRequests \in Nat /\ r <= 2 * FutureRequests
      /\ DOMAIN futures = 1 .. 2 * FutureRequests
  BY FuturesAssumption DEF ServedTo
<1>2. \A k : k \in Futures!Resolved <=> k \in 1 .. 2 * FutureRequests /\ k <= r
  BY <1>1 DEF ServedTo, Futures!Resolved
<1>3. \A k : k \in 1 .. r <=> k \in 1 .. 2 * FutureRequests /\ k <= r
  BY <1>1
<1>4. r \in 0 .. 2 * FutureRequests
  BY <1>1
<1>5. Futures!Resolved = 1 .. r
  BY <1>2, <1>3, Zenon
<1> QED
  BY <1>4, <1>5

LEMMA StartClientKeeps == ASSUME SeastarInv, Futures!StartClient PROVE SeastarInv'
<1>1. client = "connect" /\ conn = "none" /\ futures = <<>>
      /\ up = <<>> /\ down = <<>> /\ partial = <<>> /\ handler = "none"
      /\ UNCHANGED <<up, down, listener, handler, partial>>
  BY DEF SeastarInv, SeastarTypes, Futures!StartClient
<1>2. CASE client' = "failed" /\ UNCHANGED <<futures, flushing, conn>>
  BY <1>1, <1>2 DEF SeastarInv, SeastarTypes
<1>3. CASE /\ client' = "when_all" /\ conn' = "open"
           /\ flushing' = [k \in 1 .. FutureRequests |-> k - 1]
           /\ futures' = [k \in 1 .. Futures!ReadsPerRequest * FutureRequests |->
                            [resolved |-> FALSE, halves |-> <<>>]]
  <2>1. Futures!ReadsPerRequest * FutureRequests = 2 * FutureRequests
    BY DEF Futures!ReadsPerRequest
  <2>2. DOMAIN futures' = 1 .. 2 * FutureRequests
        /\ \A k \in 1 .. 2 * FutureRequests : futures'[k].resolved = FALSE
    BY <1>3, <2>1
  <2>3. 2 * FutureRequests \in Nat /\ 0 <= 2 * FutureRequests
        /\ (\A k \in 1 .. 2 * FutureRequests : ~(k <= 0)) /\ \A k \in 1 .. 0 : FALSE
    BY FuturesAssumption
  <2>4. ServedTo(0)'
    BY <2>2, <2>3 DEF ServedTo
  <2>5. FlushedTo(0)'
    <3>1. flushing' \in Seq(Nat) /\ Len(flushing') = FutureRequests
          /\ \A k \in 1 .. FutureRequests : flushing'[k] = k - 1
      BY <1>3, FuturesAssumption
    <3>2. FutureRequests - 0 = FutureRequests /\ 0 <= FutureRequests
          /\ \A k \in 1 .. FutureRequests : 0 + k - 1 = k - 1
      BY FuturesAssumption
    <3> QED
      BY <3>1, <3>2 DEF FlushedTo
  <2>6. Answered(0, 0, 0)'
    <3>1. <<>> \o <<>> = <<>> /\ Len(<<>>) = 0
      OBVIOUS
    <3>2. IsStream(<<>>, 0, 0)
      BY EmptyStream
    <3>3. up' = <<>> /\ down' = <<>> /\ partial' = <<>>
      BY <1>1
    <3>4. 0 <= FutureRequests /\ 0 <= 0 /\ 0 <= 1
      BY FuturesAssumption
    <3> QED
      BY <3>1, <3>2, <3>3, <3>4 DEF Answered
  <2>7. Streams(0, 0, 0)'
    BY <1>3, <2>4, <2>5, <2>6 DEF Streams
  <2>8. SeastarTypes'
    BY <1>1, <1>3 DEF SeastarInv, SeastarTypes
  <2> QED
    BY <2>7, <2>8 DEF SeastarInv
<1> QED
  BY <1>2, <1>3 DEF Futures!StartClient

LEMMA FlushKeeps == ASSUME SeastarInv, Futures!Flush PROVE SeastarInv'
<1>1. /\ client = "when_all" /\ flushing # <<>> /\ flushing' = Tail(flushing)
      /\ up' = IF conn = "open" THEN up \o Futures!Halves(Head(flushing)) ELSE up
      /\ UNCHANGED <<client, futures, down, conn, listener, handler, partial>>
  BY DEF Futures!Flush
<1>2. conn # "none" /\ SeastarTypes
  BY <1>1 DEF SeastarInv, SeastarTypes
<1>3. PICK r \in Nat, f \in Nat, a \in Nat : Streams(r, f, a)
  BY <1>2 DEF SeastarInv
<1>4. f < FutureRequests /\ Head(flushing) = f /\ FlushedTo(f + 1)'
  <2>1. f <= FutureRequests /\ flushing \in Seq(Nat) /\ Len(flushing) = FutureRequests - f
        /\ \A k \in 1 .. FutureRequests - f : flushing[k] = f + k - 1
    BY <1>3 DEF Streams, FlushedTo
  <2>2. f < FutureRequests /\ 1 \in 1 .. FutureRequests - f /\ f + 1 - 1 = f
    BY <1>1, <2>1, FuturesAssumption
  <2>3. Head(flushing) = f
    BY <2>1, <2>2
  <2>4. /\ flushing' \in Seq(Nat) /\ Len(flushing') = FutureRequests - (f + 1)
        /\ \A k \in 1 .. FutureRequests - (f + 1) : flushing'[k] = flushing[k + 1]
    BY <1>1, <2>1, <2>2, FuturesAssumption
  <2>5. \A k \in 1 .. FutureRequests - (f + 1) :
          k + 1 \in 1 .. FutureRequests - f /\ f + (k + 1) - 1 = (f + 1) + k - 1
    BY FuturesAssumption
  <2>6. \A k \in 1 .. FutureRequests - (f + 1) : flushing'[k] = (f + 1) + k - 1
    BY <2>1, <2>4, <2>5
  <2> QED
    BY <2>2, <2>3, <2>4, <2>6, FuturesAssumption DEF FlushedTo
<1>5. ServedTo(r)'
  BY <1>1, <1>3 DEF Streams, ServedTo
<1>6. CASE conn = "open"
  <2>1. up' = up \o Futures!Halves(f)
    BY <1>1, <1>4, <1>6
  <2>2. /\ r <= a /\ a <= f /\ r <= FutureRequests /\ IsStream(down, r, a)
        /\ Len(partial) <= 1 /\ IsStream(partial \o up, a, f)
    BY <1>3, <1>6 DEF Answered, Streams
  <2>3. up \in Seq(Half) /\ partial \in Seq(Half) /\ partial \o up \in Seq(Half)
    <3>1. up \in Seq(Half) /\ partial \in Seq(Half)
      BY <1>2 DEF SeastarTypes
    <3> QED
      BY <3>1, ConcatProperties
  <2>4. Futures!Halves(f) \in Seq(Half) /\ IsStream((partial \o up) \o Futures!Halves(f), a, f + 1)
    BY <2>2, <2>3, StreamAppended
  <2>5. (partial \o up) \o Futures!Halves(f) = partial \o up'
    <3> DEFINE h == Futures!Halves(f)
    <3>1. h \in Seq(Half) /\ up' = up \o h
      BY <2>1, <2>4
    <3> HIDE DEF h
    <3>2. (partial \o up) \o h = partial \o (up \o h)
      BY ONLY <2>3, <3>1, ConcatAssociative
    <3> QED
      BY <3>1, <3>2 DEF h
  <2>6. up' \in Seq(Half)
    BY <2>1, <2>3, <2>4
  <2>7. a <= f + 1
    BY <2>2
  <2>8. Answered(r, f + 1, a)'
    BY <1>1, <2>2, <2>4, <2>5, <2>7 DEF Answered
  <2>9. Streams(r, f + 1, a)'
    BY <1>1, <1>4, <1>5, <1>6, <2>8 DEF Streams
  <2>10. SeastarTypes'
    BY <1>1, <1>2, <1>6, <2>6 DEF SeastarTypes
  <2> QED
    BY <2>9, <2>10 DEF SeastarInv
<1>7. CASE conn # "open"
  <2>1. Left(r)'
    BY <1>1, <1>3, <1>7 DEF Streams, Left
  <2>2. Streams(r, f + 1, a)'
    BY <1>1, <1>4, <1>5, <1>7, <2>1 DEF Streams
  <2>3. SeastarTypes'
    BY <1>1, <1>2, <1>7 DEF SeastarTypes
  <2> QED
    BY <2>2, <2>3 DEF SeastarInv
<1> QED
  BY <1>6, <1>7

LEMMA ReadExactlyKeeps == ASSUME SeastarInv, Futures!ReadExactly PROVE SeastarInv'
<1> DEFINE next == CHOOSE k \in DOMAIN futures \ Futures!Resolved :
                     k - 1 \in Futures!Resolved \cup {0}
           n == IF Len(down) < 2 THEN Len(down) ELSE 2
<1>1. /\ client = "when_all" /\ Futures!Resolved # DOMAIN futures
      /\ Len(down) >= 2 \/ conn = "server ends"
      /\ futures' = [futures EXCEPT ![next] =
                        [resolved |-> TRUE, halves |-> SubSeq(down, 1, n)]]
      /\ down' = SubSeq(down, n + 1, Len(down))
      /\ UNCHANGED <<client, flushing, up, conn, listener, handler, partial>>
  BY DEF Futures!ReadExactly
<1>2. conn # "none" /\ down \in Seq(Half) /\ SeastarTypes
  BY <1>1 DEF SeastarInv, SeastarTypes
<1>3. PICK r \in Nat, f \in Nat, a \in Nat : Streams(r, f, a)
  BY <1>2 DEF SeastarInv
<1>4. Futures!Resolved = 1 .. r /\ r \in 0 .. 2 * FutureRequests
  BY <1>3, AllResolved DEF Streams
<1>5. 2 * FutureRequests \in Nat /\ DOMAIN futures = 1 .. 2 * FutureRequests
  BY <1>3, FuturesAssumption DEF Streams, ServedTo
<1>6. next = r + 1 /\ r + 1 \in 1 .. 2 * FutureRequests
  <2>1. r < 2 * FutureRequests
    <3>1. r # 2 * FutureRequests
      BY <1>1, <1>4, <1>5, Zenon
    <3> QED
      BY <1>4, <1>5, <3>1
  <2>2. \A k \in DOMAIN futures \ Futures!Resolved :
          k - 1 \in Futures!Resolved \cup {0} <=> k = r + 1
    BY <1>4, <1>5, <2>1
  <2>3. r + 1 \in DOMAIN futures \ Futures!Resolved
    BY <1>4, <1>5, <2>1
  <2> QED
    BY <1>5, <2>1, <2>2, <2>3
<1> HIDE DEF next, n
<1>7. futures' = [futures EXCEPT ![r + 1] = [resolved |-> TRUE, halves |-> SubSeq(down, 1, n)]]
  BY <1>1, <1>6
<1>8. FlushedTo(f)'
  BY <1>1, <1>3 DEF Streams, FlushedTo
<1>9. ASSUME SubSeq(down, 1, n) = <<>> \/ (SubSeq(down, 1, n) = Futures!Halves(r)
                                           /\ r + 1 <= FutureRequests)
      PROVE  ServedTo(r + 1)'
  <2>1. DOMAIN futures' = 1 .. 2 * FutureRequests /\ r + 1 <= 2 * FutureRequests
    BY <1>5, <1>6, <1>7
  <2>2. \A k \in 1 .. 2 * FutureRequests :
          futures'[k] = IF k = r + 1 THEN [resolved |-> TRUE, halves |-> SubSeq(down, 1, n)]
                                     ELSE futures[k]
    BY <1>5, <1>6, <1>7
  <2>3. \A k \in 1 .. 2 * FutureRequests : futures'[k].resolved <=> k <= r + 1
    <3>1. \A k \in 1 .. 2 * FutureRequests : futures[k].resolved <=> k <= r
      BY <1>3 DEF Streams, ServedTo
    <3>2. \A k \in 1 .. 2 * FutureRequests : k <= r + 1 <=> (k = r + 1 \/ k <= r)
      BY <1>5
    <3> QED
      BY <2>2, <3>1, <3>2
  <2>4. \A k \in 1 .. r + 1 : futures'[k].halves = <<>>
          \/ (futures'[k].halves = Futures!Halves(k - 1) /\ k <= FutureRequests)
    <3>1. \A k \in 1 .. r : futures[k].halves = <<>>
            \/ (futures[k].halves = Futures!Halves(k - 1) /\ k <= FutureRequests)
      BY <1>3 DEF Streams, ServedTo
    <3>2. \A k \in 1 .. r + 1 :
            /\ k \in 1 .. 2 * FutureRequests
            /\ ((k = r + 1 /\ k - 1 = r) \/ (k # r + 1 /\ k \in 1 .. r))
      BY <1>5, <1>6
    <3> SUFFICES ASSUME NEW k \in 1 .. r + 1
                 PROVE  futures'[k].halves = <<>>
                        \/ (futures'[k].halves = Futures!Halves(k - 1) /\ k <= FutureRequests)
      OBVIOUS
    <3>3. CASE k = r + 1
      <4>1. futures'[k].halves = SubSeq(down, 1, n) /\ k - 1 = r
        BY <2>2, <3>2, <3>3
      <4> QED
        BY <1>9, <3>3, <4>1, Zenon
    <3>4. CASE k # r + 1
      <4>1. futures'[k] = futures[k] /\ k \in 1 .. r
        BY <2>2, <3>2, <3>4
      <4> QED
        BY <3>1, <4>1
    <3> QED
      BY <3>3, <3>4
  <2> QED
    BY <2>1, <2>3, <2>4 DEF ServedTo
<1>10. ASSUME NEW c \in Nat, r < c, c <= FutureRequests, IsStream(down, r, c)
       PROVE  /\ ServedTo(r + 1)' /\ down' \in Seq(Half) /\ IsStream(down', r + 1, c)
  <2>1. Len(down) >= 2 /\ SubSeq(down, 1, 2) = Futures!Halves(r)
        /\ SubSeq(down, 3, Len(down)) \in Seq(Half)
        /\ IsStream(SubSeq(down, 3, Len(down)), r + 1, c)
    BY <1>2, <1>10, StreamTaken
  <2>2. n = 2 /\ n + 1 = 3
    BY <1>2, <2>1 DEF n
  <2>3. r + 1 <= FutureRequests
    BY <1>10, FuturesAssumption
  <2> QED
    BY <1>1, <1>9, <2>1, <2>2, <2>3
<1>11. CASE conn = "open"
  <2>1. /\ r <= a /\ a <= f /\ r <= FutureRequests /\ IsStream(down, r, a)
        /\ Len(partial) <= 1 /\ IsStream(partial \o up, a, f) /\ f <= FutureRequests
    BY <1>3, <1>11 DEF Answered, Streams, FlushedTo
  <2>2. r # a
    BY <1>1, <1>11, <2>1 DEF IsStream
  <2>3. r < a /\ r + 1 <= a /\ a <= FutureRequests /\ r + 1 <= FutureRequests
    BY <2>1, <2>2, FuturesAssumption
  <2>4. ServedTo(r + 1)' /\ down' \in Seq(Half) /\ IsStream(down', r + 1, a)
    BY <1>10, <2>1, <2>3
  <2>5. Answered(r + 1, f, a)'
    BY <1>1, <2>1, <2>3, <2>4 DEF Answered
  <2>6. Streams(r + 1, f, a)'
    BY <1>1, <1>8, <1>11, <2>4, <2>5 DEF Streams
  <2>7. SeastarTypes'
    BY <1>1, <1>2, <1>11, <2>4 DEF SeastarTypes
  <2> QED
    BY <2>6, <2>7 DEF SeastarInv
<1>12. CASE conn # "open"
  <2>2. up = <<>> /\ (down = <<>> \/ \E c \in Nat : r < c /\ c <= FutureRequests
                                                    /\ IsStream(down, r, c))
        /\ (conn # "server ends" => r <= FutureRequests)
    BY <1>3, <1>12 DEF Streams, Left
  <2>3. CASE down = <<>>
    <3>1. Len(down) = 0 /\ conn = "server ends" /\ n = 0
      <4>1. Len(<<>>) = 0
        OBVIOUS
      <4>2. Len(down) = 0
        BY <2>3, <4>1
      <4>3. n = 0
        BY ONLY <4>2 DEF n
      <4>4. ~(0 >= 2)
        OBVIOUS
      <4>5. conn = "server ends"
        BY <1>1, <4>2, <4>4, Zenon
      <4> QED
        BY <4>2, <4>3, <4>5
    <3>2. SubSeq(down, 1, n) = <<>> /\ SubSeq(down, n + 1, Len(down)) = <<>>
      <4>1. 1 \in Int /\ 0 \in Int /\ 0 < 1 /\ 0 + 1 = 1
        OBVIOUS
      <4>2. SubSeq(down, 1, 0) = <<>>
        BY ONLY <4>1, SubSeqEmpty
      <4> QED
        BY <3>1, <4>1, <4>2, Zenon
    <3>3. down' = <<>> /\ ServedTo(r + 1)'
      BY <1>1, <1>9, <3>2
    <3>4. Left(r + 1)'
      BY <1>1, <2>2, <3>1, <3>3 DEF Left
    <3>5. Streams(r + 1, f, a)'
      BY <1>1, <1>8, <1>12, <3>3, <3>4 DEF Streams
    <3>6. SeastarTypes'
      <4>1. <<>> \in Seq(Half)
        OBVIOUS
      <4> QED
        BY <1>1, <1>2, <1>12, <3>3, <4>1 DEF SeastarTypes
    <3> QED
      BY <3>5, <3>6 DEF SeastarInv
  <2>4. ASSUME NEW c \in Nat, r < c, c <= FutureRequests, IsStream(down, r, c)
        PROVE  SeastarInv'
    <3>1. ServedTo(r + 1)' /\ down' \in Seq(Half) /\ IsStream(down', r + 1, c)
      BY <1>10, <2>4
    <3>2. r + 1 <= c /\ r + 1 <= FutureRequests
      BY <2>4, FuturesAssumption
    <3>3. down' = <<>> \/ r + 1 < c
      BY <3>1, <3>2 DEF IsStream
    <3>4. Left(r + 1)'
      BY <1>1, <2>2, <2>4, <3>1, <3>2, <3>3 DEF Left
    <3>5. Streams(r + 1, f, a)'
      BY <1>1, <1>8, <1>12, <3>1, <3>4 DEF Streams
    <3>6. SeastarTypes'
      BY <1>1, <1>2, <1>12, <3>1 DEF SeastarTypes
    <3> QED
      BY <3>5, <3>6 DEF SeastarInv
  <2> QED
    BY <2>2, <2>3, <2>4
<1> QED
  BY <1>11, <1>12

LEMMA WhenAllKeeps == ASSUME SeastarInv, Futures!WhenAll PROVE SeastarInv'
<1>1. /\ client = "when_all"
      /\ \/ Futures!Resolved = DOMAIN futures /\ client' = "done"
         \/ conn \in {"reset", "server ends"} /\ client' = "failed"
      /\ conn' = IF conn = "open" THEN "closed" ELSE conn
      /\ UNCHANGED <<futures, flushing, up, down, listener, handler, partial>>
  BY DEF Futures!WhenAll
<1>2. conn # "none" /\ SeastarTypes
  BY <1>1 DEF SeastarInv, SeastarTypes
<1>3. PICK r \in Nat, f \in Nat, a \in Nat : Streams(r, f, a)
  BY <1>2 DEF SeastarInv
<1>4. Futures!Resolved = DOMAIN futures => conn = "server ends"
  <2>1. Futures!Resolved = 1 .. r /\ DOMAIN futures = 1 .. 2 * FutureRequests
    BY <1>3, AllResolved DEF Streams, ServedTo
  <2>2. 2 * FutureRequests \in 1 .. 2 * FutureRequests /\ 2 * FutureRequests > FutureRequests
    BY FuturesAssumption
  <2>3. conn # "server ends" => r <= FutureRequests
    BY <1>3 DEF Streams, Answered, Left
  <2>4. 2 * FutureRequests \in 1 .. r => r > FutureRequests
    BY <2>2, FuturesAssumption
  <2>5. r > FutureRequests => ~(r <= FutureRequests)
    BY FuturesAssumption
  <2> QED
    BY <2>1, <2>2, <2>3, <2>4, <2>5, Zenon
<1>5. conn \in {"reset", "server ends"} /\ UNCHANGED conn
      /\ (client' = "done" => conn = "server ends") /\ client' \in {"done", "failed"}
  BY <1>1, <1>4
<1>6. ServedTo(r)' /\ FlushedTo(f)' /\ Left(r)'
  BY <1>1, <1>3, <1>5 DEF Streams, ServedTo, FlushedTo, Left
<1>7. Streams(r, f, a)'
  BY <1>5, <1>6 DEF Streams
<1>8. SeastarTypes'
  BY <1>1, <1>2, <1>5 DEF SeastarTypes
<1> QED
  BY <1>7, <1>8 DEF SeastarInv

LEMMA HandlerKeeps ==
  ASSUME SeastarInv, Futures!Accept \/ Futures!HandleConnection
  PROVE  SeastarInv'
<1>1. UNCHANGED <<client, futures, flushing, conn>>
  BY DEF Futures!Accept, Futures!HandleConnection
<1>2. ASSUME NEW r \in Nat, NEW f \in Nat, ServedTo(r), FlushedTo(f)
      PROVE  ServedTo(r)' /\ FlushedTo(f)'
  BY <1>1, <1>2 DEF ServedTo, FlushedTo
<1>3. CASE Futures!Accept
  <2>1. UNCHANGED <<up, down, partial>> /\ conn # "none"
    BY <1>3 DEF Futures!Accept
  <2>2. PICK r \in Nat, f \in Nat, a \in Nat : Streams(r, f, a)
    BY <2>1 DEF SeastarInv
  <2>3. Streams(r, f, a)'
    BY <1>1, <1>2, <2>1, <2>2 DEF Streams, Answered, Left
  <2>4. SeastarTypes'
    BY <1>1, <2>1 DEF SeastarInv, SeastarTypes
  <2> QED
    BY <2>3, <2>4 DEF SeastarInv
<1>4. CASE /\ handler = "repeat" /\ up = <<>> /\ conn \in {"closed", "reset", "server ends"}
           /\ partial' = <<>> /\ UNCHANGED <<up, down>>
  <2>1. conn # "none" /\ conn # "open"
    BY <1>4
  <2>2. PICK r \in Nat, f \in Nat, a \in Nat : Streams(r, f, a)
    BY <2>1 DEF SeastarInv
  <2>3. Streams(r, f, a)'
    BY <1>1, <1>2, <1>4, <2>1, <2>2 DEF Streams, Left
  <2>4. SeastarTypes'
    <3>1. <<>> \in Seq(Half)
      OBVIOUS
    <3> QED
      BY <1>1, <1>4, <2>1, <3>1 DEF SeastarInv, SeastarTypes
  <2> QED
    BY <2>3, <2>4 DEF SeastarInv
<1>5. CASE handler = "repeat" /\ up # <<>> /\ Futures!HandleConnection
  <2> DEFINE halves == Append(partial, Head(up))
             s == partial \o up
  <2>1. /\ up' = Tail(up) /\ UNCHANGED handler
        /\ down' = IF conn = "open" THEN down \o Futures!Answers(halves) ELSE down
        /\ partial' = IF Len(halves) = 2 THEN <<>> ELSE halves
    BY <1>5 DEF Futures!HandleConnection
  <2>2. conn = "open" /\ SeastarTypes
    BY <1>5 DEF SeastarInv, SeastarTypes, Streams, Left
  <2>3. PICK r \in Nat, f \in Nat, a \in Nat : Streams(r, f, a)
    BY <2>2 DEF SeastarInv
  <2>4. up \in Seq(Half) /\ partial \in Seq(Half) /\ down \in Seq(Half) /\ s \in Seq(Half)
    BY <2>2 DEF SeastarTypes
  <2>5. /\ r <= a /\ a <= f /\ r <= FutureRequests /\ f <= FutureRequests
        /\ IsStream(down, r, a) /\ Len(partial) <= 1 /\ IsStream(s, a, f)
    BY <2>2, <2>3 DEF Streams, Answered, FlushedTo
  <2>6. ServedTo(r)' /\ FlushedTo(f)'
    BY <1>2, <2>3 DEF Streams
  <2>7. Len(s) = Len(partial) + Len(up) /\ Len(up) >= 1
    BY <1>5, <2>4
  <2>8. Len(s) = 2 * (f - a)
    BY <2>5 DEF IsStream
  <2>9. Head(up) \in Half /\ Tail(up) \in Seq(Half) /\ halves \in Seq(Half)
        /\ Len(halves) = Len(partial) + 1
    BY <1>5, <2>4
  <2>10. CASE Len(partial) = 0
    <3>1. partial = <<>>
      BY <2>4, <2>10
    <3>2. halves = <<Head(up)>> /\ Len(halves) = 1
      BY <2>9, <3>1
    <3>3. partial' = halves /\ Futures!Answers(halves) = <<>>
      BY <2>1, <3>2 DEF Futures!Answers
    <3>4. down' = down
      BY <2>1, <2>2, <2>4, <3>3, ConcatEmptySeq
    <3>5. s = up
      BY <2>4, <3>1, ConcatEmptySeq
    <3>6. <<Head(up)>> \o Tail(up) = up
      BY <1>5, <2>4
    <3>7. partial' \o up' = s /\ Len(partial') <= 1
      <4>1. partial' = <<Head(up)>> /\ up' = Tail(up)
        BY <2>1, <3>2, <3>3, Zenon
      <4>2. Len(partial') = 1
        BY <3>2, <3>3, Zenon
      <4>3. partial' \o up' = s
        BY <3>5, <3>6, <4>1, Zenon
      <4> QED
        BY <4>2, <4>3
    <3>8. Answered(r, f, a)'
      BY <2>5, <3>4, <3>7 DEF Answered
    <3>9. Streams(r, f, a)'
      BY <1>1, <2>2, <2>6, <3>8 DEF Streams
    <3>10. SeastarTypes'
      BY <1>1, <2>1, <2>2, <2>9, <3>3, <3>4 DEF SeastarTypes
    <3> QED
      BY <3>9, <3>10 DEF SeastarInv
  <2>11. CASE Len(partial) = 1
    <3>1. a < f
      BY <2>5, <2>7, <2>8, <2>11
    <3> HIDE DEF s
    <3>2. s[1] = <<1, a>> /\ s[2] = <<2, a>> /\ Len(s) >= 2
          /\ SubSeq(s, 3, Len(s)) \in Seq(Half) /\ IsStream(SubSeq(s, 3, Len(s)), a + 1, f)
      BY <2>4, <2>5, <3>1, StreamTaken
    <3>3. partial[1] = s[1] /\ halves[1] = partial[1] /\ Len(halves) = 2
      BY <2>4, <2>7, <2>9, <2>11 DEF s
    <3> HIDE DEF halves
    <3>4. Futures!Answers(halves) = Futures!Halves(a) /\ partial' = <<>>
      BY <2>1, <3>2, <3>3 DEF Futures!Answers
    <3>5. down' = down \o Futures!Halves(a)
      BY <2>1, <2>2, <3>4
    <3>6. Futures!Halves(a) \in Seq(Half) /\ IsStream(down', r, a + 1)
      BY <2>4, <2>5, <3>5, StreamAppended
    <3>7. partial' \o up' = SubSeq(s, 3, Len(s))
      <4>1. Len(Tail(up)) = Len(up) - 1 /\ Len(SubSeq(s, 3, Len(s))) = Len(s) - 2
        BY <2>4, <2>7, <3>2
      <4>2. \A k \in 1 .. Len(up) - 1 : Tail(up)[k] = up[k + 1]
        BY <2>4, <2>7
      <4>3. \A k \in 1 .. Len(s) - 2 : SubSeq(s, 3, Len(s))[k] = s[k + 2]
        BY <2>4, <3>2
      <4>4. \A k \in 1 .. Len(s) - 2 : s[k + 2] = up[k + 1]
        BY <2>4, <2>7, <2>11 DEF s
      <4>5. Len(s) - 2 = Len(up) - 1
        BY <2>7, <2>11
      <4>6. \A k \in 1 .. Len(Tail(up)) : Tail(up)[k] = SubSeq(s, 3, Len(s))[k]
        BY <4>1, <4>2, <4>3, <4>4, <4>5
      <4>7. Tail(up) = SubSeq(s, 3, Len(s))
        BY <2>9, <3>2, <4>1, <4>5, <4>6, SeqEqual
      <4> QED
        BY <2>1, <2>9, <3>4, <4>7, ConcatEmptySeq
    <3>8. a + 1 <= f /\ r <= a + 1 /\ Len(<<>>) = 0
      BY <2>5, <3>1
    <3>9. Answered(r, f, a + 1)'
      <4>1. IsStream(partial' \o up', a + 1, f)
        BY <3>2, <3>7, Zenon
      <4>2. Len(partial') <= 1
        BY <3>4, <3>8
      <4> QED
        BY <2>5, <3>6, <3>8, <4>1, <4>2, Zenon DEF Answered
    <3>10. Streams(r, f, a + 1)'
      BY <1>1, <2>2, <2>6, <3>9 DEF Streams
    <3>11. down' \in Seq(Half) /\ up' \in Seq(Half) /\ partial' \in Seq(Half)
      BY <2>1, <2>4, <2>9, <3>4, <3>5, <3>6
    <3>12. SeastarTypes'
      BY <1>1, <2>2, <3>11 DEF SeastarTypes
    <3> QED
      BY <3>10, <3>12 DEF SeastarInv
  <2>12. Len(partial) = 0 \/ Len(partial) = 1
    <3>1. Len(partial) \in Nat /\ Len(partial) <= 1
      BY <2>4, <2>5
    <3> QED
      BY <3>1
  <2> QED
    BY <2>10, <2>11, <2>12
<1> QED
  BY <1>3, <1>4, <1>5 DEF Futures!HandleConnection

LEMMA LostKeeps == ASSUME SeastarInv, Futures!Lost PROVE SeastarInv'
<1>1. conn = "open" /\ conn' \in {"reset", "server ends"} /\ up' = <<>>
      /\ UNCHANGED <<client, futures, flushing, down, listener, handler, partial>>
  BY DEF Futures!Lost
<1>2. PICK r \in Nat, f \in Nat, a \in Nat : Streams(r, f, a)
  BY <1>1 DEF SeastarInv
<1>3. down = <<>> \/ (r < a /\ a <= FutureRequests /\ IsStream(down, r, a))
  <2>1. r <= a /\ a <= f /\ f <= FutureRequests /\ IsStream(down, r, a) /\ down \in Seq(Half)
    BY <1>1, <1>2 DEF SeastarInv, SeastarTypes, Streams, Answered, FlushedTo
  <2>2. r = a => Len(down) = 0
    BY <2>1 DEF IsStream
  <2>3. r = a => down = <<>>
    BY <2>1, <2>2
  <2> QED
    BY <2>1, <2>3, FuturesAssumption
<1>4. ServedTo(r)' /\ FlushedTo(f)'
  BY <1>1, <1>2 DEF Streams, ServedTo, FlushedTo
<1>5. r <= FutureRequests
  BY <1>1, <1>2 DEF Streams, Answered
<1>6. Left(r)'
  BY <1>1, <1>3, <1>5 DEF Left
<1>7. Streams(r, f, a)'
  BY <1>1, <1>4, <1>6 DEF Streams
<1>8. SeastarTypes'
  <2>1. <<>> \in Seq(Half)
    OBVIOUS
  <2> QED
    BY <1>1, <2>1 DEF SeastarInv, SeastarTypes
<1> QED
  BY <1>1, <1>7, <1>8 DEF SeastarInv

LEMMA NextKeepsFutures ==
  ASSUME SeastarInv, [Futures!Next]_(Futures!seastar)
  PROVE  SeastarInv'
<1>1. CASE UNCHANGED Futures!seastar
  <2>1. UNCHANGED <<client, conn, up, down, partial, futures, flushing, handler>>
    BY <1>1 DEF Futures!seastar
  <2>2. SeastarTypes'
    BY <2>1 DEF SeastarInv, SeastarTypes
  <2>3. ASSUME conn' # "none" PROVE \E r, f, a \in Nat : Streams(r, f, a)'
    <3>1. PICK r, f, a \in Nat : Streams(r, f, a)
      BY <2>1, <2>3 DEF SeastarInv
    <3>2. ServedTo(r)' /\ FlushedTo(f)'
      BY <2>1, <3>1 DEF Streams, ServedTo, FlushedTo
    <3>3. conn = "open" => Answered(r, f, a)'
      BY <2>1, <3>1 DEF Streams, Answered
    <3>4. conn # "open" => Left(r)'
      BY <2>1, <3>1 DEF Streams, Left
    <3> QED
      BY <2>1, <3>2, <3>3, <3>4 DEF Streams
  <2> QED
    BY <2>2, <2>3 DEF SeastarInv
<1> QED
  BY <1>1, StartClientKeeps, FlushKeeps, ReadExactlyKeeps, WhenAllKeeps, HandlerKeeps, LostKeeps
  DEF Futures!Next, Futures!Client

LEMMA FuturesAgree ==
  ASSUME SeastarInv
  PROVE  Futures!PagesInOrder /\ Futures!HalfIsNeverServed
<1>1. CASE conn = "none"
  <2>1. futures = <<>> /\ client # "done"
    BY <1>1 DEF SeastarInv, SeastarTypes
  <2>2. DOMAIN <<>> = {}
    OBVIOUS
  <2>3. Futures!Served = {}
    BY <2>1, <2>2 DEF Futures!Served, Futures!Resolved
  <2> QED
    BY <2>1, <2>3 DEF Futures!PagesInOrder, Futures!HalfIsNeverServed
<1>2. CASE conn # "none"
  <2>1. PICK r \in Nat, f \in Nat, a \in Nat : Streams(r, f, a)
    BY <1>2 DEF SeastarInv
  <2>2. Futures!Resolved = 1 .. r
    BY <2>1, AllResolved DEF Streams
  <2>3. \A k \in 1 .. r :
          \/ futures[k].halves = <<>>
       \/ (futures[k].halves = Futures!Halves(k - 1) /\ k <= FutureRequests)
    BY <2>1 DEF Streams, ServedTo
  <2>4. \A k \in Futures!Served : futures[k].halves = Futures!Halves(k - 1)
                                  /\ k \in 1 .. FutureRequests
    BY <2>2, <2>3, FuturesAssumption DEF Futures!Served
  <2> QED
    BY <2>4 DEF SeastarInv, SeastarTypes, Futures!PagesInOrder, Futures!HalfIsNeverServed
<1> QED
  BY <1>1, <1>2

(***************************************************************************)
(* The tokio-uring client and server (TokioUring): every piece written is  *)
(* on the connection, in the bytes_read of a task that waits for the lock, *)
(* or counted.                                                             *)
(***************************************************************************)

TasksTypeOK ==
  /\ readers \in [Tasks!Tasks -> {"none", "check", "read", "lock", "done"}]
  /\ bytes_read \in [Tasks!Tasks -> Nat]
  /\ total_bytes \in Nat /\ total_pages \in Nat /\ written \in Nat /\ unread \in Nat

TasksInv ==
  /\ TasksTypeOK
  /\ \A t \in Tasks!Tasks :
       bytes_read[t] <= TaskPageSize /\ (readers[t] # "lock" => bytes_read[t] = 0)
  /\ total_bytes + Total(bytes_read) + unread = written
  /\ total_bytes <= total_pages * TaskPageSize
  /\ process = "connect" => \A t \in Tasks!Tasks : readers[t] = "none"

LEMMA FewTasks == IsFiniteSet(Tasks!Tasks)
BY TasksAssumption, FS_Interval DEF Tasks!Tasks

LEMMA TasksMin == \A a, b \in Int : Tasks!Min({a, b}) \in Int
                                    /\ Tasks!Min({a, b}) <= a /\ Tasks!Min({a, b}) <= b
<1> TAKE a, b \in Int
<1>1. \E x \in {a, b} : \A y \in {a, b} : x <= y
  OBVIOUS
<1>2. /\ Tasks!Min({a, b}) \in {a, b}
      /\ Tasks!Min({a, b}) <= a /\ Tasks!Min({a, b}) <= b
  BY <1>1 DEF Tasks!Min
<1> QED
  BY <1>2

(* The sum after one task's bytes_read has changed.                        *)
LEMMA BytesReadChanged ==
  ASSUME TasksTypeOK, NEW t \in Tasks!Tasks, NEW n \in Nat,
         bytes_read' = [bytes_read EXCEPT ![t] = n]
  PROVE  /\ bytes_read' \in [Tasks!Tasks -> Nat] /\ bytes_read'[t] = n
         /\ \A s \in Tasks!Tasks \ {t} : bytes_read'[s] = bytes_read[s]
         /\ Total(bytes_read') = Total(bytes_read) + n - bytes_read[t]
         /\ Total(bytes_read) \in Int
<1>1. /\ bytes_read' \in [Tasks!Tasks -> Nat] /\ bytes_read'[t] = n
      /\ \A s \in Tasks!Tasks \ {t} : bytes_read'[s] = bytes_read[s]
  BY DEF TasksTypeOK
<1>2. bytes_read' \in [Tasks!Tasks -> Int] /\ bytes_read \in [Tasks!Tasks -> Int]
  BY <1>1 DEF TasksTypeOK
<1>3. Total(bytes_read') = Total(bytes_read) + bytes_read'[t] - bytes_read[t]
      /\ Total(bytes_read) \in Int
  BY ONLY <1>1, <1>2, FewTasks, TotalChanged, t \in Tasks!Tasks
<1> QED
  BY <1>1, <1>3

LEMMA InitTasks == ASSUME Tasks!Init PROVE TasksInv
<1>1. /\ readers = [t \in Tasks!Tasks |-> "none"] /\ bytes_read = [t \in Tasks!Tasks |-> 0]
      /\ total_bytes = 0 /\ total_pages = 0 /\ written = 0 /\ unread = 0
  BY DEF Tasks!Init, Tasks!All
<1>2. bytes_read \in [Tasks!Tasks -> {0}]
  BY <1>1
<1>3. Total(bytes_read) = 0
  BY <1>2, FewTasks, TotalZero
<1>4. 0 * TaskPageSize = 0 /\ TaskPageSize \in Nat
  BY TasksAssumption
<1>5. TasksTypeOK
  BY <1>1 DEF TasksTypeOK
<1>6. \A t \in Tasks!Tasks : bytes_read[t] = 0 /\ 0 <= TaskPageSize /\ readers[t] = "none"
  BY <1>1, <1>4
<1> QED
  BY <1>1, <1>3, <1>4, <1>5, <1>6 DEF TasksInv

(* The steps that count nothing: a task that does not wait for the lock    *)
(* moves to a place other than the lock.                                   *)
LEMMA OthersKeepTasks ==
  ASSUME TasksInv, UNCHANGED <<bytes_read, total_bytes, total_pages>>,
         written' \in Nat, unread' \in Nat, written' - unread' = written - unread,
         readers' \in [Tasks!Tasks -> {"none", "check", "read", "lock", "done"}],
         \A t \in Tasks!Tasks : readers[t] = "lock" => readers'[t] = "lock",
         process' = "connect" => process = "connect" /\ UNCHANGED readers
  PROVE  TasksInv'
<1>1. TasksTypeOK'
  BY DEF TasksInv, TasksTypeOK
<1>2. \A t \in Tasks!Tasks :
        bytes_read'[t] <= TaskPageSize /\ (readers'[t] # "lock" => bytes_read'[t] = 0)
  BY DEF TasksInv
<1>3. total_bytes' + Total(bytes_read)' + unread' = written'
  <2>1. Total(bytes_read)' = Total(bytes_read)
    <3>1. Total(bytes_read)' = Total(bytes_read')
      OBVIOUS
    <3> QED
      BY <3>1
  <2>2. total_bytes \in Nat /\ unread \in Nat /\ written \in Nat
        /\ total_bytes + Total(bytes_read) + unread = written /\ total_bytes' = total_bytes
    BY DEF TasksInv, TasksTypeOK
  <2>3. Total(bytes_read) \in Int
    <3>1. /\ bytes_read \in [Tasks!Tasks -> Int]
          /\ \A t \in Tasks!Tasks : bytes_read[t] <= bytes_read[t]
      BY DEF TasksInv, TasksTypeOK
    <3> QED
      BY ONLY <3>1, FewTasks, TotalGrows
  <2>4. written \in Nat /\ unread \in Nat /\ total_bytes \in Nat /\ written' \in Nat
        /\ unread' \in Nat /\ written' - unread' = written - unread
    BY <2>2
  <2> DEFINE sum == Total(bytes_read)
  <2>5. sum \in Int /\ total_bytes + sum + unread = written
    BY <2>2, <2>3
  <2> HIDE DEF sum
  <2>6. total_bytes + sum + unread' = written'
    <3>1. total_bytes + sum = written - unread
      BY ONLY <2>4, <2>5
    <3>2. total_bytes + sum = written' - unread'
      BY ONLY <2>4, <3>1
    <3>3. total_bytes + sum \in Int
      BY ONLY <2>4, <2>5
    <3> QED
      BY ONLY <2>4, <3>2, <3>3
  <2>7. total_bytes + Total(bytes_read) + unread' = written'
    BY <2>6 DEF sum
  <2> QED
    BY <2>1, <2>2, <2>7
<1>4. total_bytes' <= total_pages' * TaskPageSize
  BY DEF TasksInv
<1>5. process' = "connect" => \A t \in Tasks!Tasks : readers'[t] = "none"
  BY DEF TasksInv
<1> QED
  BY <1>1, <1>2, <1>3, <1>4, <1>5 DEF TasksInv

LEMMA TaskKeeps ==
  ASSUME TasksInv, NEW t \in Tasks!Tasks, Tasks!CheckTime(t) \/ Tasks!Read(t) \/ Tasks!Lock(t)
  PROVE  TasksInv'
<1>0. process # "connect" /\ process' = process
  BY DEF TasksInv, Tasks!CheckTime, Tasks!Read, Tasks!Lock
<1>1. /\ TasksTypeOK /\ TaskPageSize \in Nat
      /\ \A s \in Tasks!Tasks :
           bytes_read[s] <= TaskPageSize /\ (readers[s] # "lock" => bytes_read[s] = 0)
      /\ total_bytes + Total(bytes_read) + unread = written
      /\ total_bytes <= total_pages * TaskPageSize
  BY TasksAssumption DEF TasksInv
<1>2. /\ readers \in [Tasks!Tasks -> {"none", "check", "read", "lock", "done"}]
      /\ bytes_read \in [Tasks!Tasks -> Nat] /\ bytes_read[t] \in Nat
      /\ total_bytes \in Nat /\ total_pages \in Nat /\ written \in Nat /\ unread \in Nat
  BY <1>1 DEF TasksTypeOK
<1>3. ASSUME NEW state \in {"none", "check", "read", "lock", "done"}, Tasks!Goes(t, state)
      PROVE  /\ readers' \in [Tasks!Tasks -> {"none", "check", "read", "lock", "done"}]
             /\ readers'[t] = state /\ \A s \in Tasks!Tasks \ {t} : readers'[s] = readers[s]
  BY <1>2, <1>3 DEF Tasks!Goes
<1>4. CASE /\ readers[t] # "lock" /\ (Tasks!Goes(t, "done") \/ Tasks!Goes(t, "read"))
           /\ UNCHANGED <<bytes_read, total_bytes, total_pages, written, unread>>
  <2>0. process' # "connect"
    BY <1>0, <1>4
  <2>1. /\ readers' \in [Tasks!Tasks -> {"none", "check", "read", "lock", "done"}]
        /\ \A s \in Tasks!Tasks \ {t} : readers'[s] = readers[s]
    BY <1>3, <1>4
  <2>2. \A s \in Tasks!Tasks : readers[s] = "lock" => readers'[s] = "lock"
    BY <1>4, <2>1
  <2> QED
    BY <1>2, <1>4, <2>0, <2>1, <2>2, OthersKeepTasks
<1>5. ASSUME NEW n \in 1 .. Tasks!Min({unread, TaskPageSize}), readers[t] = "read",
             bytes_read' = [bytes_read EXCEPT ![t] = n], unread' = unread - n,
             Tasks!Goes(t, "lock"), UNCHANGED <<total_bytes, total_pages, written>>
      PROVE  TasksInv'
  <2>1. n \in Nat /\ n <= unread /\ n <= TaskPageSize /\ unread' \in Nat
    <3>1. /\ Tasks!Min({unread, TaskPageSize}) \in Int
          /\ Tasks!Min({unread, TaskPageSize}) <= unread
          /\ Tasks!Min({unread, TaskPageSize}) <= TaskPageSize
      BY <1>1, <1>2, TasksMin
    <3> DEFINE m == Tasks!Min({unread, TaskPageSize})
    <3> HIDE DEF m
    <3>2. m \in Int /\ m <= unread /\ m <= TaskPageSize /\ n \in 1 .. m
      BY <1>5, <3>1 DEF m
    <3>3. unread \in Nat /\ TaskPageSize \in Nat /\ unread' = unread - n
      BY <1>1, <1>2, <1>5
    <3> QED
      BY ONLY <3>2, <3>3
  <2>2. /\ bytes_read' \in [Tasks!Tasks -> Nat] /\ bytes_read'[t] = n
        /\ \A s \in Tasks!Tasks \ {t} : bytes_read'[s] = bytes_read[s]
        /\ Total(bytes_read') = Total(bytes_read) + n - bytes_read[t]
        /\ Total(bytes_read) \in Int
    BY <1>1, <1>5, <2>1, BytesReadChanged
  <2>3. /\ readers' \in [Tasks!Tasks -> {"none", "check", "read", "lock", "done"}]
        /\ readers'[t] = "lock" /\ \A s \in Tasks!Tasks \ {t} : readers'[s] = readers[s]
    BY <1>3, <1>5
  <2>4. TasksTypeOK'
    BY <1>2, <1>5, <2>1, <2>2, <2>3 DEF TasksTypeOK
  <2>5. \A s \in Tasks!Tasks :
          bytes_read'[s] <= TaskPageSize /\ (readers'[s] # "lock" => bytes_read'[s] = 0)
    BY <1>1, <2>1, <2>2, <2>3
  <2>6. bytes_read[t] = 0
    BY <1>1, <1>5
  <2>7. total_bytes' + Total(bytes_read') + unread' = written'
    <3>1. /\ total_bytes + Total(bytes_read) + unread = written /\ unread' = unread - n
          /\ Total(bytes_read') = Total(bytes_read) + n /\ Total(bytes_read) \in Int
          /\ total_bytes' = total_bytes /\ written' = written
      BY <1>1, <1>5, <2>1, <2>2, <2>6
    <3>2. total_bytes \in Nat /\ unread \in Nat /\ written \in Nat /\ n \in Nat
      BY <1>2, <2>1
    <3> QED
      BY ONLY <3>1, <3>2
  <2>8. Total(bytes_read)' = Total(bytes_read')
    OBVIOUS
  <2> QED
    BY <1>0, <1>1, <1>5, <2>4, <2>5, <2>7, <2>8 DEF TasksInv
<1>6. CASE Tasks!Lock(t)
  <2>1. /\ readers[t] = "lock" /\ total_bytes' = total_bytes + bytes_read[t]
        /\ total_pages' = total_pages + 1 /\ bytes_read' = [bytes_read EXCEPT ![t] = 0]
        /\ Tasks!Goes(t, "check") /\ UNCHANGED <<written, unread>>
    BY <1>6 DEF Tasks!Lock, Tasks!Added
  <2>2. /\ bytes_read' \in [Tasks!Tasks -> Nat] /\ bytes_read'[t] = 0
        /\ \A s \in Tasks!Tasks \ {t} : bytes_read'[s] = bytes_read[s]
        /\ Total(bytes_read') = Total(bytes_read) + 0 - bytes_read[t]
        /\ Total(bytes_read) \in Int
    <3>1. \A z \in Nat : bytes_read' = [bytes_read EXCEPT ![t] = z] =>
             /\ bytes_read' \in [Tasks!Tasks -> Nat] /\ bytes_read'[t] = z
             /\ \A s \in Tasks!Tasks \ {t} : bytes_read'[s] = bytes_read[s]
             /\ Total(bytes_read') = Total(bytes_read) + z - bytes_read[t]
             /\ Total(bytes_read) \in Int
      BY <1>1, BytesReadChanged
    <3> QED
      BY <2>1, <3>1
  <2>3. /\ readers' \in [Tasks!Tasks -> {"none", "check", "read", "lock", "done"}]
        /\ readers'[t] = "check" /\ \A s \in Tasks!Tasks \ {t} : readers'[s] = readers[s]
    BY <1>3, <2>1
  <2>4. TasksTypeOK'
    BY <1>2, <2>1, <2>2, <2>3 DEF TasksTypeOK
  <2>5. \A s \in Tasks!Tasks :
          bytes_read'[s] <= TaskPageSize /\ (readers'[s] # "lock" => bytes_read'[s] = 0)
    BY <1>1, <2>2, <2>3
  <2>6. total_bytes' + Total(bytes_read') + unread' = written'
    BY <1>1, <1>2, <2>1, <2>2
  <2>7. total_bytes' <= total_pages' * TaskPageSize
    <3>1. \A x, y \in Nat : (x + 1) * y = x * y + y /\ x * y \in Nat
      OBVIOUS
    <3>2. /\ (total_pages + 1) * TaskPageSize = total_pages * TaskPageSize + TaskPageSize
          /\ total_pages * TaskPageSize \in Nat
      BY <1>1, <1>2, <3>1
    <3>3. bytes_read[t] <= TaskPageSize
      BY <1>1
    <3> DEFINE p == total_pages * TaskPageSize
    <3> HIDE DEF p
    <3>4. p \in Nat /\ total_bytes <= p /\ total_pages' * TaskPageSize = p + TaskPageSize
      BY <1>1, <2>1, <3>2 DEF p
    <3>5. TaskPageSize \in Nat /\ total_bytes \in Nat /\ bytes_read[t] \in Nat
          /\ total_bytes' = total_bytes + bytes_read[t]
      BY <1>1, <1>2, <2>1
    <3> QED
      BY ONLY <3>3, <3>4, <3>5
  <2>8. Total(bytes_read)' = Total(bytes_read')
    OBVIOUS
  <2> QED
    BY <1>0, <2>4, <2>5, <2>6, <2>7, <2>8 DEF TasksInv
<1>7. CASE Tasks!CheckTime(t)
  BY <1>4, <1>7 DEF Tasks!CheckTime
<1>8. CASE Tasks!Read(t)
  BY <1>4, <1>5, <1>8 DEF Tasks!Read
<1> QED
  BY <1>6, <1>7, <1>8

LEMMA NextKeepsTasks ==
  ASSUME TasksInv, [Tasks!Next]_(Tasks!tokio)
  PROVE  TasksInv'
<1>1. /\ readers \in [Tasks!Tasks -> {"none", "check", "read", "lock", "done"}]
      /\ written \in Nat /\ unread \in Nat
  BY DEF TasksInv, TasksTypeOK
<1>2. CASE /\ UNCHANGED <<readers, bytes_read, total_bytes, total_pages, written, unread>>
           /\ process' = "connect" => process = "connect"
  BY <1>1, <1>2, OthersKeepTasks
<1>3. CASE Tasks!Connect
  <2>1. UNCHANGED <<bytes_read, total_bytes, total_pages, written, unread>>
    BY <1>3 DEF Tasks!Connect
  <2>2. readers' = readers \/ readers' = [t \in Tasks!Tasks |-> "check"]
    BY <1>3 DEF Tasks!Connect, Tasks!All
  <2>3. process' # "connect" /\ \A t \in Tasks!Tasks : readers[t] # "lock"
    BY <1>3 DEF Tasks!Connect, TasksInv
  <2>4. readers' \in [Tasks!Tasks -> {"none", "check", "read", "lock", "done"}]
    BY <1>1, <2>2
  <2> QED
    BY <1>1, <2>1, <2>3, <2>4, OthersKeepTasks
<1>4. ASSUME NEW t \in Tasks!Tasks, Tasks!Write(t)
      PROVE  TasksInv'
  <2>1. UNCHANGED <<readers, bytes_read, total_bytes, total_pages, process>>
    BY <1>4 DEF Tasks!Write
  <2>2. CASE UNCHANGED <<unread, written>>
    BY <1>2, <2>1, <2>2
  <2>3. ASSUME NEW n \in 1 .. Tasks!Min({TaskPageSize, TaskCapacity - unread}),
               unread' = unread + n, written' = written + n
        PROVE  TasksInv'
    <3>1. n \in Nat
      BY <1>1, <2>3, TasksMin, TasksAssumption
    <3>2. unread' \in Nat /\ written' \in Nat /\ written' - unread' = written - unread
      BY <1>1, <2>3, <3>1
    <3> QED
      BY <1>1, <2>1, <3>2, OthersKeepTasks
  <2> QED
    BY <1>4, <2>2, <2>3 DEF Tasks!Write
<1>5. Tasks!Next => \/ Tasks!Connect
                    \/ \E t \in Tasks!Tasks : Tasks!Write(t)
                    \/ \E t \in Tasks!Tasks : Tasks!CheckTime(t) \/ Tasks!Read(t) \/ Tasks!Lock(t)
                    \/ /\ UNCHANGED <<readers, bytes_read, total_bytes, total_pages>>
                       /\ UNCHANGED <<written, unread>>
                       /\ process' = "connect" => process = "connect"
  BY DEF Tasks!Next, Tasks!Client, Tasks!JoinAll, Tasks!Tick, Tasks!Accept, Tasks!AcceptFails,
         Tasks!Reset, Tasks!Task
<1>6. CASE UNCHANGED Tasks!tokio
  BY <1>2, <1>6 DEF Tasks!tokio
<1> QED
  BY <1>2, <1>3, <1>4, <1>5, <1>6, TaskKeeps

LEMMA TasksAgree == ASSUME TasksInv PROVE Tasks!StatsAgree
<1>1. \A f : Tasks!Total(f) = Total(f)
  BY DEF Tasks!Total, Total, Tasks!FoldFunction, FoldFunction, Tasks!FoldFunctionOnSet,
     FoldFunctionOnSet, Tasks!MapThenFoldSet, MapThenFoldSet
<1> QED
  BY <1>1 DEF TasksInv, Tasks!StatsAgree

(* Every read that is served is its request's own page, though there are   *)
(* twice as many reads as requests, and the Seastar client succeeds only   *)
(* when the server has ended (simple_dpkd_client.cpp:30); the tokio-uring  *)
(* client's tasks count every piece they read exactly once, and no more    *)
(* than a page to a read (rust_io_uring_demo/client/src/main.rs): for      *)
(* every number of requests, tasks and pieces.                             *)
THEOREM DemosAlwaysAgree == ProgramSpec => []DemosAgree
<1> DEFINE I == /\ program = "futures" => SeastarInv
                /\ program = "tasks" => TasksInv
<1>1. ProgramInit => I
  BY InitOf, InitFutures, InitTasks
<1>2. I /\ [ProgramNext]_programs => I'
  BY Dispatch, NextKeepsFutures, NextKeepsTasks
<1>3. I => DemosAgree
  BY FuturesAgree, TasksAgree DEF DemosAgree
<1> QED
  BY <1>1, <1>2, <1>3, PTL DEF ProgramSpec

(***************************************************************************)
(* The simple io_uring server (SimpleIouServer): who holds which block of  *)
(* a thread's pool.                                                        *)
(***************************************************************************)

LEMMA CountFound ==
  ASSUME NEW S, NEW s \in Seq(S), NEW T
  PROVE  Count(s, T) = 0 <=> \A k \in DOMAIN s : s[k] \notin T
<1> DEFINE P == {k \in DOMAIN s : s[k] \in T}
<1>1. IsFiniteSet(P)
  BY CountType
<1>2. P = {} <=> \A k \in DOMAIN s : s[k] \notin T
  OBVIOUS
<1> HIDE DEF P
<1>3. Cardinality(P) = 0 <=> P = {}
  BY <1>1, FS_EmptySet
<1> QED
  BY <1>2, <1>3 DEF Count, P

ServeReads == ServeRingSize \div 4

LEMMA NearestFree ==
  ASSUME NEW store \in Serve!Pools, Serve!CanCheckOut(store)
  PROVE  /\ Serve!NextFree(store) \in Serve!FreeBlocks(store)
         /\ \A c \in Serve!FreeBlocks(store) :
              Serve!Distance(store, Serve!NextFree(store)) <= Serve!Distance(store, c)
<1> DEFINE D == {Serve!Distance(store, b) : b \in Serve!FreeBlocks(store)}
<1>1. \A b \in Serve!FreeBlocks(store) : Serve!Distance(store, b) \in Nat
  BY ServeAssumption DEF Serve!FreeBlocks, Serve!Distance, Serve!Blocks, Serve!Pools
<1>2. D \in SUBSET Nat /\ D # {}
  BY <1>1 DEF Serve!CanCheckOut
<1> HIDE DEF D
<1>3. PICK m \in D : \A n \in D : m <= n
  BY <1>2, SmallestOf
<1>4. PICK b \in Serve!FreeBlocks(store) : m = Serve!Distance(store, b)
  BY DEF D
<1>5. \A c \in Serve!FreeBlocks(store) : Serve!Distance(store, b) <= Serve!Distance(store, c)
  BY <1>3, <1>4 DEF D
<1> QED
  BY <1>5 DEF Serve!NextFree

LEMMA CheckedOut ==
  ASSUME NEW store \in Serve!Pools, Serve!CanCheckOut(store)
  PROVE  /\ Serve!NextFree(store) \in Serve!Blocks
         /\ store.state[Serve!NextFree(store)] = "Free"
         /\ Serve!CheckOut(store) \in Serve!Pools
         /\ Serve!CheckOut(store).next_index = (Serve!NextFree(store) + 1) % PoolCapacity
         /\ Serve!CheckOut(store).state =
              [store.state EXCEPT ![Serve!NextFree(store)] = "CheckedOut"]
<1> DEFINE b == Serve!NextFree(store)
<1>1. b \in Serve!Blocks /\ store.state[b] = "Free"
  BY NearestFree DEF Serve!FreeBlocks
<1>2. (b + 1) % PoolCapacity \in Serve!Blocks
  BY <1>1, ServeAssumption DEF Serve!Blocks
<1>3. [store.state EXCEPT ![b] = "CheckedOut"] \in [Serve!Blocks -> Serve!BufferStates]
  BY <1>1 DEF Serve!Pools, Serve!BufferStates
<1> QED
  BY <1>1, <1>2, <1>3 DEF Serve!CheckOut, Serve!Pools

LEMMA CheckedIn ==
  ASSUME NEW store \in Serve!Pools, NEW b \in Serve!Blocks
  PROVE  /\ Serve!CheckIn(store, b) \in Serve!Pools
         /\ Serve!CheckIn(store, b).state = [store.state EXCEPT ![b] = "Free"]
BY DEF Serve!CheckIn, Serve!Pools, Serve!BufferStates

(* The pools after so many blocks were handed out.                         *)
PoolRun(g, n) ==
  g = [k \in 0 .. n |-> IF k = 0 THEN Serve!NewPool ELSE Serve!After(g[k - 1])]

LEMMA PoolRunsOn ==
  ASSUME NEW n \in Nat, NEW g, PoolRun(g, n)
  PROVE  \E h : PoolRun(h, n + 1)
<1> DEFINE h == [k \in 0 .. n + 1 |-> IF k = 0 THEN Serve!NewPool ELSE Serve!After(g[k - 1])]
<1>1. \A k \in 0 .. n : k \in 0 .. n + 1
  OBVIOUS
<1>2. \A k \in 0 .. n : g[k] = h[k]
  BY <1>1 DEF PoolRun
<1>3. \A k \in 0 .. n + 1 : k # 0 => k - 1 \in 0 .. n
  OBVIOUS
<1>4. \A k \in 0 .. n + 1 : k # 0 => g[k - 1] = h[k - 1]
  BY <1>2, <1>3
<1>5. h = [k \in 0 .. n + 1 |-> IF k = 0 THEN Serve!NewPool ELSE Serve!After(h[k - 1])]
  BY <1>4
<1> QED
  BY <1>5 DEF PoolRun

LEMMA PoolRunsAgree ==
  ASSUME NEW n \in Nat, NEW g, PoolRun(g, n), NEW m \in Nat, NEW h, PoolRun(h, m)
  PROVE  \A k \in Nat : k <= n /\ k <= m => g[k] = h[k]
<1> DEFINE Same == {k \in Nat : k <= n /\ k <= m => g[k] = h[k]}
<1>1. /\ g[0] = Serve!NewPool /\ \A k \in 0 .. n : k # 0 => g[k] = Serve!After(g[k - 1])
      /\ h[0] = Serve!NewPool /\ \A k \in 0 .. m : k # 0 => h[k] = Serve!After(h[k - 1])
  <2>1. 0 \in 0 .. n /\ 0 \in 0 .. m
    OBVIOUS
  <2> QED
    BY <2>1 DEF PoolRun
<1>2. 0 \in Same
  BY <1>1
<1>3. ASSUME NEW k \in Same
      PROVE  k + 1 \in Same
  <2> SUFFICES ASSUME k + 1 <= n, k + 1 <= m
               PROVE  g[k + 1] = h[k + 1]
    OBVIOUS
  <2>1. k + 1 \in 0 .. n /\ k + 1 \in 0 .. m /\ k + 1 # 0 /\ (k + 1) - 1 = k /\ k <= n /\ k <= m
    OBVIOUS
  <2>2. g[k + 1] = Serve!After(g[k]) /\ h[k + 1] = Serve!After(h[k])
    BY <1>1, <2>1
  <2> QED
    BY <1>3, <2>1, <2>2
<1>4. Same \in SUBSET Nat
  OBVIOUS
<1> HIDE DEF Same
<1>5. \A k \in Nat : k \in Same
  BY <1>2, <1>3, <1>4, AllNumbers
<1> QED
  BY <1>5 DEF Same

LEMMA PoolUnfolds ==
  /\ Serve!PoolAfter[0] = Serve!NewPool
  /\ \A n \in Nat : Serve!PoolAfter[n + 1] = Serve!After(Serve!PoolAfter[n])
<1> DEFINE Can == {n \in Nat : \E g : PoolRun(g, n)}
<1>1. 0 \in Can
  <2> DEFINE g == [k \in 0 .. 0 |-> Serve!NewPool]
  <2>1. \A k \in 0 .. 0 : k = 0
    OBVIOUS
  <2>2. PoolRun(g, 0)
    BY <2>1 DEF PoolRun
  <2> QED
    BY <2>2
<1>2. \A n \in Can : n + 1 \in Can
  BY PoolRunsOn
<1>3. Can \in SUBSET Nat
  OBVIOUS
<1> HIDE DEF Can
<1>4. \A n \in Nat : n \in Can
  BY <1>1, <1>2, <1>3, AllNumbers
<1> DEFINE run_to(n) == CHOOSE g : PoolRun(g, n)
           f == [n \in Nat |-> run_to(n)[n]]
<1>5. \A n \in Nat : PoolRun(run_to(n), n)
  BY <1>4 DEF Can
<1>6. f[0] = Serve!NewPool
  <2>1. PoolRun(run_to(0), 0) /\ 0 \in 0 .. 0
    BY <1>5
  <2> HIDE DEF run_to
  <2> QED
    BY <2>1 DEF PoolRun
<1>7. ASSUME NEW n \in Nat, n # 0
      PROVE  f[n] = Serve!After(f[n - 1])
  <2>1. n - 1 \in Nat /\ n - 1 <= n /\ n - 1 <= n - 1 /\ n \in 0 .. n
    BY <1>7
  <2>2. PoolRun(run_to(n), n) /\ PoolRun(run_to(n - 1), n - 1)
    BY <1>5, <2>1
  <2> HIDE DEF run_to
  <2>3. run_to(n)[n] = Serve!After(run_to(n)[n - 1])
    BY <1>7, <2>1, <2>2 DEF PoolRun
  <2>4. run_to(n)[n - 1] = run_to(n - 1)[n - 1]
    BY <2>1, <2>2, PoolRunsAgree
  <2> QED
    BY <2>1, <2>3, <2>4
<1>8. f = [n \in Nat |-> IF n = 0 THEN Serve!NewPool ELSE Serve!After(f[n - 1])]
  <2>1. f = [n \in Nat |-> f[n]]
    OBVIOUS
  <2> HIDE DEF f
  <2> QED
    BY <1>6, <1>7, <2>1
<1> HIDE DEF f
<1>9. Serve!PoolAfter =
        [n \in Nat |-> IF n = 0 THEN Serve!NewPool ELSE Serve!After(Serve!PoolAfter[n - 1])]
  BY <1>8 DEF Serve!PoolAfter
<1>10. \A n \in Nat : n + 1 \in Nat /\ n + 1 # 0 /\ (n + 1) - 1 = n
  OBVIOUS
<1> QED
  BY <1>9, <1>10

(* The pool from which n blocks were taken, in order.                      *)
PoolWithout(n) ==
  [state |-> [b \in Serve!Blocks |-> IF b < n THEN "CheckedOut" ELSE "Free"],
   next_index |-> n % PoolCapacity]

LEMMA PoolFilled ==
  ASSUME ~mode.stupid, NEW n \in 0 .. PoolCapacity
  PROVE  /\ Serve!PoolAfter[n] = PoolWithout(n)
         /\ n < PoolCapacity => Serve!Block(Serve!PoolAfter[n]) = n
<1> USE ServeAssumption
<1>1. ASSUME NEW k \in 0 .. PoolCapacity - 1
      PROVE  Serve!Block(PoolWithout(k)) = k /\ Serve!After(PoolWithout(k)) = PoolWithout(k + 1)
  <2> DEFINE store == PoolWithout(k)
  <2>1. k \in Nat /\ k < PoolCapacity /\ k % PoolCapacity = k /\ k \in Serve!Blocks
    BY DEF Serve!Blocks
  <2>2. store \in Serve!Pools
    BY <2>1 DEF PoolWithout, Serve!Pools, Serve!BufferStates, Serve!Blocks
  <2>3. Serve!FreeBlocks(store) = {b \in Serve!Blocks : ~(b < k)}
    BY DEF Serve!FreeBlocks, PoolWithout
  <2>4. k \in Serve!FreeBlocks(store)
    BY <2>1, <2>3
  <2>5. Serve!CanCheckOut(store)
    BY <2>4 DEF Serve!CanCheckOut
  <2>6. /\ store.next_index = k
        /\ store.state = [b \in Serve!Blocks |-> IF b < k THEN "CheckedOut" ELSE "Free"]
    BY <2>1 DEF PoolWithout
  <2> DEFINE b == Serve!NextFree(store)
  <2> HIDE DEF store
  <2>7. b \in Serve!FreeBlocks(store) /\ Serve!Distance(store, b) <= Serve!Distance(store, k)
    BY <2>2, <2>4, <2>5, NearestFree
  <2>8. b \in Nat /\ b < PoolCapacity /\ ~(b < k)
    BY <2>3, <2>7 DEF Serve!Blocks
  <2> HIDE DEF b
  <2>9. (b - k) % PoolCapacity <= (k - k) % PoolCapacity
    BY <2>6, <2>7 DEF Serve!Distance
  <2>10. b - k \in 0 .. PoolCapacity - 1
    BY <2>1, <2>8
  <2>11. b = k
    BY <2>1, <2>8, <2>9, <2>10
  <2>12. Serve!CheckOut(store) = [state      |-> [store.state EXCEPT ![k] = "CheckedOut"],
                                  next_index |-> (k + 1) % PoolCapacity]
    BY <2>11 DEF Serve!CheckOut, b
  <2>13. [store.state EXCEPT ![k] = "CheckedOut"] =
           [c \in Serve!Blocks |-> IF c < k + 1 THEN "CheckedOut" ELSE "Free"]
    <3>1. \A c \in Serve!Blocks : c < k + 1 <=> c < k \/ c = k
      BY <2>1 DEF Serve!Blocks
    <3> QED
      BY <2>1, <2>6, <3>1
  <2>14. Serve!CheckOut(store) = PoolWithout(k + 1)
    BY <2>12, <2>13 DEF PoolWithout
  <2> QED
    BY <2>11, <2>14 DEF Serve!Block, Serve!After, store, b
<1> DEFINE Filled == {k \in Nat : k <= PoolCapacity => Serve!PoolAfter[k] = PoolWithout(k)}
<1>2. 0 \in Filled
  <2>1. \A b \in Serve!Blocks : ~(b < 0)
    BY DEF Serve!Blocks
  <2>2. 0 % PoolCapacity = 0
    OBVIOUS
  <2> QED
    BY <2>1, <2>2, PoolUnfolds DEF PoolWithout, Serve!NewPool
<1>3. ASSUME NEW k \in Filled
      PROVE  k + 1 \in Filled
  <2> SUFFICES ASSUME k + 1 <= PoolCapacity
               PROVE  Serve!PoolAfter[k + 1] = PoolWithout(k + 1)
    OBVIOUS
  <2>1. k \in 0 .. PoolCapacity - 1 /\ k <= PoolCapacity
    OBVIOUS
  <2>2. Serve!PoolAfter[k] = PoolWithout(k)
    BY <1>3, <2>1
  <2> QED
    BY <1>1, <2>1, <2>2, PoolUnfolds
<1>4. Filled \in SUBSET Nat
  OBVIOUS
<1> HIDE DEF Filled
<1>5. n \in Filled /\ n <= PoolCapacity
  BY <1>2, <1>3, <1>4, AllNumbers
<1>6. Serve!PoolAfter[n] = PoolWithout(n)
  BY <1>5 DEF Filled
<1>7. n < PoolCapacity => n \in 0 .. PoolCapacity - 1
  OBVIOUS
<1> QED
  BY <1>1, <1>6, <1>7

LEMMA PoolStupid ==
  ASSUME mode.stupid, NEW n \in Nat
  PROVE  Serve!PoolAfter[n] = Serve!NewPool
<1> DEFINE Same == {k \in Nat : Serve!PoolAfter[k] = Serve!NewPool}
<1>1. 0 \in Same
  BY PoolUnfolds
<1>2. \A k \in Same : k + 1 \in Same
  BY PoolUnfolds DEF Serve!After
<1>3. Same \in SUBSET Nat
  OBVIOUS
<1> HIDE DEF Same
<1>4. n \in Same
  BY <1>1, <1>2, <1>3, AllNumbers
<1> QED
  BY <1>4 DEF Same

ServePcs == {"none", "queue_init", "buffer_pool", "event_loop", "queue_exit", "finished",
             "destructor", "ended"}
ServeKinds == {"read", "write", "notif"}
ServeOps == [kind : ServeKinds, block : Serve!Blocks, fails : BOOLEAN]
ServeCqes == [kind : ServeKinds, block : Serve!Blocks, res : {-1, 0, 1}]

(* The operations that there can be: a notification follows a send that    *)
(* succeeded, which none does on a buffer that is not registered.          *)
TrueServeOps ==
  {x \in ServeOps : /\ x.kind = "notif" => mode.registered /\ ~mode.stupid
                    /\ mode.registered /\ mode.stupid => x.fails}
TrueServeCqes(end) ==
  {x \in ServeCqes : /\ x.kind = "notif" => mode.registered /\ ~mode.stupid
                     /\ x.res = 0 => x.kind = "notif" \/ end # "open"}

ServeTypes ==
  /\ mode \in ServeModes
  /\ pc \in [ServeThreads -> ServePcs]
  /\ sock \in [ServeThreads -> Int] /\ ring_fd \in [ServeThreads -> Int]
  /\ fds \in [Serve!Numbers -> {Serve!Free} \cup ({"socket", "ring"} \X ServeThreads)]
  /\ pools \in [ServeThreads -> Serve!Pools]
  /\ buffers \in [ServeThreads -> {"none", "registered", "foreign", "lost"}]
  /\ clients \in [ServeThreads -> [unread : Int, end : {"open", "closed", "reset"}]]
  /\ kernel \in [ServeThreads -> Seq(TrueServeOps)]
  /\ \A t \in ServeThreads : cq[t] \in Seq(TrueServeCqes(clients[t].end))
  /\ DOMAIN cq = ServeThreads /\ cq = [t \in ServeThreads |-> cq[t]]

(* What the numbers denote.                                                *)
ServeNumbers ==
  /\ \A n \in Serve!Numbers, t \in ServeThreads :
       /\ fds[n] = <<"ring", t>> =>
            ring_fd[t] = n /\ pc[t] \in {"buffer_pool", "event_loop", "queue_exit"}
       /\ fds[n] = <<"socket", t>> => sock[t] = n /\ pc[t] # "none"
  /\ \A t \in ServeThreads :
       pc[t] \notin {"none", "queue_init"} => ring_fd[t] \in Serve!Numbers
  /\ \E k \in Nat : {t \in ServeThreads : pc[t] # "none"} = 1 .. k
  /\ Serve!BuffersKept
  /\ mode.registered /\ mode.stupid => \A t \in ServeThreads : buffers[t] # "registered"

(* How many reads, and how many sends and notifications, have a block.     *)
ReadsOf(b) == {x \in ServeOps \cup ServeCqes : x.kind = "read" /\ x.block = b}
SendsOf(b) == {x \in ServeOps \cup ServeCqes : x.kind # "read" /\ x.block = b}
Holding(t, T) == Count(kernel[t], T) + Count(cq[t], T)

(* A block that is out is held; one that a read holds, or anything without *)
(* notifications, is out and held once.                                    *)
OnceHeld(reads, sends, state) ==
  /\ reads <= 1 /\ (reads = 0 \/ sends = 0)
  /\ ~mode.registered => sends <= 1
  /\ reads > 0 \/ (~mode.registered /\ sends > 0) => state = "CheckedOut"
  /\ state = "CheckedOut" => reads + sends > 0

BlocksHeld(t) ==
  \A b \in Serve!Blocks :
    OnceHeld(Holding(t, ReadsOf(b)), Holding(t, SendsOf(b)), pools[t].state[b])

ServeBlocks ==
  /\ ~mode.stupid => \A t \in ServeThreads : pc[t] = "event_loop" => BlocksHeld(t)
  /\ process = "bad_alloc" =>
       \E t \in ServeThreads : /\ pc[t] = "event_loop" /\ ~mode.stupid
                               /\ Serve!FreeBlocks(pools[t]) = {}

(* A thread outside of its loop has nothing under way. *)
ServeIdle ==
  \A t \in ServeThreads :
    pc[t] \notin {"event_loop", "queue_exit"} => kernel[t] = <<>> /\ cq[t] = <<>>

ServeInv == ServeTypes /\ ServeNumbers /\ ServeBlocks /\ ServeIdle /\ Serve!ServesUntilClosed

LEMMA FreeOfAll ==
  ASSUME NEW t
  PROVE  <<"free", 0>> # <<"ring", t>> /\ <<"free", 0>> # <<"socket", t>>
OBVIOUS

LEMMA InitServe == ASSUME Serve!Init PROVE ServeInv
<1> USE ServeAssumption DEF Serve!Init
<1>1. ServeTypes
  <2>1. Serve!NewPool \in Serve!Pools
    BY DEF Serve!NewPool, Serve!Pools, Serve!BufferStates, Serve!Blocks
  <2>2. <<>> \in Seq(TrueServeOps) /\ <<>> \in Seq(TrueServeCqes("open"))
    OBVIOUS
  <2>3. kernel = [t \in ServeThreads |-> <<>>] /\ cq = [t \in ServeThreads |-> <<>>]
        /\ clients = [t \in ServeThreads |-> [unread |-> 0, end |-> "open"]]
        /\ pools = [t \in ServeThreads |-> Serve!NewPool]
    OBVIOUS
  <2>4. kernel \in [ServeThreads -> Seq(TrueServeOps)]
    BY ONLY <2>2, <2>3
  <2>5. \A t \in ServeThreads : clients[t].end = "open" /\ cq[t] = <<>>
    BY ONLY <2>3
  <2>6. \A t \in ServeThreads : cq[t] \in Seq(TrueServeCqes(clients[t].end))
    BY <2>2, <2>5
  <2>7. DOMAIN cq = ServeThreads /\ cq = [t \in ServeThreads |-> cq[t]]
    BY ONLY <2>3
  <2>8. pools \in [ServeThreads -> Serve!Pools]
    BY ONLY <2>1, <2>3
  <2>9. /\ pc = [t \in ServeThreads |-> "none"] /\ sock = [t \in ServeThreads |-> 0]
        /\ ring_fd = [t \in ServeThreads |-> 0] /\ buffers = [t \in ServeThreads |-> "none"]
        /\ fds = [n \in Serve!Numbers |-> Serve!Free] /\ mode \in ServeModes
    OBVIOUS
  <2>10. pc \in [ServeThreads -> ServePcs]
    BY ONLY <2>9 DEF ServePcs
  <2>11. sock \in [ServeThreads -> Int] /\ ring_fd \in [ServeThreads -> Int]
    BY ONLY <2>9
  <2>12. buffers \in [ServeThreads -> {"none", "registered", "foreign", "lost"}]
    BY ONLY <2>9
  <2>13. fds \in [Serve!Numbers -> {Serve!Free} \cup ({"socket", "ring"} \X ServeThreads)]
    BY ONLY <2>9
  <2>14. clients \in [ServeThreads -> [unread : Int, end : {"open", "closed", "reset"}]]
    BY ONLY <2>3
  <2> QED
    BY ONLY <2>4, <2>6, <2>7, <2>8, <2>9, <2>10, <2>11, <2>12, <2>13, <2>14 DEF ServeTypes
<1>2. ServeNumbers
  <2>1. \A n \in Serve!Numbers : fds[n] = <<"free", 0>>
    BY DEF Serve!Free
  <2>2. \A t \in ServeThreads : pc[t] = "none" /\ buffers[t] = "none"
    OBVIOUS
  <2>3. \A n \in Serve!Numbers, t \in ServeThreads :
          fds[n] # <<"ring", t>> /\ fds[n] # <<"socket", t>>
    BY ONLY <2>1, FreeOfAll
  <2>4. {t \in ServeThreads : pc[t] # "none"} = 1 .. 0 /\ 0 \in Nat
    BY <2>2
  <2> QED
    BY <2>2, <2>3, <2>4 DEF ServeNumbers, Serve!BuffersKept
<1>3. ServeBlocks
  BY DEF ServeBlocks
<1>4. Serve!ServesUntilClosed
  BY DEF Serve!ServesUntilClosed
<1>5. ServeIdle
  BY DEF ServeIdle
<1> QED
  BY <1>1, <1>2, <1>3, <1>4, <1>5 DEF ServeInv

LEMMA NumbersType ==
  /\ Serve!Cardinality(ServeThreads) \in Nat /\ IsFiniteSet(ServeThreads)
  /\ Serve!Cardinality(ServeThreads) = Cardinality(ServeThreads)
  /\ Serve!Numbers \in SUBSET Nat /\ Serve!Numbers \in SUBSET Int
<1>1. Serve!Cardinality(ServeThreads) = Cardinality(ServeThreads)
  BY DEF Serve!Cardinality, Cardinality
<1>2. Cardinality(ServeThreads) \in Nat /\ IsFiniteSet(ServeThreads)
  BY ServeAssumption, FS_CardinalityType
<1>3. Serve!Numbers \in SUBSET Nat
  BY <1>1, <1>2 DEF Serve!Numbers
<1> QED
  BY <1>1, <1>2, <1>3

(* There is always a free number: a thread has a socket and a ring at most.*)
LEMMA NumberFree ==
  ASSUME ServeInv, NEW t \in ServeThreads, pc[t] \in {"none", "queue_init"}
  PROVE  Serve!LowestFree \in Serve!Numbers /\ fds[Serve!LowestFree] = Serve!Free
<1> DEFINE N == Serve!Numbers
           What == {"socket", "ring"} \X ServeThreads
           Taken == What \ {<<"ring", t>>}
<1>1. /\ fds \in [N -> {Serve!Free} \cup What]
      /\ \A n \in N, u \in ServeThreads :
           /\ fds[n] = <<"ring", u>> =>
                ring_fd[u] = n /\ pc[u] \in {"buffer_pool", "event_loop", "queue_exit"}
           /\ fds[n] = <<"socket", u>> => sock[u] = n
  <2>1. ServeTypes /\ ServeNumbers
    BY DEF ServeInv
  <2>2. fds \in [N -> {Serve!Free} \cup What]
    BY <2>1 DEF ServeTypes
  <2>3. \A n \in N, u \in ServeThreads :
          /\ fds[n] = <<"ring", u>> =>
               ring_fd[u] = n /\ pc[u] \in {"buffer_pool", "event_loop", "queue_exit"}
          /\ fds[n] = <<"socket", u>> => sock[u] = n
    BY <2>1 DEF ServeNumbers
  <2> QED
    BY <2>2, <2>3
<1>2. IsFiniteSet(Taken) /\ Cardinality(Taken) < Cardinality(N) /\ IsFiniteSet(N)
  <2> DEFINE count == Cardinality(ServeThreads)
  <2>1. count \in Nat /\ IsFiniteSet(ServeThreads)
    BY NumbersType, ServeAssumption
  <2>2. IsFiniteSet({"socket", "ring"}) /\ Cardinality({"socket", "ring"}) = 2
    <3>1. IsFiniteSet({"socket"}) /\ Cardinality({"socket"}) = 1
      BY FS_Singleton
    <3>2. {"socket", "ring"} = {"socket"} \cup {"ring"} /\ "ring" \notin {"socket"}
      OBVIOUS
    <3>3. IsFiniteSet({"socket"} \cup {"ring"}) /\ Cardinality({"socket"} \cup {"ring"}) = 1 + 1
      BY <3>1, <3>2, FS_AddElement
    <3>4. 1 + 1 = 2
      OBVIOUS
    <3> QED
      BY <3>2, <3>3, <3>4
  <2>3. IsFiniteSet(What) /\ Cardinality(What) = 2 * count
    BY <2>1, <2>2, FS_Product
  <2>4. <<"ring", t>> \in What
    OBVIOUS
  <2>5. N = 1 .. 2 * count
    BY NumbersType DEF Serve!Numbers
  <2> HIDE DEF What, N, count
  <2>6. IsFiniteSet(N) /\ Cardinality(N) = 2 * count
    <3>1. 2 * count \in Nat /\ 1 \in Int /\ 2 * count \in Int
      BY <2>1
    <3>2. IsFiniteSet(1 .. 2 * count)
          /\ Cardinality(1 .. 2 * count) = IF 1 > 2 * count THEN 0 ELSE 2 * count - 1 + 1
      BY <3>1, FS_Interval
    <3> QED
      BY <2>1, <2>5, <3>2
  <2>7. IsFiniteSet(Taken) /\ Cardinality(Taken) = Cardinality(What) - 1
    BY <2>3, <2>4, FS_RemoveElement
  <2> QED
    BY <2>1, <2>3, <2>6, <2>7
<1>3. \E n \in N : fds[n] = Serve!Free
  <2> SUFFICES ASSUME \A n \in N : fds[n] # Serve!Free
               PROVE  FALSE
    OBVIOUS
  <2>1. \A n \in N : fds[n] \in What
    BY <1>1
  <2>2. \A n \in N : fds[n] # <<"ring", t>>
    BY <1>1
  <2>3. fds \in [N -> Taken]
    BY <1>1, <2>1, <2>2
  <2>4. PICK m, n \in N : m # n /\ fds[m] = fds[n]
    BY <1>2, <2>3, FS_PigeonHole
  <2>5. PICK u \in ServeThreads : fds[m] = <<"ring", u>> \/ fds[m] = <<"socket", u>>
    BY <2>1
  <2> QED
    BY <1>1, <2>4, <2>5
<1> DEFINE Frees == {n \in N : fds[n] = Serve!Free}
<1>4. PICK n \in Frees : \A m \in Frees : n <= m
  BY <1>3, NumbersType, SmallestOf
<1>5. n \in N /\ fds[n] = Serve!Free /\ \A k \in 1 .. n - 1 : fds[k] # Serve!Free
  <2>1. n \in N /\ fds[n] = Serve!Free
    BY <1>4
  <2>2. ASSUME NEW k \in 1 .. n - 1
        PROVE  fds[k] # Serve!Free
    <3>1. n \in 1 .. 2 * Cardinality(ServeThreads) /\ Cardinality(ServeThreads) \in Nat
      BY <2>1, NumbersType DEF Serve!Numbers
    <3>2. k \in 1 .. 2 * Cardinality(ServeThreads) /\ ~(n <= k)
      BY <3>1
    <3>3. k \in N
      BY <3>2, NumbersType DEF Serve!Numbers
    <3> QED
      BY <1>4, <3>2, <3>3
  <2> QED
    BY <2>1, <2>2
<1> QED
  BY <1>5 DEF Serve!LowestFree

(* What depends on the build only.                                         *)
LEMMA ServeBuild ==
  ASSUME mode' = mode
  PROVE  /\ TrueServeOps' = TrueServeOps
         /\ \A end : TrueServeCqes(end)' = TrueServeCqes(end)
         /\ \A b : ReadsOf(b)' = ReadsOf(b) /\ SendsOf(b)' = SendsOf(b)
         /\ \A reads, sends, state : OnceHeld(reads, sends, state)' = OnceHeld(reads, sends, state)
BY DEF TrueServeOps, TrueServeCqes, ReadsOf, SendsOf, OnceHeld

(* A thread that does nothing keeps what it holds. *)
LEMMA StillHeld ==
  ASSUME NEW t, BlocksHeld(t), mode' = mode, kernel'[t] = kernel[t], cq'[t] = cq[t],
         pools'[t] = pools[t]
  PROVE  BlocksHeld(t)'
<1> SUFFICES ASSUME NEW b \in Serve!Blocks
             PROVE  OnceHeld(Holding(t, ReadsOf(b)), Holding(t, SendsOf(b)),
                             pools[t].state[b])'
  BY DEF BlocksHeld
<1>1. Holding(t, ReadsOf(b))' = Holding(t, ReadsOf(b))
      /\ Holding(t, SendsOf(b))' = Holding(t, SendsOf(b))
      /\ pools[t].state[b]' = pools[t].state[b]
  BY ServeBuild DEF Holding
<1>2. OnceHeld(Holding(t, ReadsOf(b)), Holding(t, SendsOf(b)), pools[t].state[b])
  BY DEF BlocksHeld
<1> QED
  BY <1>1, <1>2, ServeBuild DEF OnceHeld

LEMMA ServeStands ==
  ASSUME ServeInv,
         UNCHANGED <<mode, pc, fds, sock, ring_fd, pools, buffers, kernel, cq, clients>>,
         process' = "bad_alloc" =>
           \/ process = "bad_alloc"
           \/ \E t \in ServeThreads : /\ pc[t] = "event_loop" /\ ~mode.stupid
                                      /\ Serve!FreeBlocks(pools[t]) = {}
  PROVE  ServeInv'
<1>1. ServeTypes'
  BY ServeBuild DEF ServeInv, ServeTypes
<1>2. ServeNumbers'
  BY DEF ServeInv, ServeNumbers, Serve!BuffersKept
<1>3. ServeBlocks'
  <2>1. \A t \in ServeThreads : BlocksHeld(t) => BlocksHeld(t)'
    BY StillHeld
  <2>2. \A t \in ServeThreads : Serve!FreeBlocks(pools[t])' = Serve!FreeBlocks(pools[t])
    BY DEF Serve!FreeBlocks
  <2> QED
    BY <2>1, <2>2 DEF ServeInv, ServeBlocks
<1>4. Serve!ServesUntilClosed'
  BY DEF ServeInv, Serve!ServesUntilClosed
<1>5. ServeIdle'
  BY DEF ServeInv, ServeIdle
<1> QED
  BY <1>1, <1>2, <1>3, <1>4, <1>5 DEF ServeInv

(* The blocks, when a step changes those of one thread at most.            *)
LEMMA OthersHeld ==
  ASSUME ServeInv, NEW t \in ServeThreads, mode' = mode, process' = process,
         process # "bad_alloc",
         \A u \in ServeThreads \ {t} : /\ pc'[u] = pc[u] /\ kernel'[u] = kernel[u]
                                       /\ cq'[u] = cq[u] /\ pools'[u] = pools[u],
         ~mode.stupid /\ pc'[t] = "event_loop" => BlocksHeld(t)',
         pc'[t] \notin {"event_loop", "queue_exit"} => kernel'[t] = <<>> /\ cq'[t] = <<>>
  PROVE  ServeBlocks' /\ ServeIdle'
<1>1. \A u \in ServeThreads \ {t} : ~mode.stupid /\ pc[u] = "event_loop" => BlocksHeld(u)
  BY DEF ServeInv, ServeBlocks
<1>2. \A u \in ServeThreads \ {t} : BlocksHeld(u) => BlocksHeld(u)'
  BY StillHeld
<1>3. ServeIdle'
  BY DEF ServeInv, ServeIdle
<1> QED
  BY <1>1, <1>2, <1>3 DEF ServeBlocks

LEMMA MainKeeps == ASSUME ServeInv, Serve!Main PROVE ServeInv'
<1>1. UNCHANGED <<mode, pc, fds, sock, ring_fd, pools, buffers, kernel, cq, clients>>
      /\ process' # "bad_alloc"
  BY DEF Serve!Main, Serve!Ends
<1> QED
  BY <1>1, ServeStands

LEMMA NextAccepted ==
  ASSUME ServeInv, NEW t \in ServeThreads, t = Serve!client_num + 1
  PROVE  /\ pc[t] = "none"
         /\ \E k \in Nat : {u \in ServeThreads : pc[u] # "none"} \cup {t} = 1 .. k
<1> DEFINE Accepted == {u \in ServeThreads : pc[u] # "none"}
<1>1. PICK k \in Nat : Accepted = 1 .. k
  BY DEF ServeInv, ServeNumbers
<1>2. Cardinality(1 .. k) = k
  BY FS_Interval
<1>3. Serve!Cardinality(Accepted) = Cardinality(Accepted)
  BY DEF Serve!Cardinality, Cardinality
<1>4. t = k + 1
  BY <1>1, <1>2, <1>3 DEF Serve!client_num
<1>5. t \notin 1 .. k /\ (1 .. k) \cup {t} = 1 .. k + 1 /\ k + 1 \in Nat
  BY <1>4
<1> QED
  BY <1>1, <1>5

LEMMA AcceptServes == ASSUME ServeInv, NEW t \in ServeThreads, Serve!Accept(t) PROVE ServeInv'
<1> DEFINE low == Serve!LowestFree
<1>1. /\ process = "accept" /\ t = Serve!client_num + 1
      /\ sock' = [sock EXCEPT ![t] = low] /\ fds' = [fds EXCEPT ![low] = <<"socket", t>>]
      /\ pc' = [pc EXCEPT ![t] = "queue_init"]
      /\ UNCHANGED <<mode, process, ring_fd, finished_threads, pools, buffers, kernel, cq, sent,
                     clients>>
  BY DEF Serve!Accept
<1>2. pc[t] = "none" /\ \E k \in Nat : {u \in ServeThreads : pc[u] # "none"} \cup {t} = 1 .. k
  BY <1>1, NextAccepted
<1>3. low \in Serve!Numbers /\ low \in Int
  BY <1>2, NumberFree, NumbersType
<1> HIDE DEF low
<1>4. /\ pc \in [ServeThreads -> ServePcs]
      /\ pc'[t] = "queue_init" /\ \A u \in ServeThreads : u # t => pc'[u] = pc[u]
  BY <1>1 DEF ServeInv, ServeTypes
<1>5. ServeTypes'
  <2>1. /\ sock' \in [ServeThreads -> Int] /\ pc' \in [ServeThreads -> ServePcs]
        /\ fds' \in [Serve!Numbers -> {Serve!Free} \cup ({"socket", "ring"} \X ServeThreads)]
    BY <1>1, <1>3 DEF ServeInv, ServeTypes, ServePcs
  <2> QED
    BY <1>1, <2>1, ServeBuild DEF ServeInv, ServeTypes
<1>6. ServeNumbers'
  <2>1. \A n \in Serve!Numbers, u \in ServeThreads :
          /\ fds'[n] = <<"ring", u>> => n # low /\ fds[n] = <<"ring", u>>
          /\ fds'[n] = <<"socket", u>> => \/ n = low /\ u = t
                                          \/ n # low /\ fds[n] = <<"socket", u>>
    BY <1>1, <1>3 DEF ServeInv, ServeTypes
  <2>2. \A n \in Serve!Numbers, u \in ServeThreads :
          /\ fds'[n] = <<"ring", u>> =>
               ring_fd'[u] = n /\ pc'[u] \in {"buffer_pool", "event_loop", "queue_exit"}
          /\ fds'[n] = <<"socket", u>> => sock'[u] = n /\ pc'[u] # "none"
    <3> SUFFICES ASSUME NEW n \in Serve!Numbers, NEW u \in ServeThreads
                 PROVE  /\ fds'[n] = <<"ring", u>> => ring_fd'[u] = n /\ pc'[u] \in
                             {"buffer_pool", "event_loop", "queue_exit"}
                        /\ fds'[n] = <<"socket", u>> => sock'[u] = n /\ pc'[u] # "none"
      OBVIOUS
    <3>1. /\ fds[n] = <<"ring", u>> =>
               ring_fd[u] = n /\ pc[u] \in {"buffer_pool", "event_loop", "queue_exit"}
          /\ fds[n] = <<"socket", u>> => sock[u] = n /\ pc[u] # "none"
      BY DEF ServeInv, ServeNumbers
    <3>2. fds'[n] = <<"ring", u>> => ring_fd'[u] = n /\ pc'[u] \in
            {"buffer_pool", "event_loop", "queue_exit"}
      <4>1. ring_fd'[u] = ring_fd[u]
        BY <1>1
      <4> QED
        BY <1>2, <1>4, <2>1, <3>1, <4>1
    <3>3. fds'[n] = <<"socket", u>> => sock'[u] = n /\ pc'[u] # "none"
      <4>1. sock'[t] = low /\ (u # t => sock'[u] = sock[u])
        BY <1>1 DEF ServeInv, ServeTypes
      <4> QED
        BY <1>2, <1>4, <2>1, <3>1, <4>1
    <3> QED
      BY <3>2, <3>3
  <2>3. {u \in ServeThreads : pc[u] # "none"}' = {u \in ServeThreads : pc[u] # "none"} \cup {t}
    BY <1>4
  <2>4. Serve!BuffersKept'
    BY <1>1, <1>2, <1>4 DEF ServeInv, ServeNumbers, Serve!BuffersKept
  <2> QED
    BY <1>1, <1>2, <1>4, <2>2, <2>3, <2>4 DEF ServeInv, ServeNumbers
<1>7. ServeBlocks' /\ ServeIdle'
  <2>1. kernel[t] = <<>> /\ cq[t] = <<>>
    BY <1>2 DEF ServeInv, ServeIdle
  <2> QED
    BY <1>1, <1>4, <2>1, OthersHeld
<1>8. Serve!ServesUntilClosed'
  BY <1>1, <1>4 DEF ServeInv, Serve!ServesUntilClosed
<1> QED
  BY <1>5, <1>6, <1>7, <1>8 DEF ServeInv

(* What a thread does that gives up numbers but takes none.                *)
LEMMA NumbersStay ==
  ASSUME ServeInv, NEW t \in ServeThreads, mode' = mode, sock' = sock, ring_fd' = ring_fd,
         pc[t] \notin {"none", "queue_init", "ended"}, pc'[t] # "none",
         \A u \in ServeThreads \ {t} : pc'[u] = pc[u],
         \A n \in Serve!Numbers : fds'[n] = fds[n] \/ fds'[n] = Serve!Free,
         \A n \in Serve!Numbers : fds'[n] = <<"ring", t>> =>
           pc'[t] \in {"buffer_pool", "event_loop", "queue_exit"},
         \A u \in ServeThreads : buffers'[u] = "lost" =>
           buffers[u] = "lost" \/ \E v \in ServeThreads \ {u} : pc'[v] = "ended",
         mode.registered /\ mode.stupid => \A u \in ServeThreads : buffers'[u] # "registered"
  PROVE  ServeNumbers'
<1>1. \A n \in Serve!Numbers, u \in ServeThreads :
        /\ fds'[n] = <<"ring", u>> => fds[n] = <<"ring", u>>
        /\ fds'[n] = <<"socket", u>> => fds[n] = <<"socket", u>>
  BY FreeOfAll DEF Serve!Free
<1>2. \A n \in Serve!Numbers, u \in ServeThreads :
        /\ fds'[n] = <<"ring", u>> =>
             ring_fd'[u] = n /\ pc'[u] \in {"buffer_pool", "event_loop", "queue_exit"}
        /\ fds'[n] = <<"socket", u>> => sock'[u] = n /\ pc'[u] # "none"
  <2> SUFFICES ASSUME NEW n \in Serve!Numbers, NEW u \in ServeThreads
               PROVE  /\ fds'[n] = <<"ring", u>> => ring_fd'[u] = n /\ pc'[u] \in
                           {"buffer_pool", "event_loop", "queue_exit"}
                      /\ fds'[n] = <<"socket", u>> => sock'[u] = n /\ pc'[u] # "none"
    OBVIOUS
  <2>1. /\ fds[n] = <<"ring", u>> =>
             ring_fd[u] = n /\ pc[u] \in {"buffer_pool", "event_loop", "queue_exit"}
        /\ fds[n] = <<"socket", u>> => sock[u] = n /\ pc[u] # "none"
    BY DEF ServeInv, ServeNumbers
  <2>2. CASE u = t
    BY <1>1, <2>1, <2>2
  <2>3. CASE u # t
    BY <1>1, <2>1, <2>3
  <2> QED
    BY <2>2, <2>3
<1>3. \A u \in ServeThreads : pc'[u] \notin {"none", "queue_init"} => ring_fd'[u] \in Serve!Numbers
  BY DEF ServeInv, ServeNumbers
<1>4. {u \in ServeThreads : pc[u] # "none"}' = {u \in ServeThreads : pc[u] # "none"}
  OBVIOUS
<1>5. Serve!BuffersKept'
  <2>1. \A v \in ServeThreads : pc[v] = "ended" => pc'[v] = "ended"
    OBVIOUS
  <2>2. Serve!BuffersKept
    BY DEF ServeInv, ServeNumbers
  <2> QED
    BY <2>1, <2>2 DEF Serve!BuffersKept
<1>6. \E k \in Nat : {u \in ServeThreads : pc[u] # "none"} = 1 .. k
  BY DEF ServeInv, ServeNumbers
<1> QED
  BY <1>2, <1>3, <1>4, <1>5, <1>6 DEF ServeNumbers

LEMMA QueueInitServes ==
  ASSUME ServeInv, NEW t \in ServeThreads, Serve!QueueInit(t)
  PROVE  ServeInv'
<1>1. CASE Serve!Ends("queue_init failed")
  <2>1. UNCHANGED <<mode, pc, fds, sock, ring_fd, pools, buffers, kernel, cq, clients>>
        /\ process' # "bad_alloc"
    BY <1>1 DEF Serve!Ends
  <2> QED
    BY <2>1, ServeStands
<1>2. CASE ~Serve!Ends("queue_init failed")
  <2> DEFINE low == Serve!LowestFree
  <2>1. /\ process \in {"accept", "wait"} /\ pc[t] = "queue_init"
        /\ ring_fd' = [ring_fd EXCEPT ![t] = low] /\ fds' = [fds EXCEPT ![low] = <<"ring", t>>]
        /\ pc' = [pc EXCEPT ![t] = "buffer_pool"]
        /\ UNCHANGED <<mode, process, sock, finished_threads, pools, buffers, kernel, cq, sent,
                       clients>>
    BY <1>2 DEF Serve!QueueInit, Serve!Running
  <2>2. low \in Serve!Numbers /\ low \in Int
    BY <2>1, NumberFree, NumbersType
  <2> HIDE DEF low
  <2>3. /\ pc \in [ServeThreads -> ServePcs]
        /\ pc'[t] = "buffer_pool" /\ \A u \in ServeThreads : u # t => pc'[u] = pc[u]
    BY <2>1 DEF ServeInv, ServeTypes
  <2>4. ServeTypes'
    <3>1. /\ ring_fd' \in [ServeThreads -> Int] /\ pc' \in [ServeThreads -> ServePcs]
          /\ fds' \in [Serve!Numbers -> {Serve!Free} \cup ({"socket", "ring"} \X ServeThreads)]
      BY <2>1, <2>2 DEF ServeInv, ServeTypes, ServePcs
    <3> QED
      BY <2>1, <3>1, ServeBuild DEF ServeInv, ServeTypes
  <2>5. ServeNumbers'
    <3>1. \A n \in Serve!Numbers, u \in ServeThreads :
            /\ fds'[n] = <<"socket", u>> => n # low /\ fds[n] = <<"socket", u>>
            /\ fds'[n] = <<"ring", u>> => \/ n = low /\ u = t
                                          \/ n # low /\ fds[n] = <<"ring", u>>
      BY <2>1, <2>2 DEF ServeInv, ServeTypes
    <3>2. \A n \in Serve!Numbers, u \in ServeThreads :
            /\ fds'[n] = <<"ring", u>> =>
                 ring_fd'[u] = n /\ pc'[u] \in {"buffer_pool", "event_loop", "queue_exit"}
            /\ fds'[n] = <<"socket", u>> => sock'[u] = n /\ pc'[u] # "none"
      <4> SUFFICES ASSUME NEW n \in Serve!Numbers, NEW u \in ServeThreads
                   PROVE  /\ fds'[n] = <<"ring", u>> => ring_fd'[u] = n /\ pc'[u] \in
                               {"buffer_pool", "event_loop", "queue_exit"}
                          /\ fds'[n] = <<"socket", u>> => sock'[u] = n /\ pc'[u] # "none"
        OBVIOUS
      <4>1. /\ fds[n] = <<"ring", u>> =>
                 ring_fd[u] = n /\ pc[u] \in {"buffer_pool", "event_loop", "queue_exit"}
            /\ fds[n] = <<"socket", u>> => sock[u] = n /\ pc[u] # "none"
        BY DEF ServeInv, ServeNumbers
      <4>2. ring_fd'[t] = low /\ (u # t => ring_fd'[u] = ring_fd[u])
        BY <2>1 DEF ServeInv, ServeTypes
      <4>3. fds'[n] = <<"ring", u>> =>
              ring_fd'[u] = n /\ pc'[u] \in {"buffer_pool", "event_loop", "queue_exit"}
        BY <2>1, <2>3, <3>1, <4>1, <4>2
      <4>4. fds'[n] = <<"socket", u>> => sock'[u] = n /\ pc'[u] # "none"
        <5>1. sock' = sock
          BY <2>1
        <5> QED
          BY <2>3, <3>1, <4>1, <5>1
      <4> QED
        BY <4>3, <4>4
    <3>3. {u \in ServeThreads : pc[u] # "none"}' = {u \in ServeThreads : pc[u] # "none"}
      BY <2>1, <2>3
    <3>4. Serve!BuffersKept'
      BY <2>1, <2>3 DEF ServeInv, ServeNumbers, Serve!BuffersKept
    <3>5. \A u \in ServeThreads :
            pc'[u] \notin {"none", "queue_init"} => ring_fd'[u] \in Serve!Numbers
      <4>1. ring_fd'[t] = low /\ \A u \in ServeThreads : u # t => ring_fd'[u] = ring_fd[u]
        BY <2>1 DEF ServeInv, ServeTypes
      <4> QED
        BY <2>2, <2>3, <4>1 DEF ServeInv, ServeNumbers
    <3> QED
      BY <2>1, <3>2, <3>3, <3>4, <3>5 DEF ServeInv, ServeNumbers
  <2>6. ServeBlocks' /\ ServeIdle'
    <3>1. kernel[t] = <<>> /\ cq[t] = <<>>
      BY <2>1 DEF ServeInv, ServeIdle
    <3> QED
      BY <2>1, <2>3, <3>1, OthersHeld
  <2>7. Serve!ServesUntilClosed'
    BY <2>1, <2>3 DEF ServeInv, Serve!ServesUntilClosed
  <2> QED
    BY <2>4, <2>5, <2>6, <2>7 DEF ServeInv
<1> QED
  BY <1>1, <1>2

(* The first reads.                                                        *)
LEMMA MakePoolServes ==
  ASSUME ServeInv, NEW t \in ServeThreads, Serve!MakePool(t)
  PROVE  ServeInv'
<1>0. /\ mode.registered \in BOOLEAN /\ mode.stupid \in BOOLEAN
      /\ mode.stupid \/ ServeReads <= PoolCapacity
      /\ ServeReads \in Nat /\ Serve!Reads = ServeReads /\ PoolCapacity \in Nat \ {0}
  BY ServeAssumption DEF ServeInv, ServeTypes, ServeReads, Serve!Reads
<1>1. CASE Serve!Ends("runtime_error")
  <2>1. UNCHANGED <<mode, pc, fds, sock, ring_fd, pools, buffers, kernel, cq, clients>>
        /\ process' # "bad_alloc"
    BY <1>1 DEF Serve!Ends
  <2> QED
    BY <2>1, ServeStands
<1>2. CASE ~Serve!Ends("runtime_error")
  <2> DEFINE First(x) == Serve!Operation(t, "read", Serve!Block(Serve!PoolAfter[x - 1]))
             reads == [x \in 1 .. ServeReads |-> First(x)]
  <2>1. /\ process \in {"accept", "wait"} /\ pc[t] = "buffer_pool"
        /\ buffers' = [buffers EXCEPT ![t] = IF ~mode.registered THEN "none"
                         ELSE IF mode.stupid THEN "foreign" ELSE "registered"]
        /\ kernel' = [kernel EXCEPT ![t] = reads]
        /\ pools' = [pools EXCEPT ![t] = Serve!PoolAfter[ServeReads]]
        /\ pc' = [pc EXCEPT ![t] = "event_loop"]
    BY <1>0, <1>2 DEF Serve!MakePool, Serve!Running
  <2>2. UNCHANGED <<mode, process, fds, sock, ring_fd, cq, clients>>
    BY <1>0, <1>2 DEF Serve!MakePool
  <2>3. /\ pc \in [ServeThreads -> ServePcs] /\ kernel \in [ServeThreads -> Seq(TrueServeOps)]
        /\ pools \in [ServeThreads -> Serve!Pools]
        /\ buffers \in [ServeThreads -> {"none", "registered", "foreign", "lost"}]
    BY DEF ServeInv, ServeTypes
  <2>4. pc'[t] = "event_loop" /\ pc' \in [ServeThreads -> ServePcs]
        /\ \A u \in ServeThreads : u # t => pc'[u] = pc[u]
    BY <2>1, <2>3 DEF ServePcs
  <2>5. /\ buffers' \in [ServeThreads -> {"none", "registered", "foreign", "lost"}]
        /\ buffers'[t] # "lost" /\ \A u \in ServeThreads : u # t => buffers'[u] = buffers[u]
        /\ mode.registered /\ mode.stupid => buffers'[t] = "foreign"
    BY <1>0, <2>1, <2>3
  <2> DEFINE fails == mode.registered /\ buffers'[t] # "registered"
  <2>6. /\ fails \in BOOLEAN /\ (mode.registered /\ mode.stupid => fails)
    BY <1>0, <2>5
  <2>7. \A x : First(x) = [kind |-> "read", block |-> Serve!Block(Serve!PoolAfter[x - 1]),
                           fails |-> fails]
    BY DEF Serve!Operation
  <2> HIDE DEF fails, First
  <2>8. ASSUME NEW x \in 1 .. ServeReads
        PROVE  /\ Serve!Block(Serve!PoolAfter[x - 1]) \in Serve!Blocks
               /\ ~mode.stupid => Serve!Block(Serve!PoolAfter[x - 1]) = x - 1
    <3>1. CASE mode.stupid
      BY <1>0, <3>1 DEF Serve!Block, Serve!Blocks
    <3>2. CASE ~mode.stupid
      <4>1. x - 1 \in 0 .. PoolCapacity /\ x - 1 < PoolCapacity /\ x - 1 \in 0 .. PoolCapacity - 1
        BY <1>0, <3>2
      <4> QED
        BY <3>2, <4>1, PoolFilled DEF Serve!Blocks
    <3> QED
      BY <3>1, <3>2
  <2>9. \A x \in 1 .. ServeReads : First(x) \in TrueServeOps
    BY <2>6, <2>7, <2>8 DEF TrueServeOps, ServeOps, ServeKinds
  <2>10. reads \in Seq(TrueServeOps)
    BY <1>0, <2>9
  <2>11. Serve!PoolAfter[ServeReads] \in Serve!Pools
    <3>1. CASE mode.stupid
      BY <1>0, <3>1, PoolStupid
         DEF Serve!NewPool, Serve!Pools, Serve!BufferStates, Serve!Blocks
    <3>2. CASE ~mode.stupid
      <4>1. ServeReads \in 0 .. PoolCapacity /\ ServeReads % PoolCapacity \in 0 .. PoolCapacity - 1
        BY <1>0, <3>2
      <4>2. Serve!PoolAfter[ServeReads] = PoolWithout(ServeReads)
        BY <3>2, <4>1, PoolFilled
      <4>3. PoolWithout(ServeReads) \in Serve!Pools
        BY <4>1 DEF PoolWithout, Serve!Pools, Serve!BufferStates, Serve!Blocks
      <4> QED
        BY <4>2, <4>3
    <3> QED
      BY <3>1, <3>2
  <2>12. /\ kernel' \in [ServeThreads -> Seq(TrueServeOps)] /\ kernel'[t] = reads
         /\ \A u \in ServeThreads : u # t => kernel'[u] = kernel[u]
         /\ pools' \in [ServeThreads -> Serve!Pools] /\ pools'[t] = Serve!PoolAfter[ServeReads]
         /\ \A u \in ServeThreads : u # t => pools'[u] = pools[u]
    BY <2>1, <2>3, <2>10, <2>11
  <2>13. ServeTypes'
    <3>a. ServeTypes
      BY DEF ServeInv
    <3>b. TrueServeOps' = TrueServeOps /\ \A end : TrueServeCqes(end)' = TrueServeCqes(end)
      BY <2>2, ServeBuild
    <3> QED
      BY ONLY <2>2, <2>4, <2>5, <2>12, <3>a, <3>b DEF ServeTypes
  <2>14. ServeNumbers'
    <3>1. \A u \in ServeThreads : buffers'[u] = "lost" => buffers[u] = "lost"
      BY <2>5
    <3>2. mode.registered /\ mode.stupid => \A u \in ServeThreads : buffers'[u] # "registered"
      BY <2>5 DEF ServeInv, ServeNumbers
    <3> QED
      BY <2>1, <2>2, <2>4, <3>1, <3>2, NumbersStay
  <2>15. ASSUME ~mode.stupid
         PROVE  BlocksHeld(t)'
    <3> SUFFICES ASSUME NEW b \in Serve!Blocks
                 PROVE  OnceHeld(Holding(t, ReadsOf(b)), Holding(t, SendsOf(b)),
                                 pools[t].state[b])'
      BY DEF BlocksHeld
    <3>1. cq'[t] = <<>>
      BY <2>1, <2>2 DEF ServeInv, ServeIdle
    <3>2. Holding(t, ReadsOf(b))' = Count(reads, ReadsOf(b)) + 0
          /\ Holding(t, SendsOf(b))' = Count(reads, SendsOf(b)) + 0
      BY <2>2, <2>12, <3>1, ServeBuild, CountEmpty DEF Holding
    <3>3. \A x \in DOMAIN reads : reads[x] = First(x) /\ x \in 1 .. ServeReads
      OBVIOUS
    <3>4. Count(reads, SendsOf(b)) = 0
      <4>1. \A x \in DOMAIN reads : reads[x] \notin SendsOf(b)
        BY <2>7, <3>3 DEF SendsOf
      <4> HIDE DEF reads
      <4> QED
        BY <2>10, <4>1, CountFound
    <3>5. \A x \in DOMAIN reads : reads[x] \in ReadsOf(b) <=> x - 1 = b
      <4> SUFFICES ASSUME NEW x \in DOMAIN reads
                   PROVE  reads[x] \in ReadsOf(b) <=> x - 1 = b
        OBVIOUS
      <4>1. reads[x] \in ServeOps /\ reads[x].kind = "read" /\ reads[x].block = x - 1
        BY <2>7, <2>8, <2>9, <2>15, <3>3 DEF TrueServeOps
      <4> QED
        BY <4>1 DEF ReadsOf
    <3>6. Count(reads, ReadsOf(b)) <= 1
      <4>1. \A x, j \in DOMAIN reads : reads[x] \in ReadsOf(b) /\ reads[j] \in ReadsOf(b) => x = j
        BY <3>3, <3>5
      <4> HIDE DEF reads
      <4> QED
        BY <2>10, <4>1, CountAtMostOne
    <3>7. Count(reads, ReadsOf(b)) = 0 <=> ~(b < ServeReads)
      <4>1. b \in Nat
        BY <1>0 DEF Serve!Blocks
      <4>2. b < ServeReads => b + 1 \in DOMAIN reads /\ (b + 1) - 1 = b
        BY <1>0, <4>1
      <4>3. (\A x \in DOMAIN reads : x - 1 # b) <=> ~(b < ServeReads)
        BY <1>0, <3>3, <4>1, <4>2
      <4>4. (\A x \in DOMAIN reads : reads[x] \notin ReadsOf(b)) <=> ~(b < ServeReads)
        BY <3>5, <4>3
      <4> HIDE DEF reads
      <4> QED
        BY <2>10, <4>4, CountFound
    <3>8. pools'[t].state[b] = IF b < ServeReads THEN "CheckedOut" ELSE "Free"
      <4>1. ServeReads \in 0 .. PoolCapacity
        BY <1>0, <2>15
      <4>2. pools'[t] = PoolWithout(ServeReads)
        BY <2>12, <2>15, <4>1, PoolFilled
      <4> QED
        BY <4>2 DEF PoolWithout
    <3>9. Count(reads, ReadsOf(b)) \in Nat
      BY <2>10, CountType
    <3> HIDE DEF reads
    <3>10. OnceHeld(Holding(t, ReadsOf(b))', Holding(t, SendsOf(b))', pools'[t].state[b])
      BY <3>2, <3>4, <3>6, <3>7, <3>8, <3>9 DEF OnceHeld
    <3> QED
      BY <2>2, <3>10, ServeBuild DEF OnceHeld
  <2>16. ServeBlocks' /\ ServeIdle'
    BY <2>1, <2>2, <2>4, <2>12, <2>15, OthersHeld
  <2>17. Serve!ServesUntilClosed'
    BY <2>2, <2>4 DEF ServeInv, Serve!ServesUntilClosed
  <2> QED
    BY <2>13, <2>14, <2>16, <2>17 DEF ServeInv
<1> QED
  BY <1>1, <1>2

(* What is gone from a ring's completions.                                 *)
LEMMA CompletionMet ==
  ASSUME ServeInv, NEW t \in ServeThreads, cq[t] # <<>>, mode' = mode, clients' = clients,
         cq' = [cq EXCEPT ![t] = Tail(@)]
  PROVE  /\ Head(cq[t]) \in TrueServeCqes(clients[t].end)
         /\ cq'[t] = Tail(cq[t]) /\ \A u \in ServeThreads : u # t => cq'[u] = cq[u]
         /\ \A u \in ServeThreads : cq'[u] \in Seq(TrueServeCqes(clients'[u].end))
         /\ DOMAIN cq' = ServeThreads /\ cq' = [u \in ServeThreads |-> cq'[u]]
<1>1. /\ \A u \in ServeThreads : cq[u] \in Seq(TrueServeCqes(clients[u].end))
      /\ DOMAIN cq = ServeThreads /\ cq = [u \in ServeThreads |-> cq[u]]
  BY DEF ServeInv, ServeTypes
<1>2. Head(cq[t]) \in TrueServeCqes(clients[t].end)
      /\ Tail(cq[t]) \in Seq(TrueServeCqes(clients[t].end))
  BY <1>1, HeadTailProperties
<1>3. cq'[t] = Tail(cq[t]) /\ \A u \in ServeThreads : u # t => cq'[u] = cq[u]
  BY <1>1
<1>4. DOMAIN cq' = ServeThreads /\ cq' = [u \in ServeThreads |-> cq'[u]]
  BY <1>1
<1> QED
  BY <1>1, <1>2, <1>3, <1>4

LEMMA CountsAreNumbers ==
  ASSUME ServeInv, NEW t \in ServeThreads, NEW T
  PROVE  Count(kernel[t], T) \in Nat /\ Count(cq[t], T) \in Nat /\ Holding(t, T) \in Nat
<1>1. kernel[t] \in Seq(TrueServeOps) /\ cq[t] \in Seq(TrueServeCqes(clients[t].end))
  BY DEF ServeInv, ServeTypes
<1>2. Count(kernel[t], T) \in Nat /\ Count(cq[t], T) \in Nat
  BY <1>1, CountType
<1> QED
  BY <1>2 DEF Holding

LEMMA CloseServes ==
  ASSUME ServeInv, NEW t \in ServeThreads, Serve!Running, pc[t] = "event_loop", cq[t] # <<>>,
         Serve!EventType(Head(cq[t])) = "READ_EVENT", Head(cq[t]).res = 0,
         fds' = [fds EXCEPT ![sock[t]] = Serve!Free], pc' = [pc EXCEPT ![t] = "queue_exit"],
         UNCHANGED <<mode, process, sock, ring_fd, finished_threads, pools, buffers, kernel, cq,
                     sent, clients>>
  PROVE  ServeInv'
<1>1. /\ pc \in [ServeThreads -> ServePcs]
      /\ fds \in [Serve!Numbers -> {Serve!Free} \cup ({"socket", "ring"} \X ServeThreads)]
      /\ cq[t] \in Seq(TrueServeCqes(clients[t].end))
  BY DEF ServeInv, ServeTypes
<1>2. pc' \in [ServeThreads -> ServePcs] /\ pc'[t] = "queue_exit"
      /\ \A u \in ServeThreads : u # t => pc'[u] = pc[u]
  BY <1>1 DEF ServePcs
<1>3. /\ fds' \in [Serve!Numbers -> {Serve!Free} \cup ({"socket", "ring"} \X ServeThreads)]
      /\ \A n \in Serve!Numbers : fds'[n] = fds[n] \/ fds'[n] = Serve!Free
  BY <1>1
<1>4. ServeTypes'
  <2>a. ServeTypes
    BY DEF ServeInv
  <2>b. TrueServeOps' = TrueServeOps /\ \A end : TrueServeCqes(end)' = TrueServeCqes(end)
    BY ServeBuild
  <2>c. UNCHANGED <<mode, sock, ring_fd, pools, buffers, kernel, cq, clients>>
    OBVIOUS
  <2> QED
    BY ONLY <1>2, <1>3, <2>c, <2>a, <2>b DEF ServeTypes
<1>5. ServeNumbers'
  <2>1. \A u \in ServeThreads : buffers'[u] = "lost" => buffers[u] = "lost"
    OBVIOUS
  <2>2. mode.registered /\ mode.stupid => \A u \in ServeThreads : buffers'[u] # "registered"
    BY DEF ServeInv, ServeNumbers
  <2> QED
    BY <1>2, <1>3, <2>1, <2>2, NumbersStay
<1>6. ServeBlocks' /\ ServeIdle'
  BY <1>2, OthersHeld DEF Serve!Running
<1>7. clients[t].end # "open"
  <2>1. Head(cq[t]) \in TrueServeCqes(clients[t].end)
    BY <1>1, HeadTailProperties
  <2> QED
    BY <2>1 DEF TrueServeCqes, Serve!EventType
<1>8. Serve!ServesUntilClosed'
  BY <1>2, <1>7 DEF ServeInv, Serve!ServesUntilClosed
<1> QED
  BY <1>4, <1>5, <1>6, <1>8 DEF ServeInv

(* A completion of a page that went out.                                   *)
LEMMA SentServes ==
  ASSUME ServeInv, NEW t \in ServeThreads, Serve!Running, pc[t] = "event_loop", cq[t] # <<>>,
         Serve!EventType(Head(cq[t])) # "READ_EVENT",
         pools' = [pools EXCEPT ![t] = Serve!Returned(@, Head(cq[t]).block)],
         cq' = [cq EXCEPT ![t] = Tail(@)],
         UNCHANGED <<mode, process, pc, fds, sock, ring_fd, finished_threads, buffers, kernel,
                     sent, clients>>
  PROVE  ServeInv'
<1> DEFINE cqe == Head(cq[t])
<1>0. ~mode.stupid /\ cqe.kind # "read"
  BY DEF Serve!EventType
<1>1. /\ cqe \in TrueServeCqes(clients[t].end)
      /\ cq'[t] = Tail(cq[t]) /\ \A u \in ServeThreads : u # t => cq'[u] = cq[u]
      /\ \A u \in ServeThreads : cq'[u] \in Seq(TrueServeCqes(clients'[u].end))
      /\ DOMAIN cq' = ServeThreads /\ cq' = [u \in ServeThreads |-> cq'[u]]
  BY CompletionMet
<1>2. cqe.block \in Serve!Blocks /\ cqe \in ServeCqes
  BY <1>1 DEF TrueServeCqes, ServeCqes
<1> HIDE DEF cqe
<1>3. pools \in [ServeThreads -> Serve!Pools]
  BY DEF ServeInv, ServeTypes
<1>4. Serve!Returned(pools[t], cqe.block) = Serve!CheckIn(pools[t], cqe.block)
  BY <1>0 DEF Serve!Returned
<1>5. /\ pools' \in [ServeThreads -> Serve!Pools]
      /\ pools'[t] = Serve!CheckIn(pools[t], cqe.block)
      /\ \A u \in ServeThreads : u # t => pools'[u] = pools[u]
  <2>1. Serve!CheckIn(pools[t], cqe.block) \in Serve!Pools
    BY <1>2, <1>3, CheckedIn
  <2> QED
    BY <1>3, <1>4, <2>1 DEF cqe
<1>6. ServeTypes'
  BY <1>1, <1>5, ServeBuild DEF ServeInv, ServeTypes
<1>7. ServeNumbers'
  BY DEF ServeInv, ServeNumbers, Serve!BuffersKept
<1>8. BlocksHeld(t)'
  <2> SUFFICES ASSUME NEW b \in Serve!Blocks
               PROVE  OnceHeld(Holding(t, ReadsOf(b)), Holding(t, SendsOf(b)),
                               pools[t].state[b])'
    BY DEF BlocksHeld
  <2>1. \A T : Count(cq[t], T) = One(cqe, T) + Count(cq'[t], T)
               /\ Count(cq[t], T) \in Nat /\ Count(cq'[t], T) \in Nat
               /\ Count(kernel[t], T) \in Nat
    <3>1. cq[t] \in Seq(TrueServeCqes(clients[t].end))
      BY DEF ServeInv, ServeTypes
    <3>2. cq'[t] \in Seq(TrueServeCqes(clients[t].end))
      BY <1>1
    <3> QED
      BY <1>1, <3>1, <3>2, CountTail, CountType, CountsAreNumbers DEF cqe
  <2>2. /\ Holding(t, ReadsOf(b))' = Count(kernel[t], ReadsOf(b)) + Count(cq'[t], ReadsOf(b))
        /\ Holding(t, SendsOf(b))' = Count(kernel[t], SendsOf(b)) + Count(cq'[t], SendsOf(b))
    BY ServeBuild DEF Holding
  <2>3. One(cqe, ReadsOf(b)) = 0 /\ One(cqe, SendsOf(b)) = IF cqe.block = b THEN 1 ELSE 0
    BY <1>0, <1>2 DEF One, ReadsOf, SendsOf
  <2>4. OnceHeld(Holding(t, ReadsOf(b)), Holding(t, SendsOf(b)), pools[t].state[b])
    BY <1>0 DEF ServeInv, ServeBlocks, BlocksHeld
  <2>5. pools'[t].state[b] = IF b = cqe.block THEN "Free" ELSE pools[t].state[b]
    <3>1. pools'[t].state = [pools[t].state EXCEPT ![cqe.block] = "Free"] /\ pools[t] \in Serve!Pools
      BY <1>2, <1>3, <1>5, CheckedIn
    <3>2. DOMAIN pools[t].state = Serve!Blocks
      BY <3>1 DEF Serve!Pools
    <3> QED
      BY <3>1, <3>2
  <2>6. pools[t].state[b] \in {"Free", "CheckedOut"}
    BY <1>3 DEF Serve!Pools, Serve!BufferStates
  <2> DEFINE kr == Count(kernel[t], ReadsOf(b))
             ks == Count(kernel[t], SendsOf(b))
             cr == Count(cq'[t], ReadsOf(b))
             cs == Count(cq'[t], SendsOf(b))
  <2>7. /\ kr \in Nat /\ ks \in Nat /\ cr \in Nat /\ cs \in Nat
        /\ Holding(t, ReadsOf(b)) = kr + cr
        /\ Holding(t, SendsOf(b)) = ks + cs + (IF cqe.block = b THEN 1 ELSE 0)
    BY <2>1, <2>3 DEF Holding
  <2>8. Holding(t, ReadsOf(b))' = kr + cr /\ Holding(t, SendsOf(b))' = ks + cs
    BY <2>2
  <2> HIDE DEF kr, ks, cr, cs
  <2>9. OnceHeld(Holding(t, ReadsOf(b))', Holding(t, SendsOf(b))', pools'[t].state[b])
    <3>1. CASE cqe.block = b
      BY <2>4, <2>5, <2>7, <2>8, <3>1 DEF OnceHeld
    <3>2. CASE cqe.block # b
      BY <2>4, <2>5, <2>7, <2>8, <3>2 DEF OnceHeld
    <3> QED
      BY <3>1, <3>2
  <2> QED
    BY <2>9, ServeBuild DEF OnceHeld
<1>9. ServeBlocks' /\ ServeIdle'
  BY <1>1, <1>5, <1>8, OthersHeld DEF Serve!Running
<1>10. Serve!ServesUntilClosed'
  BY DEF ServeInv, Serve!ServesUntilClosed
<1> QED
  BY <1>6, <1>7, <1>9, <1>10 DEF ServeInv

LEMMA CountPair ==
  ASSUME NEW S, NEW x \in S, NEW y \in S, NEW T
  PROVE  Count(<<x, y>>, T) = One(x, T) + One(y, T)
<1> DEFINE s == <<x, y>>
<1>1. s \in Seq(S) /\ s # <<>> /\ Head(s) = x /\ Tail(s) = <<y>>
  OBVIOUS
<1> HIDE DEF s
<1>2. Count(s, T) = One(x, T) + Count(<<y>>, T)
  BY <1>1, CountTail
<1> QED
  BY <1>2, CountSingleton DEF s

(* A request is answered with a page, and read for again.                  *)
LEMMA AnswerServes ==
  ASSUME ServeInv, NEW t \in ServeThreads, Serve!Running, pc[t] = "event_loop", cq[t] # <<>>,
         Serve!EventType(Head(cq[t])) = "READ_EVENT", Serve!Lasts(pools[t]),
         buffers' = buffers, Serve!Answer(t, Head(cq[t])), cq' = [cq EXCEPT ![t] = Tail(@)],
         UNCHANGED <<mode, process, pc, fds, sock, ring_fd, finished_threads, sent, clients>>
  PROVE  ServeInv'
<1> DEFINE cqe == Head(cq[t])
           page == Serve!Block(pools[t])
           fails == mode.registered /\ buffers'[t] # "registered"
           w == [kind |-> "write", block |-> page, fails |-> fails]
           r == [kind |-> "read", block |-> cqe.block, fails |-> fails]
<1>0. mode.registered \in BOOLEAN /\ mode.stupid \in BOOLEAN /\ PoolCapacity \in Nat \ {0}
  BY ServeAssumption DEF ServeInv, ServeTypes
<1>1. /\ cqe \in TrueServeCqes(clients[t].end)
      /\ cq'[t] = Tail(cq[t]) /\ \A u \in ServeThreads : u # t => cq'[u] = cq[u]
      /\ \A u \in ServeThreads : cq'[u] \in Seq(TrueServeCqes(clients'[u].end))
      /\ DOMAIN cq' = ServeThreads /\ cq' = [u \in ServeThreads |-> cq'[u]]
  BY CompletionMet
<1>2. cqe.block \in Serve!Blocks /\ cqe \in ServeCqes
  BY <1>1 DEF TrueServeCqes, ServeCqes
<1>3. /\ pools \in [ServeThreads -> Serve!Pools]
      /\ kernel \in [ServeThreads -> Seq(TrueServeOps)]
  BY DEF ServeInv, ServeTypes
<1>4. /\ kernel' = [kernel EXCEPT ![t] = @ \o <<w, r>>]
      /\ pools' = [pools EXCEPT ![t] = Serve!After(@)]
  BY DEF Serve!Answer, Serve!Operation
<1>5. ~mode.stupid => /\ Serve!CanCheckOut(pools[t]) /\ page = Serve!NextFree(pools[t])
                      /\ Serve!After(pools[t]) = Serve!CheckOut(pools[t])
  BY DEF Serve!Lasts, Serve!Block, Serve!After
<1>6. page \in Serve!Blocks /\ Serve!After(pools[t]) \in Serve!Pools
  <2>1. CASE mode.stupid
    BY <1>0, <1>3, <2>1 DEF Serve!Block, Serve!Blocks, Serve!After
  <2>2. CASE ~mode.stupid
    BY <1>3, <1>5, <2>2, CheckedOut
  <2> QED
    BY <2>1, <2>2
<1>7. fails \in BOOLEAN /\ (mode.registered /\ mode.stupid => fails)
  BY <1>0 DEF ServeInv, ServeNumbers
<1> HIDE DEF cqe, page, fails
<1>8. w \in TrueServeOps /\ r \in TrueServeOps
  BY <1>2, <1>6, <1>7 DEF TrueServeOps, ServeOps, ServeKinds
<1>9. /\ w.kind = "write" /\ w.block = page /\ r.kind = "read" /\ r.block = cqe.block
      /\ w \in ServeOps /\ r \in ServeOps
  BY <1>8 DEF TrueServeOps
<1> HIDE DEF w, r
<1>10. <<w, r>> \in Seq(TrueServeOps) /\ <<w, r>> # <<>> /\ Head(<<w, r>>) = w
       /\ Tail(<<w, r>>) = <<r>>
  BY <1>8
<1>11. kernel[t] \o <<w, r>> \in Seq(TrueServeOps)
  BY <1>3, <1>10, ConcatProperties
<1>12. /\ kernel' \in [ServeThreads -> Seq(TrueServeOps)] /\ kernel'[t] = kernel[t] \o <<w, r>>
       /\ \A u \in ServeThreads : u # t => kernel'[u] = kernel[u]
       /\ pools' \in [ServeThreads -> Serve!Pools] /\ pools'[t] = Serve!After(pools[t])
       /\ \A u \in ServeThreads : u # t => pools'[u] = pools[u]
  BY <1>3, <1>4, <1>6, <1>11
<1>13. ServeTypes'
  BY <1>1, <1>12, ServeBuild DEF ServeInv, ServeTypes
<1>14. ServeNumbers'
  BY DEF ServeInv, ServeNumbers, Serve!BuffersKept
<1>15. ASSUME ~mode.stupid
       PROVE  BlocksHeld(t)'
  <2> SUFFICES ASSUME NEW b \in Serve!Blocks
               PROVE  OnceHeld(Holding(t, ReadsOf(b)), Holding(t, SendsOf(b)),
                               pools[t].state[b])'
    BY DEF BlocksHeld
  <2>0. cqe.kind = "read"
    BY <1>15 DEF Serve!EventType, cqe
  <2>1. \A T : Count(cq[t], T) = One(cqe, T) + Count(cq'[t], T) /\ Count(cq'[t], T) \in Nat
    <3>1. cq[t] \in Seq(TrueServeCqes(clients[t].end))
          /\ cq'[t] \in Seq(TrueServeCqes(clients[t].end))
      BY <1>1 DEF ServeInv, ServeTypes
    <3> QED
      BY <1>1, <3>1, CountTail, CountType DEF cqe
  <2>2. \A T : Count(kernel'[t], T) = Count(kernel[t], T) + (One(w, T) + One(r, T))
    <3>1. kernel[t] \in Seq(TrueServeOps)
      BY <1>3
    <3>2. \A T : Count(<<w, r>>, T) = One(w, T) + One(r, T)
      BY <1>8, CountPair
    <3>3. \A T : Count(kernel[t] \o <<w, r>>, T) = Count(kernel[t], T) + Count(<<w, r>>, T)
      BY <1>10, <3>1, CountConcat
    <3> QED
      BY <1>12, <3>2, <3>3
  <2>3. /\ Holding(t, ReadsOf(b))' = Count(kernel'[t], ReadsOf(b)) + Count(cq'[t], ReadsOf(b))
        /\ Holding(t, SendsOf(b))' = Count(kernel'[t], SendsOf(b)) + Count(cq'[t], SendsOf(b))
    BY ServeBuild DEF Holding
  <2>4. /\ One(cqe, ReadsOf(b)) = (IF cqe.block = b THEN 1 ELSE 0) /\ One(cqe, SendsOf(b)) = 0
        /\ One(r, ReadsOf(b)) = (IF cqe.block = b THEN 1 ELSE 0) /\ One(r, SendsOf(b)) = 0
        /\ One(w, ReadsOf(b)) = 0 /\ One(w, SendsOf(b)) = (IF page = b THEN 1 ELSE 0)
    BY <1>2, <1>9, <2>0 DEF One, ReadsOf, SendsOf
  <2>5. \A c \in Serve!Blocks :
          OnceHeld(Holding(t, ReadsOf(c)), Holding(t, SendsOf(c)), pools[t].state[c])
    BY <1>15 DEF ServeInv, ServeBlocks, BlocksHeld
  <2>6. pools'[t].state[b] = (IF b = page THEN "CheckedOut" ELSE pools[t].state[b])
        /\ pools[t].state[page] = "Free"
    <3>1. /\ pools'[t].state = [pools[t].state EXCEPT ![page] = "CheckedOut"]
          /\ pools[t] \in Serve!Pools /\ pools[t].state[page] = "Free"
      <4>1. pools[t] \in Serve!Pools /\ Serve!CanCheckOut(pools[t])
        BY <1>3, <1>5, <1>15
      <4>2. /\ pools[t].state[Serve!NextFree(pools[t])] = "Free"
            /\ Serve!CheckOut(pools[t]).state =
                 [pools[t].state EXCEPT ![Serve!NextFree(pools[t])] = "CheckedOut"]
        BY <4>1, CheckedOut
      <4>3. page = Serve!NextFree(pools[t]) /\ pools'[t] = Serve!CheckOut(pools[t])
        BY <1>5, <1>12, <1>15
      <4> QED
        BY <4>1, <4>2, <4>3
    <3>2. DOMAIN pools[t].state = Serve!Blocks
      BY <3>1 DEF Serve!Pools
    <3> QED
      BY <3>1, <3>2
  <2> DEFINE kr == Count(kernel[t], ReadsOf(b))
             ks == Count(kernel[t], SendsOf(b))
             cr == Count(cq'[t], ReadsOf(b))
             cs == Count(cq'[t], SendsOf(b))
  <2>7. /\ kr \in Nat /\ ks \in Nat /\ cr \in Nat /\ cs \in Nat
        /\ Holding(t, ReadsOf(b)) = kr + cr + (IF cqe.block = b THEN 1 ELSE 0)
        /\ Holding(t, SendsOf(b)) = ks + cs
    <3>1. kr \in Nat /\ ks \in Nat
      BY CountsAreNumbers
    <3>2. cr \in Nat /\ cs \in Nat
      BY <2>1
    <3>3. /\ Count(cq[t], ReadsOf(b)) = (IF cqe.block = b THEN 1 ELSE 0) + cr
          /\ Count(cq[t], SendsOf(b)) = 0 + cs
      BY <2>1, <2>4
    <3>4. /\ Holding(t, ReadsOf(b)) = kr + Count(cq[t], ReadsOf(b))
          /\ Holding(t, SendsOf(b)) = ks + Count(cq[t], SendsOf(b))
      BY DEF Holding
    <3> HIDE DEF kr, ks, cr, cs
    <3> QED
      BY <3>1, <3>2, <3>3, <3>4
  <2>8. /\ Holding(t, ReadsOf(b))' = kr + cr + (IF cqe.block = b THEN 1 ELSE 0)
        /\ Holding(t, SendsOf(b))' = ks + cs + (IF page = b THEN 1 ELSE 0)
    BY <2>2, <2>3, <2>4, <2>7
  <2> HIDE DEF kr, ks, cr, cs
  <2>9. OnceHeld(Holding(t, ReadsOf(b))', Holding(t, SendsOf(b))', pools'[t].state[b])
    <3>1. CASE page = b
      BY <2>5, <2>6, <2>7, <2>8, <3>1 DEF OnceHeld
    <3>2. CASE page # b
      BY <2>5, <2>6, <2>7, <2>8, <3>2 DEF OnceHeld
    <3> QED
      BY <3>1, <3>2
  <2> QED
    BY <2>9, ServeBuild DEF OnceHeld
<1>16. ServeBlocks' /\ ServeIdle'
  <2>1. \A u \in ServeThreads \ {t} : /\ pc'[u] = pc[u] /\ kernel'[u] = kernel[u]
                                      /\ cq'[u] = cq[u] /\ pools'[u] = pools[u]
    BY <1>1, <1>12
  <2>2. mode' = mode /\ process' = process /\ process # "bad_alloc"
    BY DEF Serve!Running
  <2>3. ~mode.stupid /\ pc'[t] = "event_loop" => BlocksHeld(t)'
    BY <1>15
  <2>4. pc'[t] \notin {"event_loop", "queue_exit"} => kernel'[t] = <<>> /\ cq'[t] = <<>>
    OBVIOUS
  <2> QED
    BY ONLY ServeInv, t \in ServeThreads, <2>1, <2>2, <2>3, <2>4, OthersHeld
<1>17. Serve!ServesUntilClosed'
  BY DEF ServeInv, Serve!ServesUntilClosed
<1> QED
  BY <1>13, <1>14, <1>16, <1>17 DEF ServeInv

LEMMA EventLoopServes ==
  ASSUME ServeInv, NEW t \in ServeThreads, Serve!EventLoop(t)
  PROVE  ServeInv'
<1> DEFINE cqe == Head(cq[t])
<1>1. Serve!Running /\ pc[t] = "event_loop" /\ cq[t] # <<>>
  BY DEF Serve!EventLoop
<1>2. CASE Serve!EventType(cqe) = "READ_EVENT" /\ cqe.res = 0
  BY <1>1, <1>2, CloseServes DEF Serve!EventLoop
<1>3. CASE Serve!EventType(cqe) = "READ_EVENT" /\ cqe.res # 0 /\ ~Serve!Lasts(pools[t])
  <2>1. Serve!Ends("bad_alloc")
    BY <1>3 DEF Serve!EventLoop
  <2>2. UNCHANGED <<mode, pc, fds, sock, ring_fd, pools, buffers, kernel, cq, clients>>
    BY <2>1 DEF Serve!Ends
  <2>3. ~mode.stupid /\ Serve!FreeBlocks(pools[t]) = {}
    BY <1>3 DEF Serve!Lasts, Serve!CanCheckOut
  <2> QED
    BY <1>1, <2>2, <2>3, ServeStands
<1>4. CASE Serve!EventType(cqe) = "READ_EVENT" /\ cqe.res # 0 /\ Serve!Lasts(pools[t])
  BY <1>1, <1>4, AnswerServes DEF Serve!EventLoop
<1>5. CASE Serve!EventType(cqe) # "READ_EVENT"
  BY <1>1, <1>5, SentServes DEF Serve!EventLoop
<1> QED
  BY <1>2, <1>3, <1>4, <1>5

LEMMA QueueExitServes ==
  ASSUME ServeInv, NEW t \in ServeThreads, Serve!QueueExit(t)
  PROVE  ServeInv'
<1>1. /\ process \in {"accept", "wait"} /\ pc[t] = "queue_exit"
      /\ fds' = [fds EXCEPT ![ring_fd[t]] = Serve!Free]
      /\ kernel' = [kernel EXCEPT ![t] = <<>>] /\ cq' = [cq EXCEPT ![t] = <<>>]
      /\ buffers' = [buffers EXCEPT ![t] = "none"] /\ pc' = [pc EXCEPT ![t] = "finished"]
  BY DEF Serve!QueueExit, Serve!Running
<1>2. UNCHANGED <<mode, process, sock, ring_fd, pools, clients>>
  BY DEF Serve!QueueExit
<1>3. /\ pc \in [ServeThreads -> ServePcs] /\ kernel \in [ServeThreads -> Seq(TrueServeOps)]
      /\ buffers \in [ServeThreads -> {"none", "registered", "foreign", "lost"}]
      /\ fds \in [Serve!Numbers -> {Serve!Free} \cup ({"socket", "ring"} \X ServeThreads)]
      /\ \A u \in ServeThreads : cq[u] \in Seq(TrueServeCqes(clients[u].end))
      /\ DOMAIN cq = ServeThreads
  BY DEF ServeInv, ServeTypes
<1>4. pc' \in [ServeThreads -> ServePcs] /\ pc'[t] = "finished"
      /\ \A u \in ServeThreads : u # t => pc'[u] = pc[u]
  BY <1>1, <1>3 DEF ServePcs
<1>5. /\ buffers' \in [ServeThreads -> {"none", "registered", "foreign", "lost"}]
      /\ buffers'[t] = "none" /\ \A u \in ServeThreads : u # t => buffers'[u] = buffers[u]
  BY <1>1, <1>3
<1>6. /\ kernel' \in [ServeThreads -> Seq(TrueServeOps)] /\ kernel'[t] = <<>>
      /\ \A u \in ServeThreads : u # t => kernel'[u] = kernel[u]
  BY <1>1, <1>3
<1>7. /\ \A u \in ServeThreads : cq'[u] \in Seq(TrueServeCqes(clients'[u].end))
      /\ cq'[t] = <<>> /\ \A u \in ServeThreads : u # t => cq'[u] = cq[u]
      /\ DOMAIN cq' = ServeThreads /\ cq' = [u \in ServeThreads |-> cq'[u]]
  <2>1. cq = [u \in ServeThreads |-> cq[u]]
    BY DEF ServeInv, ServeTypes
  <2>2. cq'[t] = <<>> /\ \A u \in ServeThreads : u # t => cq'[u] = cq[u]
    BY <1>1, <1>3
  <2>3. DOMAIN cq' = ServeThreads /\ cq' = [u \in ServeThreads |-> cq'[u]]
    BY <1>1, <2>1
  <2>4. clients' = clients
    BY <1>2
  <2>5. \A u \in ServeThreads : cq'[u] \in Seq(TrueServeCqes(clients[u].end))
    <3>1. <<>> \in Seq(TrueServeCqes(clients[t].end))
      OBVIOUS
    <3> QED
      BY <1>3, <2>2, <3>1
  <2> QED
    BY <2>2, <2>3, <2>4, <2>5
<1>8. /\ fds' \in [Serve!Numbers -> {Serve!Free} \cup ({"socket", "ring"} \X ServeThreads)]
      /\ \A n \in Serve!Numbers : fds'[n] = IF n = ring_fd[t] THEN Serve!Free ELSE fds[n]
  BY <1>1, <1>3
<1>9. ServeTypes'
  <2>a. ServeTypes
    BY DEF ServeInv
  <2>b. TrueServeOps' = TrueServeOps /\ \A end : TrueServeCqes(end)' = TrueServeCqes(end)
    BY <1>2, ServeBuild
  <2> QED
    BY ONLY <1>2, <1>4, <1>5, <1>6, <1>7, <1>8, <2>a, <2>b DEF ServeTypes
<1>10. ServeNumbers'
  <2>1. \A n \in Serve!Numbers : fds'[n] # <<"ring", t>>
    BY <1>8, FreeOfAll DEF ServeInv, ServeNumbers, Serve!Free
  <2>2. \A n \in Serve!Numbers : fds'[n] = fds[n] \/ fds'[n] = Serve!Free
    BY <1>8
  <2>3. \A u \in ServeThreads : buffers'[u] = "lost" => buffers[u] = "lost"
    BY <1>5
  <2>4. mode.registered /\ mode.stupid => \A u \in ServeThreads : buffers'[u] # "registered"
    BY <1>5 DEF ServeInv, ServeNumbers
  <2> QED
    BY <1>1, <1>2, <1>4, <2>1, <2>2, <2>3, <2>4, NumbersStay
<1>11. ServeBlocks' /\ ServeIdle'
  BY <1>1, <1>2, <1>4, <1>6, <1>7, OthersHeld
<1>12. Serve!ServesUntilClosed'
  BY <1>1, <1>2, <1>4 DEF ServeInv, Serve!ServesUntilClosed
<1> QED
  BY <1>9, <1>10, <1>11, <1>12 DEF ServeInv

LEMMA FinishServes ==
  ASSUME ServeInv, NEW t \in ServeThreads, Serve!Finish(t)
  PROVE  ServeInv'
<1>1. /\ process \in {"accept", "wait"} /\ pc[t] = "finished"
      /\ pc' = [pc EXCEPT ![t] = "destructor"]
      /\ UNCHANGED <<mode, process, fds, sock, ring_fd, pools, buffers, kernel, cq, clients>>
  BY DEF Serve!Finish, Serve!Running
<1>2. pc' \in [ServeThreads -> ServePcs] /\ pc'[t] = "destructor"
      /\ \A u \in ServeThreads : u # t => pc'[u] = pc[u]
  BY <1>1 DEF ServeInv, ServeTypes, ServePcs
<1>3. ServeTypes'
  BY <1>1, <1>2, ServeBuild DEF ServeInv, ServeTypes
<1>4. ServeNumbers'
  <2>1. \A n \in Serve!Numbers : fds'[n] # <<"ring", t>> /\ fds'[n] = fds[n]
    BY <1>1 DEF ServeInv, ServeNumbers
  <2>2. \A u \in ServeThreads : buffers'[u] = buffers[u]
    BY <1>1
  <2>3. mode.registered /\ mode.stupid => \A u \in ServeThreads : buffers'[u] # "registered"
    BY <2>2 DEF ServeInv, ServeNumbers
  <2> QED
    BY <1>1, <1>2, <2>1, <2>2, <2>3, NumbersStay
<1>5. ServeBlocks' /\ ServeIdle'
  BY <1>1, <1>2, OthersHeld DEF ServeInv, ServeIdle
<1>6. Serve!ServesUntilClosed'
  BY <1>1, <1>2 DEF ServeInv, Serve!ServesUntilClosed
<1> QED
  BY <1>3, <1>4, <1>5, <1>6 DEF ServeInv

(* The number is no longer that of the thread's own ring, so the buffers   *)
(* that are lost are another thread's.                                     *)
LEMMA DestroyPoolServes ==
  ASSUME ServeInv, NEW t \in ServeThreads, Serve!DestroyPool(t)
  PROVE  ServeInv'
<1> DEFINE Loses(u) == /\ mode.registered /\ ~mode.stupid /\ fds[ring_fd[t]] = <<"ring", u>>
                       /\ buffers[u] = "registered"
<1>1. /\ process \in {"accept", "wait"} /\ pc[t] = "destructor"
      /\ buffers' = [u \in ServeThreads |-> IF Loses(u) THEN "lost" ELSE buffers[u]]
      /\ pc' = [pc EXCEPT ![t] = "ended"]
      /\ UNCHANGED <<mode, process, fds, sock, ring_fd, pools, kernel, cq, clients>>
  BY DEF Serve!DestroyPool, Serve!Running
<1>2. pc' \in [ServeThreads -> ServePcs] /\ pc'[t] = "ended"
      /\ \A u \in ServeThreads : u # t => pc'[u] = pc[u]
  BY <1>1 DEF ServeInv, ServeTypes, ServePcs
<1>3. \A n \in Serve!Numbers : fds[n] # <<"ring", t>>
  BY <1>1 DEF ServeInv, ServeNumbers
<1>4. ring_fd[t] \in Serve!Numbers
  BY <1>1 DEF ServeInv, ServeNumbers
<1>5. ~Loses(t)
  BY <1>3, <1>4
<1>6. /\ buffers \in [ServeThreads -> {"none", "registered", "foreign", "lost"}]
      /\ \A u \in ServeThreads : buffers'[u] = IF Loses(u) THEN "lost" ELSE buffers[u]
  BY <1>1 DEF ServeInv, ServeTypes
<1> HIDE DEF Loses
<1>7. buffers' \in [ServeThreads -> {"none", "registered", "foreign", "lost"}]
  BY <1>1, <1>6
<1>8. ServeTypes'
  BY <1>1, <1>2, <1>7, ServeBuild DEF ServeInv, ServeTypes
<1>9. ServeNumbers'
  <2>1. \A n \in Serve!Numbers : fds'[n] # <<"ring", t>> /\ fds'[n] = fds[n]
    BY <1>1, <1>3
  <2>2. \A u \in ServeThreads : buffers'[u] = "lost" =>
          buffers[u] = "lost" \/ \E v \in ServeThreads \ {u} : pc'[v] = "ended"
    <3>1. \A u \in ServeThreads : Loses(u) => t \in ServeThreads \ {u}
      BY <1>5
    <3> QED
      BY <1>2, <1>6, <3>1
  <2>3. mode.registered /\ mode.stupid => \A u \in ServeThreads : buffers'[u] # "registered"
    BY <1>6 DEF ServeInv, ServeNumbers
  <2> QED
    BY <1>1, <1>2, <2>1, <2>2, <2>3, NumbersStay
<1>10. ServeBlocks' /\ ServeIdle'
  BY <1>1, <1>2, OthersHeld DEF ServeInv, ServeIdle
<1>11. Serve!ServesUntilClosed'
  BY <1>1, <1>2 DEF ServeInv, Serve!ServesUntilClosed
<1> QED
  BY <1>8, <1>9, <1>10, <1>11 DEF ServeInv

LEMMA ClientServes ==
  ASSUME ServeInv, NEW t \in ServeThreads, Serve!Client(t)
  PROVE  ServeInv'
<1>1. /\ process \in {"accept", "wait"} /\ clients[t].end = "open"
      /\ UNCHANGED <<mode, process, pc, fds, sock, ring_fd, pools, buffers, kernel, cq>>
  BY DEF Serve!Client, Serve!Running
<1>2. /\ clients \in [ServeThreads -> [unread : Int, end : {"open", "closed", "reset"}]]
      /\ \A u \in ServeThreads : cq[u] \in Seq(TrueServeCqes(clients[u].end))
  BY DEF ServeInv, ServeTypes
<1>3. /\ clients' \in [ServeThreads -> [unread : Int, end : {"open", "closed", "reset"}]]
      /\ \A u \in ServeThreads : clients[u].end # "open" => clients'[u].end # "open"
  <2>1. CASE clients' = [clients EXCEPT ![t].unread = @ + 1]
    <3>1. clients[t].unread + 1 \in Int
      BY <1>2
    <3> QED
      BY <1>1, <1>2, <2>1, <3>1
  <2>2. CASE \E end \in {"closed", "reset"} : clients' = [clients EXCEPT ![t].end = end]
    <3>1. PICK end \in {"closed", "reset"} : clients' = [clients EXCEPT ![t].end = end]
      BY <2>2
    <3> QED
      BY <1>1, <1>2, <3>1
  <2> QED
    BY <2>1, <2>2 DEF Serve!Client
<1>4. \A u \in ServeThreads :
        TrueServeCqes(clients[u].end) \subseteq TrueServeCqes(clients'[u].end)
  BY <1>3 DEF TrueServeCqes
<1>5. \A u \in ServeThreads : cq'[u] \in Seq(TrueServeCqes(clients'[u].end))
  <2>1. cq' = cq
    BY <1>1
  <2> QED
    BY <1>2, <1>4, <2>1, SeqMonotonic
<1>6. ServeTypes'
  BY <1>1, <1>3, <1>5, ServeBuild DEF ServeInv, ServeTypes
<1>7. ServeNumbers'
  BY <1>1 DEF ServeInv, ServeNumbers, Serve!BuffersKept
<1>8. ServeBlocks' /\ ServeIdle'
  <2>1. ~mode.stupid /\ pc'[t] = "event_loop" => BlocksHeld(t)'
    BY <1>1, StillHeld DEF ServeInv, ServeBlocks
  <2> QED
    BY <1>1, <2>1, OthersHeld DEF ServeInv, ServeIdle
<1>9. Serve!ServesUntilClosed'
  BY <1>1, <1>3 DEF ServeInv, Serve!ServesUntilClosed
<1> QED
  BY <1>6, <1>7, <1>8, <1>9 DEF ServeInv

(* What an operation may come to.                                          *)
LEMMA TrueOutcomes ==
  ASSUME ServeInv, NEW t \in ServeThreads, NEW work \in TrueServeOps,
         NEW res \in Serve!Outcomes(t, work)
  PROVE  /\ [kind |-> work.kind, block |-> work.block, res |-> res] \in TrueServeCqes(clients[t].end)
         /\ work.kind = "write" /\ res > 0 /\ mode.registered => ~mode.stupid
<1>1. work.kind \in ServeKinds /\ work.block \in Serve!Blocks
  BY DEF TrueServeOps, ServeOps
<1>2. res \in {-1, 0, 1} /\ (res = 0 => work.kind = "notif" \/ clients[t].end # "open")
      /\ (work.fails => res = -1)
  <2>1. CASE work.fails
    BY <2>1 DEF Serve!Outcomes
  <2>2. CASE ~work.fails /\ work.kind = "notif"
    BY <2>2 DEF Serve!Outcomes
  <2>3. CASE ~work.fails /\ work.kind = "write"
    BY <2>3 DEF Serve!Outcomes
  <2>4. CASE ~work.fails /\ work.kind = "read"
    <3>1. res \in Serve!ReadOutcomes(clients[t])
      BY <2>4 DEF Serve!Outcomes
    <3>2. CASE clients[t].end = "reset"
      BY <2>4, <3>1, <3>2 DEF Serve!ReadOutcomes
    <3>3. CASE clients[t].end = "closed"
      BY <2>4, <3>1, <3>3 DEF Serve!ReadOutcomes
    <3>4. CASE clients[t].end = "open"
      BY <2>4, <3>1, <3>4 DEF Serve!ReadOutcomes
    <3>5. clients[t].end \in {"open", "closed", "reset"}
      BY DEF ServeInv, ServeTypes
    <3> QED
      BY <3>2, <3>3, <3>4, <3>5
  <2> QED
    BY <1>1, <2>1, <2>2, <2>3, <2>4 DEF ServeKinds
<1>3. [kind |-> work.kind, block |-> work.block, res |-> res] \in ServeCqes
  BY <1>1, <1>2 DEF ServeCqes
<1>4. work.kind = "notif" => mode.registered /\ ~mode.stupid
  BY DEF TrueServeOps
<1>5. mode.registered /\ mode.stupid => res = -1
  BY <1>2 DEF TrueServeOps
<1>6. ~(-1 > 0)
  OBVIOUS
<1> QED
  BY <1>2, <1>3, <1>4, <1>5, <1>6 DEF TrueServeCqes

LEMMA CompleteServes ==
  ASSUME ServeInv, NEW t \in ServeThreads, NEW k \in DOMAIN kernel[t], Serve!Complete(t, k)
  PROVE  ServeInv'
<1> DEFINE work == kernel[t][k]
<1>1. PICK res \in Serve!Outcomes(t, work) :
        /\ cq' = [cq EXCEPT ![t] =
                    Append(@, [kind |-> work.kind, block |-> work.block, res |-> res])]
        /\ kernel' = [kernel EXCEPT ![t] =
                        IF work.kind = "write" /\ res > 0 /\ mode.registered
                        THEN [@ EXCEPT ![k].kind = "notif"]
                        ELSE Serve!RemoveAt(@, k)]
        /\ clients' = IF work.kind = "read" /\ res > 0
                      THEN [clients EXCEPT ![t].unread = @ - 1]
                      ELSE clients
  BY DEF Serve!Complete
<1>2. process \in {"accept", "wait"}
      /\ UNCHANGED <<mode, process, pc, fds, sock, ring_fd, pools, buffers>>
  BY DEF Serve!Complete, Serve!Running
<1>3. /\ clients \in [ServeThreads -> [unread : Int, end : {"open", "closed", "reset"}]]
      /\ kernel \in [ServeThreads -> Seq(TrueServeOps)]
      /\ \A u \in ServeThreads : cq[u] \in Seq(TrueServeCqes(clients[u].end))
      /\ DOMAIN cq = ServeThreads /\ cq = [u \in ServeThreads |-> cq[u]]
      /\ mode.registered \in BOOLEAN
  BY ServeAssumption DEF ServeInv, ServeTypes
<1>4. work \in TrueServeOps /\ k \in 1 .. Len(kernel[t])
  BY <1>3, ElementOfSeq, LenProperties
<1>5. work \in ServeOps /\ work.kind \in ServeKinds /\ work.block \in Serve!Blocks
  BY <1>4 DEF TrueServeOps, ServeOps
<1> DEFINE c == [kind |-> work.kind, block |-> work.block, res |-> res]
           rest == [work EXCEPT !.kind = "notif"]
           more == work.kind = "write" /\ res > 0 /\ mode.registered
<1>6. c \in TrueServeCqes(clients[t].end) /\ c.kind = work.kind /\ c.block = work.block
      /\ c \in ServeCqes /\ (more => ~mode.stupid)
  <2>1. c \in TrueServeCqes(clients[t].end) /\ (more => ~mode.stupid)
    BY <1>1, <1>4, TrueOutcomes
  <2> QED
    BY <2>1 DEF TrueServeCqes
<1>7. more => rest \in TrueServeOps
  <2>1. rest = [kind |-> "notif", block |-> work.block, fails |-> work.fails] /\ work.fails \in BOOLEAN
    BY <1>5 DEF ServeOps
  <2> QED
    BY <1>5, <1>6, <2>1 DEF TrueServeOps, ServeOps, ServeKinds
<1>8. kernel'[t] = IF more THEN [kernel[t] EXCEPT ![k] = rest] ELSE RemoveAt(kernel[t], k)
  <2>1. Serve!RemoveAt(kernel[t], k) = RemoveAt(kernel[t], k)
    BY DEF Serve!RemoveAt, RemoveAt
  <2> QED
    BY <1>1, <1>3, <2>1
<1>9. \A T : /\ Count(kernel[t], T) = Count(RemoveAt(kernel[t], k), T) + One(work, T)
             /\ Count(RemoveAt(kernel[t], k), T) \in Nat
             /\ Count(kernel[t], T) \in Nat /\ Count(cq[t], T) \in Nat
  <2>1. kernel[t] \in Seq(TrueServeOps)
    BY <1>3
  <2>2. RemoveAt(kernel[t], k) \in Seq(TrueServeOps)
        /\ \A T : Count(kernel[t], T) = Count(RemoveAt(kernel[t], k), T) + One(work, T)
    BY <2>1, CountRemoveAt
  <2> QED
    BY <2>2, CountType, CountsAreNumbers
<1>10. /\ kernel'[t] \in Seq(TrueServeOps)
       /\ \A T : more => Count(kernel'[t], T) + One(work, T) = Count(kernel[t], T) + One(rest, T)
       /\ \A T : ~more => Count(kernel'[t], T) + One(work, T) = Count(kernel[t], T)
       /\ \A T : Count(kernel'[t], T) \in Nat
  <2>1. kernel[t] \in Seq(TrueServeOps)
    BY <1>3
  <2>2. CASE more
    <3>1. kernel'[t] = [kernel[t] EXCEPT ![k] = rest] /\ rest \in TrueServeOps
      BY <1>7, <1>8, <2>2
    <3> HIDE DEF rest, more
    <3>2. [kernel[t] EXCEPT ![k] = rest] \in Seq(TrueServeOps)
          /\ \A T : Count([kernel[t] EXCEPT ![k] = rest], T) + One(work, T)
                      = Count(kernel[t], T) + One(rest, T)
      BY <2>1, <3>1, CountReplace
    <3> QED
      BY <2>2, <3>1, <3>2, CountType
  <2>3. CASE ~more
    <3>1. kernel'[t] = RemoveAt(kernel[t], k)
      BY <1>8, <2>3
    <3> HIDE DEF more
    <3> QED
      BY <1>9, <2>1, <2>3, <3>1, CountRemoveAt
  <2> QED
    BY <2>2, <2>3
<1>11. /\ cq'[t] = Append(cq[t], c) /\ \A u \in ServeThreads : u # t => cq'[u] = cq[u]
       /\ \A u \in ServeThreads : u # t => kernel'[u] = kernel[u]
  BY <1>1, <1>3
<1>12. \A T : Count(cq'[t], T) = Count(cq[t], T) + One(c, T)
  <2>1. cq[t] \in Seq(TrueServeCqes(clients[t].end))
    BY <1>3
  <2> QED
    BY <1>6, <1>11, <2>1, CountAppend
<1>13. /\ clients' \in [ServeThreads -> [unread : Int, end : {"open", "closed", "reset"}]]
       /\ \A u \in ServeThreads : clients'[u].end = clients[u].end
  <2>1. clients[t].unread - 1 \in Int
    BY <1>3
  <2>2. CASE clients' = [clients EXCEPT ![t].unread = @ - 1]
    <3> DEFINE c1 == [clients[t] EXCEPT !.unread = @ - 1]
    <3>1. clients[t] \in [unread : Int, end : {"open", "closed", "reset"}]
      BY <1>3
    <3>2. c1 \in [unread : Int, end : {"open", "closed", "reset"}] /\ c1.end = clients[t].end
      BY <2>1, <3>1
    <3>3. clients' = [clients EXCEPT ![t] = c1]
      BY <2>2
    <3> HIDE DEF c1
    <3> QED
      BY <1>3, <3>2, <3>3
  <2>3. CASE clients' = clients
    BY <1>3, <2>3
  <2> QED
    BY <1>1, <2>2, <2>3
<1>14. ServeTypes'
  <2>1. kernel' \in [ServeThreads -> Seq(TrueServeOps)]
    <3>1. DOMAIN kernel' = ServeThreads /\ kernel' = [u \in ServeThreads |-> kernel'[u]]
      BY <1>1, <1>3
    <3> QED
      BY <1>3, <1>10, <1>11, <3>1
  <2>2. \A u \in ServeThreads : cq'[u] \in Seq(TrueServeCqes(clients'[u].end))
    <3>1. Append(cq[t], c) \in Seq(TrueServeCqes(clients[t].end))
      BY <1>3, <1>6, AppendProperties
    <3>2. cq'[t] \in Seq(TrueServeCqes(clients'[t].end))
      <4>1. cq'[t] = Append(cq[t], c) /\ clients'[t].end = clients[t].end
        BY <1>11, <1>13
      <4> HIDE DEF c
      <4> QED
        BY <3>1, <4>1
    <3>3. \A u \in ServeThreads : u # t => cq'[u] \in Seq(TrueServeCqes(clients'[u].end))
      BY <1>3, <1>11, <1>13
    <3> QED
      BY <3>2, <3>3
  <2>3. DOMAIN cq' = ServeThreads /\ cq' = [u \in ServeThreads |-> cq'[u]]
    BY <1>1, <1>3
  <2> QED
    BY <1>2, <1>13, <2>1, <2>2, <2>3, ServeBuild DEF ServeInv, ServeTypes
<1>15. ServeNumbers'
  BY <1>2 DEF ServeInv, ServeNumbers, Serve!BuffersKept
<1>16. ASSUME ~mode.stupid, pc[t] = "event_loop"
       PROVE  BlocksHeld(t)'
  <2> SUFFICES ASSUME NEW b \in Serve!Blocks
               PROVE  OnceHeld(Holding(t, ReadsOf(b)), Holding(t, SendsOf(b)),
                               pools[t].state[b])'
    BY DEF BlocksHeld
  <2>1. OnceHeld(Holding(t, ReadsOf(b)), Holding(t, SendsOf(b)), pools[t].state[b])
    BY <1>16 DEF ServeInv, ServeBlocks, BlocksHeld
  <2>2. /\ Holding(t, ReadsOf(b))' = Count(kernel'[t], ReadsOf(b)) + Count(cq'[t], ReadsOf(b))
        /\ Holding(t, SendsOf(b))' = Count(kernel'[t], SendsOf(b)) + Count(cq'[t], SendsOf(b))
    BY <1>2, ServeBuild DEF Holding
  <2>3. One(c, ReadsOf(b)) = One(work, ReadsOf(b)) /\ One(c, SendsOf(b)) = One(work, SendsOf(b))
    BY <1>5, <1>6 DEF One, ReadsOf, SendsOf
  <2>4. more => /\ One(work, ReadsOf(b)) = 0 /\ One(rest, ReadsOf(b)) = 0
                /\ One(work, SendsOf(b)) = (IF work.block = b THEN 1 ELSE 0)
                /\ One(rest, SendsOf(b)) = (IF work.block = b THEN 1 ELSE 0)
    BY <1>5, <1>7 DEF One, ReadsOf, SendsOf, TrueServeOps, ServeOps
  <2>5. One(work, ReadsOf(b)) \in {0, 1} /\ One(work, SendsOf(b)) \in {0, 1}
    BY DEF One
  <2> DEFINE kr == Count(kernel[t], ReadsOf(b))
             ks == Count(kernel[t], SendsOf(b))
             cr == Count(cq[t], ReadsOf(b))
             cs == Count(cq[t], SendsOf(b))
             nr == Count(kernel'[t], ReadsOf(b))
             ns == Count(kernel'[t], SendsOf(b))
             sent_before == One(work, SendsOf(b))
             read_before == One(work, ReadsOf(b))
  <2>6. /\ Holding(t, ReadsOf(b)) = kr + cr /\ Holding(t, SendsOf(b)) = ks + cs
        /\ Holding(t, ReadsOf(b))' = nr + (cr + read_before)
        /\ Holding(t, SendsOf(b))' = ns + (cs + sent_before)
    BY <1>12, <2>2, <2>3 DEF Holding
  <2>7. kr \in Nat /\ ks \in Nat /\ cr \in Nat /\ cs \in Nat /\ nr \in Nat /\ ns \in Nat
    BY <1>9, <1>10
  <2>8. pools'[t].state[b] = pools[t].state[b]
    BY <1>2
  <2>9. CASE ~more
    <3>1. nr + read_before = kr /\ ns + sent_before = ks
      BY <1>10, <2>9
    <3> HIDE DEF kr, ks, cr, cs, nr, ns, sent_before, read_before
    <3>2. /\ Holding(t, ReadsOf(b))' = Holding(t, ReadsOf(b))
          /\ Holding(t, SendsOf(b))' = Holding(t, SendsOf(b))
      BY <2>5, <2>6, <2>7, <3>1 DEF sent_before, read_before
    <3>3. OnceHeld(Holding(t, ReadsOf(b))', Holding(t, SendsOf(b))', pools'[t].state[b])
      BY <2>1, <2>8, <3>2
    <3> QED
      BY <1>2, <3>3, ServeBuild DEF OnceHeld
  <2>10. CASE more
    <3>1. /\ nr + 0 = kr + 0 /\ read_before = 0
          /\ ns + sent_before = ks + sent_before /\ sent_before = (IF work.block = b THEN 1 ELSE 0)
      BY <1>10, <2>4, <2>10
    <3>2. sent_before <= ks
      <4>1. ks = Count(RemoveAt(kernel[t], k), SendsOf(b)) + sent_before
            /\ Count(RemoveAt(kernel[t], k), SendsOf(b)) \in Nat
        BY <1>9
      <4> DEFINE others == Count(RemoveAt(kernel[t], k), SendsOf(b))
      <4> HIDE DEF others, ks, sent_before
      <4> QED
        BY <2>5, <4>1 DEF others, sent_before
    <3> HIDE DEF kr, ks, cr, cs, nr, ns, sent_before, read_before
    <3>3. /\ Holding(t, ReadsOf(b))' = Holding(t, ReadsOf(b))
          /\ Holding(t, SendsOf(b))' = Holding(t, SendsOf(b)) + sent_before
          /\ sent_before <= Holding(t, SendsOf(b)) /\ sent_before \in {0, 1}
          /\ Holding(t, SendsOf(b)) \in Nat /\ Holding(t, ReadsOf(b)) \in Nat
      BY <2>6, <2>7, <3>1, <3>2
    <3>4. OnceHeld(Holding(t, ReadsOf(b))', Holding(t, SendsOf(b))', pools'[t].state[b])
      BY <2>1, <2>8, <2>10, <3>3 DEF OnceHeld
    <3> QED
      BY <1>2, <3>4, ServeBuild DEF OnceHeld
  <2> QED
    BY <2>9, <2>10
<1>17. ServeBlocks' /\ ServeIdle'
  <2>1. kernel[t] # <<>>
    BY <1>4
  <2>2. pc[t] \in {"event_loop", "queue_exit"}
    BY <2>1 DEF ServeInv, ServeIdle
  <2> QED
    BY <1>2, <1>11, <1>16, <2>2, OthersHeld
<1>18. Serve!ServesUntilClosed'
  BY <1>2, <1>13 DEF ServeInv, Serve!ServesUntilClosed
<1> QED
  BY <1>14, <1>15, <1>17, <1>18 DEF ServeInv

LEMMA NextKeepsServe ==
  ASSUME ServeInv, [Serve!Next]_Serve!server
  PROVE  ServeInv'
<1>1. CASE Serve!Main
  BY <1>1, MainKeeps
<1>2. CASE UNCHANGED Serve!server
  BY <1>2, ServeStands DEF Serve!server
<1>3. ASSUME NEW t \in ServeThreads, Serve!Accept(t)
      PROVE  ServeInv'
  BY <1>3, AcceptServes
<1>4. ASSUME NEW t \in ServeThreads, Serve!Thread(t)
      PROVE  ServeInv'
  <2>1. CASE Serve!QueueInit(t)
    BY <2>1, QueueInitServes
  <2>2. CASE Serve!MakePool(t)
    BY <2>2, MakePoolServes
  <2>3. CASE Serve!EventLoop(t)
    BY <2>3, EventLoopServes
  <2>4. CASE Serve!QueueExit(t)
    BY <2>4, QueueExitServes
  <2>5. CASE Serve!Finish(t)
    BY <2>5, FinishServes
  <2>6. CASE Serve!DestroyPool(t)
    BY <2>6, DestroyPoolServes
  <2> QED
    BY <1>4, <2>1, <2>2, <2>3, <2>4, <2>5, <2>6 DEF Serve!Thread
<1>5. ASSUME NEW t \in ServeThreads, Serve!Client(t)
      PROVE  ServeInv'
  BY <1>5, ClientServes
<1>6. ASSUME NEW t \in ServeThreads, NEW k \in DOMAIN kernel[t], Serve!Complete(t, k)
      PROVE  ServeInv'
  BY <1>6, CompleteServes
<1> QED
  BY <1>1, <1>2, <1>3, <1>4, <1>5, <1>6 DEF Serve!Next, Serve!Terminated

(* What a thread has under way, block by block.                            *)
LEMMA HeldBlocks ==
  ASSUME ServeInv, NEW t \in ServeThreads, BlocksHeld(t)
  PROVE  LET held == Serve!Held(t)
         IN  /\ \A x \in DOMAIN held : held[x].block \in Serve!Blocks
             /\ \A b \in Serve!Blocks : pools[t].state[b] = "CheckedOut" =>
                  \E x \in DOMAIN held : held[x].block = b
             /\ \A x, j \in DOMAIN held :
                  held[x].kind = "read" \/ ~mode.registered =>
                    /\ pools[t].state[held[x].block] = "CheckedOut"
                    /\ x # j => held[x].block # held[j].block
<1> DEFINE held == Serve!Held(t)
           All == ServeOps \cup ServeCqes
<1>1. held \in Seq(All) /\ \A T : Count(held, T) = Holding(t, T)
  <2>1. kernel[t] \in Seq(TrueServeOps) /\ cq[t] \in Seq(TrueServeCqes(clients[t].end))
    BY DEF ServeInv, ServeTypes
  <2>2. TrueServeOps \subseteq All /\ TrueServeCqes(clients[t].end) \subseteq All
    BY DEF TrueServeOps, TrueServeCqes
  <2> HIDE DEF All
  <2>3. kernel[t] \in Seq(All) /\ cq[t] \in Seq(All)
    BY <2>1, <2>2, SeqMonotonic
  <2>4. held = kernel[t] \o cq[t]
    BY DEF Serve!Held
  <2>5. held \in Seq(All)
    BY <2>3, <2>4, ConcatProperties
  <2>6. \A T : Count(kernel[t] \o cq[t], T) = Count(kernel[t], T) + Count(cq[t], T)
    BY <2>3, CountConcat
  <2> QED
    BY <2>4, <2>5, <2>6 DEF Holding
<1> HIDE DEF held
<1>2. \A x \in DOMAIN held : held[x] \in All /\ held[x].block \in Serve!Blocks
  <2>1. \A x \in DOMAIN held : held[x] \in All
    BY <1>1, ElementOfSeq, LenProperties
  <2> QED
    BY <2>1 DEF ServeOps, ServeCqes
<1>3. \A b \in Serve!Blocks :
        /\ OnceHeld(Count(held, ReadsOf(b)), Count(held, SendsOf(b)), pools[t].state[b])
        /\ Count(held, ReadsOf(b)) \in Nat /\ Count(held, SendsOf(b)) \in Nat
  <2>1. \A T : Count(held, T) \in Nat
    BY <1>1, CountType
  <2> QED
    BY <1>1, <2>1 DEF BlocksHeld
<1>4. \A x \in DOMAIN held :
        /\ held[x].kind = "read" => held[x] \in ReadsOf(held[x].block)
        /\ held[x].kind # "read" => held[x] \in SendsOf(held[x].block)
  BY <1>2 DEF ReadsOf, SendsOf
<1>5. \A T : (\E x \in DOMAIN held : held[x] \in T) => Count(held, T) # 0
  BY <1>1, CountFound
<1>6. ASSUME NEW b \in Serve!Blocks, pools[t].state[b] = "CheckedOut"
      PROVE  \E x \in DOMAIN held : held[x].block = b
  <2>1. Count(held, ReadsOf(b)) # 0 \/ Count(held, SendsOf(b)) # 0
    BY <1>3, <1>6 DEF OnceHeld
  <2>2. \E x \in DOMAIN held : held[x] \in ReadsOf(b) \/ held[x] \in SendsOf(b)
    BY <1>1, <2>1, CountFound
  <2> QED
    BY <2>2 DEF ReadsOf, SendsOf
<1>7. ASSUME NEW x \in DOMAIN held, NEW j \in DOMAIN held,
             held[x].kind = "read" \/ ~mode.registered
      PROVE  /\ pools[t].state[held[x].block] = "CheckedOut"
             /\ x # j => held[x].block # held[j].block
  <2> DEFINE b == held[x].block
             reads == Count(held, ReadsOf(b))
             sends == Count(held, SendsOf(b))
  <2>1. b \in Serve!Blocks /\ reads \in Nat /\ sends \in Nat
        /\ OnceHeld(reads, sends, pools[t].state[b])
    BY <1>2, <1>3
  <2>2. \A T : Count(held, T) <= 1 <=>
                 \A k, m \in DOMAIN held : held[k] \in T /\ held[m] \in T => k = m
    BY <1>1, CountAtMostOne
  <2>3. ASSUME x # j, held[j].block = b
        PROVE  FALSE
    <3>1. held[j] \in ReadsOf(b) \/ held[j] \in SendsOf(b)
      BY <1>4, <2>3
    <3>2. CASE held[x].kind = "read"
      <4>1. held[x] \in ReadsOf(b)
        BY <1>4, <3>2
      <4>2. reads # 0 /\ reads <= 1 /\ sends = 0
        <5>1. reads # 0
          BY <1>5, <4>1
        <5> HIDE DEF reads, sends
        <5> QED
          BY <2>1, <5>1 DEF OnceHeld
      <4>3. held[j] \in ReadsOf(b)
        BY <1>5, <3>1, <4>2
      <4> QED
        BY <2>2, <2>3, <4>1, <4>2, <4>3
    <3>3. CASE held[x].kind # "read"
      <4>1. held[x] \in SendsOf(b)
        BY <1>4, <3>3
      <4>2. sends # 0 /\ sends <= 1 /\ reads = 0
        <5>1. sends # 0
          BY <1>5, <4>1
        <5> HIDE DEF reads, sends
        <5> QED
          BY <1>7, <2>1, <3>3, <5>1 DEF OnceHeld
      <4>3. held[j] \in SendsOf(b)
        BY <1>5, <3>1, <4>2
      <4> QED
        BY <2>2, <2>3, <4>1, <4>2, <4>3
    <3> QED
      BY <3>2, <3>3
  <2>4. pools[t].state[b] = "CheckedOut"
    <3>1. reads # 0 \/ (~mode.registered /\ sends # 0)
      BY <1>4, <1>5, <1>7
    <3> HIDE DEF reads, sends
    <3> QED
      BY <2>1, <3>1 DEF OnceHeld
  <2> QED
    BY <2>3, <2>4
<1> QED
  BY <1>2, <1>6, <1>7 DEF held

LEMMA ServeAgrees ==
  ASSUME ServeInv
  PROVE  /\ Serve!BlocksOwned /\ Serve!PoolRunsOutOnlyInUse
         /\ Serve!ServesUntilClosed /\ Serve!BuffersKept
<1>1. Serve!BlocksOwned
  <2> SUFFICES ASSUME NEW t \in ServeThreads, pc[t] = "event_loop", ~mode.stupid,
                      NEW x \in DOMAIN Serve!Held(t), NEW j \in DOMAIN Serve!Held(t)
               PROVE  /\ x # j /\ (~mode.registered \/ Serve!Held(t)[x].kind = "read") =>
                           Serve!Held(t)[x].block # Serve!Held(t)[j].block
                      /\ Serve!Held(t)[x].kind = "read" \/ ~mode.registered =>
                           pools[t].state[Serve!Held(t)[x].block] = "CheckedOut"
    BY DEF Serve!BlocksOwned
  <2>1. BlocksHeld(t)
    BY DEF ServeInv, ServeBlocks
  <2> QED
    BY <2>1, HeldBlocks
<1>2. Serve!PoolRunsOutOnlyInUse
  <2> SUFFICES ASSUME process = "bad_alloc"
               PROVE  \E t \in ServeThreads :
                        {Serve!Held(t)[x].block : x \in DOMAIN Serve!Held(t)} = Serve!Blocks
    BY DEF Serve!PoolRunsOutOnlyInUse
  <2>1. PICK t \in ServeThreads : /\ pc[t] = "event_loop" /\ ~mode.stupid
                                  /\ Serve!FreeBlocks(pools[t]) = {}
    BY DEF ServeInv, ServeBlocks
  <2>2. BlocksHeld(t)
    BY <2>1 DEF ServeInv, ServeBlocks
  <2>3. \A b \in Serve!Blocks : pools[t].state[b] = "CheckedOut"
    <3>1. pools[t] \in Serve!Pools
      BY DEF ServeInv, ServeTypes
    <3> QED
      BY <2>1, <3>1 DEF Serve!Pools, Serve!BufferStates, Serve!FreeBlocks
  <2>4. /\ \A x \in DOMAIN Serve!Held(t) : Serve!Held(t)[x].block \in Serve!Blocks
        /\ \A b \in Serve!Blocks : \E x \in DOMAIN Serve!Held(t) : Serve!Held(t)[x].block = b
    BY <2>2, <2>3, HeldBlocks
  <2> QED
    BY <2>4
<1> QED
  BY <1>1, <1>2 DEF ServeInv, ServeNumbers

(* BuffersServe, whatever the sizes of the pool and of the ring and the    *)
(* number of clients: no read shares its block, the pool of a thread runs  *)
(* out only when all of its blocks are in use, a thread serves until its   *)
(* client has gone (simple_iou_server.cpp:87), and buffers are lost only   *)
(* to a thread that has ended (157, buffer_pool.hpp:111).                  *)
THEOREM BuffersAlwaysServe == ProgramSpec => []BuffersServe
<1> DEFINE I == program = "serve" => ServeInv
<1>1. ProgramInit => I
  BY InitOf, InitServe
<1>2. I /\ [ProgramNext]_programs => I'
  BY Dispatch, NextKeepsServe
<1>3. I => BuffersServe
  BY ServeAgrees DEF BuffersServe
<1> QED
  BY <1>1, <1>2, <1>3, PTL DEF ProgramSpec

(***************************************************************************)
(* The benchmark run (BenchmarkRun): what is saved and loaded again.       *)
(***************************************************************************)

(* A function on the numbers that is given by its first value and a step.  *)
Iterated(f, first_value, step, n) ==
  f = [k \in 0 .. n |-> IF k = 0 THEN first_value ELSE step[f[k - 1]]]

IteratedOn(f, first_value, step) ==
  f = [n \in Nat |-> IF n = 0 THEN first_value ELSE step[f[n - 1]]]

LEMMA IteratesOn ==
  ASSUME NEW n \in Nat, NEW f, NEW v, NEW step, Iterated(f, v, step, n)
  PROVE  \E g : Iterated(g, v, step, n + 1)
<1> DEFINE g == [k \in 0 .. n + 1 |-> IF k = 0 THEN v ELSE step[f[k - 1]]]
<1>1. \A k \in 0 .. n : k \in 0 .. n + 1
  OBVIOUS
<1>2. \A k \in 0 .. n : f[k] = g[k]
  BY <1>1 DEF Iterated
<1>3. \A k \in 0 .. n + 1 : k # 0 => k - 1 \in 0 .. n
  OBVIOUS
<1>4. \A k \in 0 .. n + 1 : k # 0 => f[k - 1] = g[k - 1]
  BY <1>2, <1>3
<1>5. g = [k \in 0 .. n + 1 |-> IF k = 0 THEN v ELSE step[g[k - 1]]]
  BY <1>4
<1> QED
  BY <1>5 DEF Iterated

LEMMA IteratesAgree ==
  ASSUME NEW n \in Nat, NEW m \in Nat, NEW f, NEW g, NEW v, NEW step,
         Iterated(f, v, step, n), Iterated(g, v, step, m)
  PROVE  \A k \in Nat : k <= n /\ k <= m => f[k] = g[k]
<1> DEFINE Same == {k \in Nat : k <= n /\ k <= m => f[k] = g[k]}
<1>1. /\ f[0] = v /\ \A k \in 0 .. n : k # 0 => f[k] = step[f[k - 1]]
      /\ g[0] = v /\ \A k \in 0 .. m : k # 0 => g[k] = step[g[k - 1]]
  <2>1. 0 \in 0 .. n /\ 0 \in 0 .. m
    OBVIOUS
  <2> QED
    BY <2>1 DEF Iterated
<1>2. 0 \in Same
  BY <1>1
<1>3. ASSUME NEW k \in Same
      PROVE  k + 1 \in Same
  <2> SUFFICES ASSUME k + 1 <= n, k + 1 <= m
               PROVE  f[k + 1] = g[k + 1]
    OBVIOUS
  <2>1. k + 1 \in 0 .. n /\ k + 1 \in 0 .. m /\ k + 1 # 0 /\ (k + 1) - 1 = k /\ k <= n /\ k <= m
    OBVIOUS
  <2>2. f[k + 1] = step[f[k]] /\ g[k + 1] = step[g[k]]
    BY <1>1, <2>1
  <2> QED
    BY <1>3, <2>1, <2>2
<1>4. Same \in SUBSET Nat
  OBVIOUS
<1> HIDE DEF Same
<1>5. \A k \in Nat : k \in Same
  BY <1>2, <1>3, <1>4, AllNumbers
<1> QED
  BY <1>5 DEF Same

LEMMA IteratesExist ==
  ASSUME NEW v, NEW step
  PROVE  \E f : IteratedOn(f, v, step)
<1> DEFINE Can == {n \in Nat : \E g : Iterated(g, v, step, n)}
<1>1. 0 \in Can
  <2> DEFINE g == [k \in 0 .. 0 |-> v]
  <2>1. \A k \in 0 .. 0 : k = 0
    OBVIOUS
  <2>2. Iterated(g, v, step, 0)
    BY <2>1 DEF Iterated
  <2> QED
    BY <2>2
<1>2. \A n \in Can : n + 1 \in Can
  BY IteratesOn
<1>3. Can \in SUBSET Nat
  OBVIOUS
<1> HIDE DEF Can
<1>4. \A n \in Nat : n \in Can
  BY <1>1, <1>2, <1>3, AllNumbers
<1> DEFINE run_to(n) == CHOOSE g : Iterated(g, v, step, n)
           f == [n \in Nat |-> run_to(n)[n]]
<1>5. \A n \in Nat : Iterated(run_to(n), v, step, n)
  BY <1>4 DEF Can
<1>6. f[0] = v
  <2>1. Iterated(run_to(0), v, step, 0) /\ 0 \in 0 .. 0
    BY <1>5
  <2> HIDE DEF run_to
  <2> QED
    BY <2>1 DEF Iterated
<1>7. ASSUME NEW n \in Nat, n # 0
      PROVE  f[n] = step[f[n - 1]]
  <2>1. n - 1 \in Nat /\ n - 1 <= n /\ n - 1 <= n - 1 /\ n \in 0 .. n
    BY <1>7
  <2>2. Iterated(run_to(n), v, step, n) /\ Iterated(run_to(n - 1), v, step, n - 1)
    BY <1>5, <2>1
  <2> HIDE DEF run_to
  <2>3. run_to(n)[n] = step[run_to(n)[n - 1]]
    BY <1>7, <2>1, <2>2 DEF Iterated
  <2>4. run_to(n)[n - 1] = run_to(n - 1)[n - 1]
    BY <2>1, <2>2, IteratesAgree
  <2> QED
    BY <2>1, <2>3, <2>4
<1>8. f = [n \in Nat |-> IF n = 0 THEN v ELSE step[f[n - 1]]]
  <2>1. f = [n \in Nat |-> f[n]]
    OBVIOUS
  <2> HIDE DEF f
  <2> QED
    BY <1>6, <1>7, <2>1
<1> HIDE DEF f
<1> QED
  BY <1>8 DEF IteratedOn

LEMMA PowerUnfolds ==
  ASSUME NEW base \in Int
  PROVE  /\ Run!Power(base, 0) = 1
         /\ \A n \in Nat : /\ Run!Power(base, n) \in Int
                           /\ Run!Power(base, n + 1) = base * Run!Power(base, n)
<1> DEFINE step == [x \in Int |-> base * x]
           Is(f) == f = [k \in Nat |-> IF k = 0 THEN 1 ELSE base * f[k - 1]]
<1>0. PICK f : IteratedOn(f, 1, step)
  <2> HIDE DEF step
  <2> QED
    BY IteratesExist
<1>1. f = [n \in Nat |-> IF n = 0 THEN 1 ELSE step[f[n - 1]]]
  <2> HIDE DEF step
  <2> QED
    BY <1>0 DEF IteratedOn
<1>2. \A n \in Nat : n + 1 \in Nat /\ n + 1 # 0 /\ (n + 1) - 1 = n
  OBVIOUS
<1>3. f[0] = 1 /\ \A n \in Nat : f[n + 1] = step[f[n]]
  <2> HIDE DEF step
  <2> QED
    BY <1>1, <1>2
<1>4. \A n \in Nat : f[n] \in Int
  <2> DEFINE Good == {n \in Nat : f[n] \in Int}
  <2>0. \A x \in Int : step[x] \in Int
    OBVIOUS
  <2>1. 0 \in Good /\ \A n \in Good : n + 1 \in Good
    <3> HIDE DEF step
    <3> QED
      BY <1>3, <2>0
  <2>2. Good \in SUBSET Nat
    OBVIOUS
  <2> HIDE DEF Good
  <2>3. \A n \in Nat : n \in Good
    BY <2>1, <2>2, AllNumbers
  <2> QED
    BY <2>3 DEF Good
<1>5. Is(f)
  <2>1. \A k \in Nat : k # 0 => k - 1 \in Nat
    OBVIOUS
  <2>2. \A k \in Nat : k # 0 => step[f[k - 1]] = base * f[k - 1]
    BY <1>4, <2>1
  <2> HIDE DEF step
  <2> QED
    BY <1>1, <2>2
<1> DEFINE power == CHOOSE g : Is(g)
<1>6. Is(power)
  BY <1>5
<1>7. \A n : Run!Power(base, n) = power[n]
  BY DEF Run!Power
<1> HIDE DEF power
<1>8. power[0] = 1 /\ \A n \in Nat : power[n + 1] = base * power[n]
  BY <1>2, <1>6
<1>9. \A n \in Nat : power[n] \in Int
  <2> DEFINE Good == {n \in Nat : power[n] \in Int}
  <2>1. 0 \in Good /\ \A n \in Good : n + 1 \in Good
    BY <1>8
  <2>2. Good \in SUBSET Nat
    OBVIOUS
  <2> HIDE DEF Good
  <2>3. \A n \in Nat : n \in Good
    BY <2>1, <2>2, AllNumbers
  <2> QED
    BY <2>3 DEF Good
<1> QED
  BY <1>7, <1>8, <1>9

LEMMA PowerGrows ==
  ASSUME NEW base \in Int, NEW n \in Nat, NEW v \in Int
  PROVE  /\ v * Run!Power(base, 0) = v
         /\ v * Run!Power(base, n) \in Int
         /\ (v * Run!Power(base, n)) * base = v * Run!Power(base, n + 1)
<1> DEFINE p == Run!Power(base, n)
<1>1. p \in Int /\ Run!Power(base, n + 1) = base * p /\ Run!Power(base, 0) = 1
  BY PowerUnfolds
<1> HIDE DEF p
<1>2. (v * p) * base = v * (base * p) /\ v * p \in Int /\ v * 1 = v
  BY <1>1
<1> QED
  BY <1>1, <1>2 DEF p

RunKeys == {"QUEUE_DEPTH", "INFLIGHT_OPS", "THREAD_COUNT", "CONNECTIONS_PER_THREAD", "PORT",
            "HALF_DUPLEX_MODE"}

RunConfigs ==
  [QUEUE_DEPTH : Int, INFLIGHT_OPS : Int, THREAD_COUNT : Int, CONNECTIONS_PER_THREAD : Int,
   PORT : Int, HALF_DUPLEX_MODE : {0, 1}]

(* The configuration first, scaled n times more. *)
Again(n) ==
  LET again == Run!Power(first.CONNECTIONS_PER_THREAD, n)
  IN  [first EXCEPT !.QUEUE_DEPTH = @ * again, !.INFLIGHT_OPS = @ * again]

(* What was saved was scaled as often as a run can have been repeated.     *)
RunInv ==
  /\ runs \in Nat
  /\ runs = 0 => pc = "load" /\ env \in Environments /\ saved = Run!None
  /\ runs > 0 =>
       /\ first \in RunConfigs \/ pc = "threw"
       /\ pc = "load" => \E n \in 0 .. runs - 1 : env = Again(n)
       /\ pc \in {"join", "save", "ended"} =>
            \E n \in IF runs = 1 THEN {0} ELSE 1 .. runs - 1 : config = Again(n)
       /\ saved = Run!None \/ \E n \in 0 .. runs - 1 : saved = Again(n)

LEMMA InitRun == ASSUME Run!Init PROVE RunInv
BY DEF Run!Init, RunInv

RunConfig(depth, ops, threads, conns, port, half) ==
  [QUEUE_DEPTH |-> depth, INFLIGHT_OPS |-> ops, THREAD_COUNT |-> threads,
   CONNECTIONS_PER_THREAD |-> conns, PORT |-> port, HALF_DUPLEX_MODE |-> half]

Changed(made, d, o) == [made EXCEPT !.QUEUE_DEPTH = d, !.INFLIGHT_OPS = o]

(* What becomes of a configuration whose two products are replaced.        *)
ConfigIsChanged ==
  \A depth, ops, threads, conns, port, half :
    LET made == RunConfig(depth, ops, threads, conns, port, half)
    IN  /\ made.QUEUE_DEPTH = depth /\ made.INFLIGHT_OPS = ops
        /\ made.CONNECTIONS_PER_THREAD = conns
        /\ \A d, o : Changed(made, d, o) = RunConfig(d, o, threads, conns, port, half)

LEMMA ConfigChanged == ConfigIsChanged
<1> SUFFICES ASSUME NEW depth, NEW ops, NEW threads, NEW conns, NEW port, NEW half
             PROVE  LET made == RunConfig(depth, ops, threads, conns, port, half)
                    IN  /\ made.QUEUE_DEPTH = depth /\ made.INFLIGHT_OPS = ops
                        /\ made.CONNECTIONS_PER_THREAD = conns
                        /\ \A d, o : Changed(made, d, o) = RunConfig(d, o, threads, conns, port, half)
  BY DEF ConfigIsChanged
<1> DEFINE made == RunConfig(depth, ops, threads, conns, port, half)
<1>1. /\ made.QUEUE_DEPTH = depth /\ made.INFLIGHT_OPS = ops
      /\ made.CONNECTIONS_PER_THREAD = conns
  BY DEF RunConfig
<1>2. ASSUME NEW d, NEW o
      PROVE  Changed(made, d, o) = RunConfig(d, o, threads, conns, port, half)
  <2> DEFINE deeper == [made EXCEPT !.QUEUE_DEPTH = d]
  <2>1. DOMAIN made = RunKeys
    BY DEF RunConfig, RunKeys
  <2>2. /\ made.THREAD_COUNT = threads /\ made.PORT = port /\ made.HALF_DUPLEX_MODE = half
    BY DEF RunConfig
  <2>3. deeper = [key \in RunKeys |-> IF key = "QUEUE_DEPTH" THEN d ELSE made[key]]
    <3> HIDE DEF made
    <3> QED
      BY <2>1
  <2>4. Changed(made, d, o) = [key \in RunKeys |-> IF key = "INFLIGHT_OPS" THEN o ELSE deeper[key]]
    <3>1. DOMAIN deeper = RunKeys
      BY <2>3
    <3>2. Changed(made, d, o) = [deeper EXCEPT !.INFLIGHT_OPS = o]
      BY DEF Changed
    <3> HIDE DEF deeper
    <3> QED
      BY <3>1, <3>2
  <2> DEFINE new == RunConfig(d, o, threads, conns, port, half)
  <2>5. new = [key \in RunKeys |-> new[key]]
    BY DEF RunConfig, RunKeys
  <2>6. /\ new.QUEUE_DEPTH = d /\ new.INFLIGHT_OPS = o /\ new.THREAD_COUNT = threads
        /\ new.CONNECTIONS_PER_THREAD = conns /\ new.PORT = port /\ new.HALF_DUPLEX_MODE = half
    BY DEF RunConfig
  <2> HIDE DEF made, new
  <2>7. \A key \in RunKeys :
          (IF key = "INFLIGHT_OPS" THEN o ELSE deeper[key]) = new[key]
    <3>1. \A key \in RunKeys : deeper[key] = IF key = "QUEUE_DEPTH" THEN d ELSE made[key]
      BY <2>3
    <3> HIDE DEF deeper
    <3> QED
      BY <1>1, <2>2, <2>6, <3>1 DEF RunKeys
  <2> HIDE DEF deeper
  <2>8. Changed(made, d, o) = new
    BY <2>4, <2>5, <2>7
  <2> QED
    BY <2>8 DEF new, made
<1> QED
  BY <1>1, <1>2

LEMMA AgainOnce ==
  ASSUME first \in RunConfigs
  PROVE  /\ Again(0) = first
         /\ \A n \in Nat :
              /\ Again(n) \in RunConfigs
              /\ Again(n).CONNECTIONS_PER_THREAD = first.CONNECTIONS_PER_THREAD
              /\ Run!Scaled(Again(n)) = Again(n + 1)
<1> DEFINE base == first.CONNECTIONS_PER_THREAD
           depth == first.QUEUE_DEPTH
           ops == first.INFLIGHT_OPS
           Made(d, o) == RunConfig(d, o, first.THREAD_COUNT, base, first.PORT,
                                   first.HALF_DUPLEX_MODE)
<1>1. base \in Int /\ depth \in Int /\ ops \in Int
  BY DEF RunConfigs
<1>2. first = Made(depth, ops)
  BY DEF RunConfigs, RunConfig
<1>3. \A d \in Int, o \in Int : Made(d, o) \in RunConfigs
  BY <1>1 DEF RunConfigs, RunConfig
<1>4. \A d, o, x, y : Changed(Made(d, o), x, y) = Made(x, y)
  <2> HIDE DEF base
  <2> QED
    BY ConfigChanged DEF ConfigIsChanged
<1>5. \A d, o : /\ Made(d, o).QUEUE_DEPTH = d /\ Made(d, o).INFLIGHT_OPS = o
                /\ Made(d, o).CONNECTIONS_PER_THREAD = base
  <2> HIDE DEF base
  <2> QED
    BY ConfigChanged DEF ConfigIsChanged
<1>6. ASSUME NEW n
      PROVE  Again(n) = Changed(first, depth * Run!Power(base, n), ops * Run!Power(base, n))
  BY DEF Again, Changed
<1>7. /\ depth * Run!Power(base, 0) = depth /\ ops * Run!Power(base, 0) = ops
      /\ \A n \in Nat : /\ depth * Run!Power(base, n) \in Int /\ ops * Run!Power(base, n) \in Int
                        /\ (depth * Run!Power(base, n)) * base = depth * Run!Power(base, n + 1)
                        /\ (ops * Run!Power(base, n)) * base = ops * Run!Power(base, n + 1)
  <2> HIDE DEF base, depth, ops
  <2> QED
    BY <1>1, PowerGrows
<1> HIDE DEF base, depth, ops, Made
<1>8. \A n : Again(n) = Made(depth * Run!Power(base, n), ops * Run!Power(base, n))
  BY <1>2, <1>4, <1>6
<1>9. ASSUME NEW d, NEW o
      PROVE  Run!Scaled(Made(d, o)) = Made(d * base, o * base)
  <2> DEFINE made == Made(d, o)
  <2>1. /\ made.QUEUE_DEPTH = d /\ made.INFLIGHT_OPS = o /\ made.CONNECTIONS_PER_THREAD = base
        /\ Changed(made, d * base, o * base) = Made(d * base, o * base)
    BY <1>4, <1>5
  <2> HIDE DEF made
  <2>2. Run!Scaled(made) = Changed(made, made.QUEUE_DEPTH * made.CONNECTIONS_PER_THREAD,
                                         made.INFLIGHT_OPS * made.CONNECTIONS_PER_THREAD)
    BY DEF Run!Scaled, Changed
  <2> QED
    BY <2>1, <2>2 DEF made
<1>10. Again(0) = first
  <2>1. Again(0) = Made(depth * Run!Power(base, 0), ops * Run!Power(base, 0))
    BY <1>8
  <2> QED
    BY <1>2, <1>7, <2>1
<1>11. ASSUME NEW n \in Nat
       PROVE  /\ Again(n) \in RunConfigs /\ Again(n).CONNECTIONS_PER_THREAD = base
              /\ Run!Scaled(Again(n)) = Again(n + 1)
  <2> DEFINE x == depth * Run!Power(base, n)
             y == ops * Run!Power(base, n)
  <2>1. /\ x \in Int /\ y \in Int
        /\ x * base = depth * Run!Power(base, n + 1) /\ y * base = ops * Run!Power(base, n + 1)
    BY <1>7
  <2>2. Again(n) = Made(x, y)
    BY <1>8
  <2>3. Again(n + 1) = Made(x * base, y * base)
    BY <1>8, <2>1
  <2> HIDE DEF x, y
  <2>4. Run!Scaled(Made(x, y)) = Made(x * base, y * base)
    BY <1>9
  <2> QED
    BY <1>3, <1>5, <2>1, <2>2, <2>3, <2>4
<1> QED
  BY <1>10, <1>11 DEF base

(* What a run takes from the environment that an earlier one saved.        *)
LEMMA LoadedAgain ==
  ASSUME NEW saved_config \in RunConfigs
  PROVE  Run!load_from_env(saved_config) = Run!Scaled(saved_config)
<1>1. DOMAIN saved_config = DOMAIN Run!DefaultOfRun
  BY DEF RunConfigs, Run!DefaultOfRun
<1>2. \A key \in DOMAIN Run!DefaultOfRun :
        Run!get_env_var(saved_config, key, Run!DefaultOfRun[key]) = saved_config[key]
  BY <1>1 DEF Run!get_env_var
<1>3. \A key \in DOMAIN Run!DefaultOfRun :
        (IF key \in Run!Switches /\ saved_config[key] # 0 THEN 1 ELSE saved_config[key])
          = saved_config[key]
  BY DEF RunConfigs, Run!Switches
<1>4. saved_config = [key \in DOMAIN Run!DefaultOfRun |-> saved_config[key]]
  BY <1>1 DEF RunConfigs
<1> DEFINE taken == [key \in DOMAIN Run!DefaultOfRun |->
                       LET value == Run!get_env_var(saved_config, key, Run!DefaultOfRun[key])
                       IN  IF key \in Run!Switches /\ value # 0 THEN 1 ELSE value]
<1>5. taken = saved_config
  BY <1>2, <1>3, <1>4
<1>6. Run!load_from_env(saved_config) = Run!Scaled(taken)
  BY DEF Run!load_from_env
<1> QED
  BY <1>5, <1>6

LEMMA LoadedFirst ==
  ASSUME RunInv, env \in Environments
  PROVE  Run!load_from_env(env) \in RunConfigs
<1> DEFINE taken == [key \in DOMAIN Run!DefaultOfRun |->
                       LET value == Run!get_env_var(env, key, Run!DefaultOfRun[key])
                       IN  IF key \in Run!Switches /\ value # 0 THEN 1 ELSE value]
<1>1. \A key \in DOMAIN Run!DefaultOfRun :
        Run!get_env_var(env, key, Run!DefaultOfRun[key]) \in Int
  BY RunAssumption DEF Run!get_env_var, Run!DefaultOfRun
<1>2. DOMAIN Run!DefaultOfRun = RunKeys
  BY DEF Run!DefaultOfRun, RunKeys
<1>3. DOMAIN taken = RunKeys /\ \A key \in RunKeys : taken[key] \in Int
  BY <1>1, <1>2
<1>4. taken.HALF_DUPLEX_MODE \in {0, 1}
  BY <1>1, <1>2 DEF RunKeys, Run!Switches
<1>5. Run!load_from_env(env) = Run!Scaled(taken)
  BY DEF Run!load_from_env
<1>6. taken = [key \in RunKeys |-> taken[key]]
  BY <1>2
<1> HIDE DEF taken
<1> DEFINE conns == taken.CONNECTIONS_PER_THREAD
<1>7. taken = RunConfig(taken.QUEUE_DEPTH, taken.INFLIGHT_OPS, taken.THREAD_COUNT, conns,
                        taken.PORT, taken.HALF_DUPLEX_MODE)
  BY <1>6 DEF RunKeys, RunConfig
<1>8. Run!Scaled(taken) = Changed(taken, taken.QUEUE_DEPTH * conns, taken.INFLIGHT_OPS * conns)
  BY DEF Run!Scaled, Changed
<1>9. Run!Scaled(taken) = RunConfig(taken.QUEUE_DEPTH * conns, taken.INFLIGHT_OPS * conns,
                                    taken.THREAD_COUNT, conns, taken.PORT, taken.HALF_DUPLEX_MODE)
  BY <1>7, <1>8, ConfigChanged DEF ConfigIsChanged
<1>10. /\ taken.QUEUE_DEPTH * conns \in Int /\ taken.INFLIGHT_OPS * conns \in Int
       /\ taken.THREAD_COUNT \in Int /\ conns \in Int /\ taken.PORT \in Int
  BY <1>3 DEF RunKeys
<1> QED
  BY <1>4, <1>5, <1>9, <1>10 DEF RunConfig, RunConfigs

(* The configuration first stays: so does what it is scaled to.            *)
LEMMA AgainStays ==
  ASSUME first' = first
  PROVE  \A n : Again(n)' = Again(n)
BY DEF Again

LEMMA StillRun ==
  ASSUME RunInv, UNCHANGED Run!run
  PROVE  RunInv'
<1>1. /\ pc' = pc /\ env' = env /\ config' = config /\ saved' = saved
      /\ first' = first /\ runs' = runs
  BY DEF Run!run
<1>2. \A n : Again(n)' = Again(n)
  BY <1>1, AgainStays
<1> QED
  BY <1>1, <1>2 DEF RunInv

LEMMA LoadKeepsRun ==
  ASSUME RunInv, Run!Load
  PROVE  RunInv'
<1>1. runs \in Nat /\ runs' = runs + 1 /\ runs' \in Nat /\ runs' > 0 /\ saved' = saved
  BY DEF RunInv, Run!Load
<1>2. CASE pc' = "threw"
  <2>1. first' = first
    BY <1>2 DEF Run!Load
  <2>2. \A n : Again(n)' = Again(n)
    BY <2>1, AgainStays
  <2>3. saved = Run!None \/ \E n \in 0 .. runs - 1 : saved = Again(n)
    BY <1>1 DEF RunInv
  <2>4. saved' = Run!None \/ \E n \in 0 .. runs' - 1 : saved' = Again(n)'
    BY <1>1, <2>2, <2>3
  <2> QED
    BY <1>1, <1>2, <2>4 DEF RunInv
<1>3. CASE pc' # "threw"
  <2>1. /\ pc = "load" /\ pc' = "join" /\ config' = Run!load_from_env(env)
        /\ first' = IF runs = 0 THEN config' ELSE first
    BY <1>3 DEF Run!Load
  <2>2. CASE runs = 0
    <3>1. env \in Environments /\ saved = Run!None
      BY <2>2 DEF RunInv
    <3>2. first' = config' /\ config' \in RunConfigs
      BY <2>1, <2>2, <3>1, LoadedFirst
    <3>3. (Again(0) = first)'
      <4>1. ASSUME first' \in RunConfigs
            PROVE  Again(0)' = first'
        <5> DEFINE base == first'.CONNECTIONS_PER_THREAD
        <5>1. /\ base \in Int /\ first'.QUEUE_DEPTH \in Int /\ first'.INFLIGHT_OPS \in Int
          BY <4>1 DEF RunConfigs
        <5>2. Run!Power(base, 0) = 1
          <6> HIDE DEF base
          <6> QED
            BY <5>1, PowerUnfolds
        <5>3. /\ first'.QUEUE_DEPTH * Run!Power(base, 0) = first'.QUEUE_DEPTH
              /\ first'.INFLIGHT_OPS * Run!Power(base, 0) = first'.INFLIGHT_OPS
          BY <5>1, <5>2
        <5>4. Again(0)' = [first' EXCEPT !.QUEUE_DEPTH = first'.QUEUE_DEPTH * Run!Power(base, 0),
                                         !.INFLIGHT_OPS = first'.INFLIGHT_OPS * Run!Power(base, 0)]
          BY DEF Again
        <5>5. [first' EXCEPT !.QUEUE_DEPTH = first'.QUEUE_DEPTH,
                             !.INFLIGHT_OPS = first'.INFLIGHT_OPS] = first'
          BY <4>1 DEF RunConfigs
        <5> QED
          BY <5>3, <5>4, <5>5
      <4> QED
        BY <3>2, <4>1
    <3> QED
      BY <1>1, <2>1, <2>2, <3>1, <3>2, <3>3 DEF RunInv
  <2>3. CASE runs # 0
    <3>1. first \in RunConfigs /\ first' = first
      BY <1>1, <2>1, <2>3 DEF RunInv
    <3>2. PICK n \in 0 .. runs - 1 : env = Again(n)
      BY <1>1, <2>1, <2>3 DEF RunInv
    <3>3. Again(n) \in RunConfigs /\ Run!Scaled(Again(n)) = Again(n + 1)
      BY <1>1, <3>1, <3>2, AgainOnce
    <3>4. config' = Again(n + 1)
      BY <2>1, <3>2, <3>3, LoadedAgain
    <3>5. \A k : Again(k)' = Again(k)
      BY <3>1, AgainStays
    <3>6. n + 1 \in 1 .. runs' - 1 /\ runs' # 1
      BY <1>1, <2>3, <3>2
    <3>7. saved = Run!None \/ \E k \in 0 .. runs - 1 : saved = Again(k)
      BY <1>1, <2>3 DEF RunInv
    <3>8. saved' = Run!None \/ \E k \in 0 .. runs' - 1 : saved' = Again(k)'
      BY <1>1, <3>5, <3>7
    <3>9. \E k \in IF runs' = 1 THEN {0} ELSE 1 .. runs' - 1 : config' = Again(k)'
      BY <3>4, <3>5, <3>6
    <3> QED
      BY <1>1, <2>1, <3>1, <3>8, <3>9 DEF RunInv
  <2> QED
    BY <2>2, <2>3
<1> QED
  BY <1>2, <1>3

LEMMA NextKeepsRun ==
  ASSUME RunInv, [Run!Next]_(Run!run)
  PROVE  RunInv'
<1>1. CASE Run!Load
  BY <1>1, LoadKeepsRun
<1>2. CASE Run!Join
  <2>1. /\ pc = "join" /\ pc' = "save" /\ env' = env /\ config' = config /\ saved' = saved
        /\ first' = first /\ runs' = runs
    BY <1>2 DEF Run!Join
  <2>2. \A n : Again(n)' = Again(n)
    BY <2>1, AgainStays
  <2> QED
    BY <2>1, <2>2 DEF RunInv
<1>3. CASE Run!Save
  <2>1. /\ pc = "save" /\ pc' = "ended" /\ saved' \in {saved, config} /\ config' = config
        /\ first' = first /\ runs' = runs
    BY <1>3 DEF Run!Save, Run!save_to_file
  <2>2. \A n : Again(n)' = Again(n)
    BY <2>1, AgainStays
  <2>3. runs \in Nat /\ runs > 0 /\ first \in RunConfigs
    BY <2>1 DEF RunInv
  <2>4. PICK n \in IF runs = 1 THEN {0} ELSE 1 .. runs - 1 : config = Again(n)
    BY <2>1, <2>3 DEF RunInv
  <2>5. n \in 0 .. runs - 1
    BY <2>3, <2>4
  <2>6. saved = Run!None \/ \E k \in 0 .. runs - 1 : saved = Again(k)
    BY <2>3 DEF RunInv
  <2>7. saved' = Run!None \/ \E k \in 0 .. runs' - 1 : saved' = Again(k)'
    BY <2>1, <2>2, <2>4, <2>5, <2>6
  <2> QED
    BY <2>1, <2>2, <2>3, <2>4, <2>7 DEF RunInv
<1>4. CASE Run!Repeat
  <2>1. /\ pc = "ended" /\ pc' = "load" /\ saved # Run!None /\ env' = saved /\ config' = config
        /\ saved' = saved /\ first' = first /\ runs' = runs
    BY <1>4 DEF Run!Repeat
  <2>2. \A n : Again(n)' = Again(n)
    BY <2>1, AgainStays
  <2>3. runs \in Nat /\ runs > 0 /\ first \in RunConfigs
    BY <2>1 DEF RunInv
  <2>4. \E k \in 0 .. runs - 1 : saved = Again(k)
    BY <2>1, <2>3 DEF RunInv
  <2>5. \E k \in 0 .. runs' - 1 : saved' = Again(k)'
    BY <2>1, <2>2, <2>4
  <2> QED
    BY <2>1, <2>2, <2>3, <2>5 DEF RunInv
<1>5. ASSUME NEW t \in running, Run!Thread(t)
      PROVE  RunInv'
  <2>1. /\ pc' = pc /\ env' = env /\ config' = config /\ saved' = saved
        /\ first' = first /\ runs' = runs
    BY <1>5 DEF Run!Thread
  <2>2. \A n : Again(n)' = Again(n)
    BY <2>1, AgainStays
  <2> QED
    BY <2>1, <2>2 DEF RunInv
<1>6. CASE UNCHANGED Run!run
  BY <1>6, StillRun
<1> QED
  BY <1>1, <1>2, <1>3, <1>4, <1>5, <1>6 DEF Run!Next, Run!Main, Run!Terminated

LEMMA RunAgrees ==
  ASSUME RunInv
  PROVE  Run!RepeatScalesAgain
<1> SUFFICES ASSUME pc \in {"join", "save"}
             PROVE  Run!RepeatScalesAgain
  BY Zenon DEF Run!RepeatScalesAgain
<1>1. runs \in Nat /\ runs > 0 /\ first \in RunConfigs
  BY DEF RunInv
<1>2. PICK n \in IF runs = 1 THEN {0} ELSE 1 .. runs - 1 : config = Again(n)
  BY <1>1 DEF RunInv
<1>3. n \in Nat
  BY <1>1, <1>2
<1>4. config.CONNECTIONS_PER_THREAD = first.CONNECTIONS_PER_THREAD
  BY <1>1, <1>2, <1>3, AgainOnce
<1> DEFINE again == Run!Power(config.CONNECTIONS_PER_THREAD, n)
<1>5. config = [first EXCEPT !.QUEUE_DEPTH = @ * again, !.INFLIGHT_OPS = @ * again]
  BY <1>2, <1>4 DEF Again
<1> QED
  BY <1>2, <1>5, Zenon DEF Run!RepeatScalesAgain

(* A run repeated from what an earlier one saved has the same ratio of     *)
(* queue depth and operations under way as the first, both multiplied by   *)
(* the connections once more for each run saved on the way, and everything *)
(* else as the first had it (static_config.cpp:29, 87), for every          *)
(* environment and however often it is repeated.                           *)
THEOREM RepeatAlwaysScales == ProgramSpec => []RepeatScalesAgain
<1> DEFINE I == program = "run" => RunInv
<1>1. ProgramInit => I
  BY InitOf, InitRun
<1>2. I /\ [ProgramNext]_programs => I'
  BY Dispatch, NextKeepsRun
<1>3. I => RepeatScalesAgain
  BY RunAgrees DEF RepeatScalesAgain
<1> QED
  BY <1>1, <1>2, <1>3, PTL DEF ProgramSpec

(***************************************************************************)
(* Making a ring and taking it down (LiburingSetup).                       *)
(***************************************************************************)

SetupNames == {"none", "app", "sqes", "ring", "sq_ring", "cq_ring"}
SetupPcs == {"idle", "alloc", "alloc_ring", "setup", "map_sq", "map_cq", "map_sqes", "ready",
             "register", "probed", "failed", "exited"}
SetupRings ==
  [sqes : SetupNames, ring_ptr : SetupNames, cq_ptr : SetupNames, sq_ring_sz : Int,
   cq_ring_sz : Int, ring_fd : {"none", "ring_fd"},
   enter_ring_fd : {"none", "ring_fd", "slot"},
   int_flags : SUBSET {"REG_RING", "REG_REG_RING"}]

(* What io_uring_mmap has mapped, and later. *)
Mapping == {"map_cq", "map_sqes", "ready", "register", "probed"}
Made == {"ready", "register", "probed"}
Entered == {"map_sq"} \cup Mapping

(* The mappings m: none is larger than what huge pages are, and only those *)
(* in S are of ordinary pages.                                             *)
Sized(m) == \A n \in DOMAIN m : m[n] \in [size : Int, huge : BOOLEAN]
Rest(m, S) == \A n \in DOMAIN m : m[n].huge \/ n \in S
Lies(m, n, size) == n \in DOMAIN m /\ ~m[n].huge /\ m[n].size = size

Upto(size, most) == size \in Nat /\ size > 0 /\ size <= most

SetupTypes ==
  /\ pc \in SetupPcs
  /\ params.entries \in Nat /\ params.buf \in Nat
  /\ params.no_mmap \in BOOLEAN /\ params.single_mmap \in BOOLEAN
  /\ params.sqe128 \in BOOLEAN /\ params.cqe32 \in BOOLEAN
  /\ params.registered_fd_only \in BOOLEAN /\ params.reg_reg \in BOOLEAN
  /\ params.buf > 0 => params.no_mmap
  /\ params.registered_fd_only => params.reg_reg
  /\ no_sqarray \in BOOLEAN
  /\ ring \in SetupRings

(* What holds of all mappings that are ever made. *)
Sound(m) ==
  /\ Sized(m)
  /\ \A n \in {"buf_ring", "probe"} : n \in DOMAIN m => Lies(m, n, Liburing!PageSize)
  /\ params.no_mmap => \A n \in DOMAIN m \cap {"sqes", "ring"} :
                         m[n].huge \/ m[n].size <= Liburing!PageSize
  /\ ~params.no_mmap => \A n \in DOMAIN m : ~m[n].huge

AppKept(m) == params.buf > 0 => "app" \in DOMAIN m /\ m["app"].size = params.buf

(* Which mappings of ordinary pages are still to be undone, and by which   *)
(* names.                                                                  *)
Pointed ==
  IF pc \in Liburing!Ends THEN {} ELSE {ring.sqes, ring.ring_ptr, ring.cq_ptr} \ {"none"}
Undone == {"app", "probe"} \cup Pointed \cup IF pc \in Made THEN {"buf_ring"} ELSE {}

SetupKept ==
  /\ Rest(mapped, Undone) \/ (pc = "exited" /\ params.sqe128)
  /\ pc # "exited" => AppKept(mapped)

(* The memory of a ring from io_uring_alloc_huge. *)
AllocatedRing ==
  \/ /\ params.buf > 0 /\ ring.sqes = "app" /\ ring.ring_ptr = "app" /\ ring.cq_ptr = "app"
     /\ ring.sq_ring_sz = 0 /\ ring.cq_ring_sz = 0
  \/ /\ params.buf = 0 /\ ring.sqes = "sqes" /\ ring.ring_ptr = "sqes" /\ ring.cq_ptr = "sqes"
     /\ ring.sq_ring_sz = 0 /\ ring.cq_ring_sz = 0
  \/ /\ params.buf = 0 /\ ring.sqes = "sqes" /\ ring.ring_ptr = "ring" /\ ring.cq_ptr = "ring"
     /\ ring.sq_ring_sz \in {Liburing!PageSize, Liburing!HugePageSize} /\ ring.cq_ring_sz = 0

(* The memory of a ring from io_uring_mmap. *)
MappedRing ==
  /\ ring.ring_ptr = "sq_ring" /\ Upto(ring.sq_ring_sz, Liburing!CqRingSize)
  /\ Lies(mapped, "sq_ring", Liburing!RoundUp(ring.sq_ring_sz, Liburing!PageSize))
  /\ IF pc = "map_cq"
     THEN ring.cq_ptr = "none" /\ ring.cq_ring_sz = Liburing!CqRingSize
     ELSE \/ ring.cq_ptr = "sq_ring"
          \/ /\ ring.cq_ptr = "cq_ring" /\ ring.cq_ring_sz = Liburing!CqRingSize
             /\ Lies(mapped, "cq_ring",
                     Liburing!RoundUp(Liburing!CqRingSize, Liburing!PageSize))
  /\ IF pc \in {"map_cq", "map_sqes"}
     THEN ring.sqes = "none"
     ELSE /\ ring.sqes = "sqes"
          /\ Lies(mapped, "sqes", Liburing!RoundUp(Liburing!SqeSize * Liburing!SqEntries,
                                                   Liburing!PageSize))

SetupMemory ==
  /\ pc \in {"idle", "alloc"} => ring = Liburing!NoRing
  /\ pc \in {"alloc", "alloc_ring"} => params.no_mmap
  /\ pc \in {"map_sq", "map_cq", "map_sqes"} => ~params.no_mmap
  /\ pc \in {"alloc_ring"} \cup Entered => Liburing!ValidEntries(params.entries)
  /\ pc = "alloc_ring" => params.buf = 0 /\ ring = [Liburing!NoRing EXCEPT !.sqes = "sqes"]
  /\ pc = "setup" => ring.int_flags = {} /\ ring.ring_fd = "none"
  /\ params.no_mmap /\ pc \in {"setup"} \cup Made => AllocatedRing
  /\ ~params.no_mmap =>
       /\ pc \in {"setup", "map_sq"} =>
            ring.sqes = "none" /\ ring.ring_ptr = "none" /\ ring.cq_ptr = "none"
       /\ pc \in Mapping => MappedRing

(* The descriptors: the ring's, and the slot it may be registered in.      *)
Descriptors ==
  \/ /\ ring.int_flags = {} /\ ring.enter_ring_fd = ring.ring_fd
     /\ fds = IF ring.ring_fd = "none" THEN {} ELSE {"ring_fd"}
  \/ /\ ring.int_flags = {"REG_RING"} /\ ring.enter_ring_fd = "slot" /\ ring.ring_fd = "ring_fd"
     /\ ~params.reg_reg /\ fds = {"ring_fd", "slot"}
  \/ /\ ring.int_flags = {"REG_RING", "REG_REG_RING"} /\ ring.enter_ring_fd = "slot"
     /\ fds = IF ring.ring_fd = "none" THEN {"slot"} ELSE {"ring_fd", "slot"}

SetupDescriptors == IF pc \in Entered THEN Descriptors ELSE fds = {}

SetupInv == SetupTypes /\ Sound(mapped) /\ SetupKept /\ SetupMemory /\ SetupDescriptors

LEMMA InitSetup == ASSUME Liburing!Init PROVE SetupInv
<1> USE DEF Liburing!Init
<1>1. PICK entries \in EntryCounts, buf \in AppBuffers, no_mmap, single_mmap, sqe128, cqe32,
        asked, registered_fd_only, reg_reg \in BOOLEAN, caller \in Callers :
       /\ buf > 0 => no_mmap
       /\ registered_fd_only => reg_reg
       /\ caller # "program" => ~no_mmap /\ ~sqe128 /\ ~cqe32 /\ ~asked /\ ~reg_reg
       /\ params = [entries |-> entries, buf |-> buf, no_mmap |-> no_mmap,
                    single_mmap |-> single_mmap, sqe128 |-> sqe128, cqe32 |-> cqe32,
                    asked |-> asked, registered_fd_only |-> registered_fd_only,
                    reg_reg |-> reg_reg, caller |-> caller]
       /\ mapped = IF buf > 0 THEN [n \in {"app"} |-> [size |-> buf, huge |-> FALSE]]
                              ELSE [n \in {} |-> [size |-> 0, huge |-> FALSE]]
  OBVIOUS
<1>2. /\ params.entries = entries /\ params.buf = buf /\ params.no_mmap = no_mmap
      /\ params.single_mmap = single_mmap /\ params.sqe128 = sqe128 /\ params.cqe32 = cqe32
      /\ params.registered_fd_only = registered_fd_only /\ params.reg_reg = reg_reg
  BY <1>1
<1>3. entries \in Nat /\ buf \in Nat
  BY SetupAssumption
<1>4. /\ pc = "idle" /\ no_sqarray = TRUE /\ fds = {} /\ ring = Liburing!NoRing
  OBVIOUS
<1>5. ring \in SetupRings
  BY <1>4 DEF SetupRings, SetupNames, Liburing!NoRing
<1>6. \/ buf > 0 /\ DOMAIN mapped = {"app"} /\ mapped["app"].size = buf /\ ~mapped["app"].huge
         /\ mapped["app"] \in [size : Int, huge : BOOLEAN]
      \/ buf = 0 /\ DOMAIN mapped = {}
  BY <1>1, <1>3
<1>7. SetupTypes
  BY <1>1, <1>2, <1>3, <1>4, <1>5 DEF SetupTypes, SetupPcs
<1>11. Sound(mapped)
  BY <1>2, <1>3, <1>6 DEF Sound, Sized
<1>8. SetupKept
  BY <1>2, <1>3, <1>4, <1>6 DEF SetupKept, AppKept, Rest, Undone, Pointed, Made, Liburing!Ends
<1>9. SetupMemory
  BY <1>1, <1>2, <1>4, <1>6 DEF SetupMemory, Mapping, Made, Entered
<1>10. SetupDescriptors
  BY <1>4 DEF SetupDescriptors, Entered, Mapping
<1> QED
  BY <1>7, <1>8, <1>9, <1>10, <1>11 DEF SetupInv

(***************************************************************************)
(* Sizes.                                                                  *)
(***************************************************************************)

Powers == {1, 2, 4, 8, 16, 32, 64, 128, 256, 512, 1024, 2048, 4096, 8192, 16384, 32768,
           65536, 131072}

LEMMA PowerOf ==
  ASSUME NEW depth \in Nat, depth <= 131072
  PROVE  /\ Liburing!roundup_pow2(depth) \in Nat
         /\ Liburing!roundup_pow2(depth) >= depth
         /\ \A q \in Powers : q >= depth => Liburing!roundup_pow2(depth) <= q
<1> DEFINE S == {p \in Powers : p >= depth}
<1>1. S \in SUBSET Nat /\ 131072 \in S
  BY DEF Powers
<1>2. PICK m \in S : \A n \in S : m <= n
  <2> HIDE DEF S
  <2> QED
    BY <1>1, SmallestOf
<1>3. m \in Powers /\ m >= depth /\ \A q \in Powers : q >= depth => m <= q
  BY <1>2
<1>4. Liburing!roundup_pow2(depth)
        = CHOOSE p \in Powers : p >= depth /\ \A q \in Powers : q >= depth => p <= q
  BY DEF Liburing!roundup_pow2, Powers
<1>5. /\ Liburing!roundup_pow2(depth) \in Powers
      /\ Liburing!roundup_pow2(depth) >= depth
      /\ \A q \in Powers : q >= depth => Liburing!roundup_pow2(depth) <= q
  BY <1>3, <1>4
<1> HIDE DEF S
<1>6. \A q \in Powers : q \in Nat
  BY DEF Powers
<1> QED
  BY <1>5, <1>6

LEMMA PagesOf ==
  ASSUME NEW s \in Nat
  PROVE  /\ Liburing!RoundUp(s, Liburing!PageSize) \in Nat
         /\ Liburing!RoundUp(s, Liburing!PageSize) >= s
         /\ s > 0 => Liburing!RoundUp(s, Liburing!PageSize) >= Liburing!PageSize
         /\ \A r \in 0 .. s : Liburing!RoundUp(r, Liburing!PageSize)
                                 <= Liburing!RoundUp(s, Liburing!PageSize)
BY DEF Liburing!RoundUp, Liburing!PageSize

LEMMA PowerPages ==
  ASSUME NEW s \in Nat, s > 0, s <= 131072 * 4096
  PROVE  /\ Liburing!npages(s) \in Nat
         /\ Liburing!npages(s) * Liburing!PageSize >= Liburing!RoundUp(s, Liburing!PageSize)
<1> DEFINE k == (s - 1) \div 4096 + 1
<1>1. k \in Nat /\ k <= 131072
  OBVIOUS
<1>2. Liburing!RoundUp(s, Liburing!PageSize) = k * 4096
  BY DEF Liburing!RoundUp, Liburing!PageSize
<1>3. Liburing!npages(s) = Liburing!roundup_pow2(k)
  BY DEF Liburing!npages, Liburing!PageSize
<1> HIDE DEF k
<1>4. Liburing!roundup_pow2(k) \in Nat /\ Liburing!roundup_pow2(k) >= k
  BY <1>1, PowerOf
<1> QED
  BY <1>1, <1>2, <1>3, <1>4 DEF Liburing!PageSize

(* The sizes of a ring that the kernel takes. *)
LEMMA RingSizes ==
  ASSUME SetupTypes, Liburing!ValidEntries(params.entries)
  PROVE  /\ Upto(Liburing!SqEntries, 32768)
         /\ Liburing!SqeSize \in {64, 128} /\ Liburing!CqeSize \in {16, 32}
         /\ Upto(Liburing!SqeSize * Liburing!SqEntries, 128 * 32768)
         /\ Upto(64 * Liburing!SqEntries, 128 * 32768)
         /\ ~params.sqe128 => Liburing!SqeSize = 64
         /\ Upto(Liburing!CqRingSize, 64 + 64 * 32768)
         /\ Liburing!CqRingSize = Liburing!CqeSize * Liburing!CqEntries + Liburing!KringSize
         /\ Upto(Liburing!SqRingSize, Liburing!CqRingSize)
         /\ Liburing!LargerRing = Liburing!CqRingSize
<1> DEFINE n == Liburing!SqEntries
<1>1. n \in Nat /\ n >= params.entries /\ n <= 32768 /\ params.entries > 0
  <2>1. params.entries \in Nat /\ params.entries > 0 /\ params.entries <= 32768
    BY DEF SetupTypes, Liburing!ValidEntries, Liburing!MaxEntries
  <2>2. 32768 \in Powers
    BY DEF Powers
  <2> QED
    BY <2>1, <2>2, PowerOf DEF Liburing!SqEntries
<1>2. Upto(n, 32768)
  <2>1. params.entries \in Nat
    BY DEF SetupTypes
  <2> HIDE DEF n
  <2> QED
    BY <1>1, <2>1 DEF Upto
<1>3. /\ Liburing!SqeSize \in {64, 128} /\ Liburing!CqeSize \in {16, 32}
      /\ ~params.sqe128 => Liburing!SqeSize = 64
  BY DEF Liburing!SqeSize, Liburing!CqeSize
<1>4. Upto(Liburing!SqeSize * n, 128 * 32768) /\ Upto(64 * n, 128 * 32768)
  <2> HIDE DEF n
  <2> QED
    BY <1>2, <1>3 DEF Upto
<1>5. Liburing!CqRingSize = 64 + Liburing!CqeSize * (2 * n)
  BY DEF Liburing!CqRingSize, Liburing!KringSize, Liburing!CqEntries
<1>6. Liburing!SqRingSize \in {64, 4 * n + 64}
  BY DEF Liburing!SqRingSize, Liburing!KringSize
<1> HIDE DEF n
<1>7. /\ Upto(Liburing!CqRingSize, 64 + 64 * 32768)
      /\ Upto(Liburing!SqRingSize, Liburing!CqRingSize)
  BY <1>2, <1>3, <1>5, <1>6 DEF Upto
<1>8. Liburing!LargerRing = Liburing!CqRingSize
  BY <1>7 DEF Liburing!LargerRing, Upto
<1>9. Liburing!CqRingSize = Liburing!CqeSize * Liburing!CqEntries + Liburing!KringSize
  <2>1. Liburing!CqeSize * Liburing!CqEntries \in Int
    BY <1>2, <1>3 DEF Liburing!CqEntries, n, Upto
  <2>2. Liburing!CqRingSize = Liburing!KringSize + Liburing!CqeSize * Liburing!CqEntries
    BY DEF Liburing!CqRingSize
  <2> QED
    BY <2>1, <2>2 DEF Liburing!KringSize
<1> QED
  BY <1>2, <1>3, <1>4, <1>7, <1>8, <1>9 DEF n

(***************************************************************************)
(* Undoing mappings.                                                       *)
(***************************************************************************)

LEMMA UnmapRest ==
  ASSUME NEW m, NEW S, NEW name, NEW length \in Nat, length > 0, Sized(m),
         Rest(m, S \cup {name}),
         name \in DOMAIN m =>
           m[name].huge \/ m[name].size <= Liburing!RoundUp(length, Liburing!PageSize)
  PROVE  Rest(Liburing!Unmapped(m, name, length), S)
<1> DEFINE gone == Liburing!RoundUp(length, Liburing!PageSize)
           u == Liburing!Unmapped(m, name, length)
<1>1. gone \in Nat
  BY PagesOf
<1>2. u = IF name \notin DOMAIN m \/ (m[name].huge /\ length # m[name].size)
          THEN m
          ELSE IF gone < m[name].size
          THEN [m EXCEPT ![name].size = @ - gone]
          ELSE [n \in DOMAIN m \ {name} |-> m[n]]
  BY DEF Liburing!Unmapped
<1> SUFFICES Rest(u, S)
  OBVIOUS
<1> HIDE DEF u, gone
<1>3. CASE name \notin DOMAIN m
  BY <1>2, <1>3 DEF Rest
<1>4. CASE name \in DOMAIN m /\ m[name].huge /\ length # m[name].size
  BY <1>2, <1>4 DEF Rest
<1>5. CASE name \in DOMAIN m /\ ~(m[name].huge /\ length # m[name].size)
  <2>1. m[name].size \in Int
    BY <1>5 DEF Sized
  <2>2. m[name] \in [size : Int, huge : BOOLEAN]
    BY <1>5 DEF Sized
  <2>3. CASE gone < m[name].size
    <3>1. m[name].huge
      BY <1>1, <1>5, <2>1, <2>3 DEF gone
    <3>2. u = [m EXCEPT ![name] = [m[name] EXCEPT !.size = m[name].size - gone]]
      BY <1>2, <1>5, <2>3
    <3>3. [m[name] EXCEPT !.size = m[name].size - gone].huge
      BY <2>2, <3>1
    <3> QED
      BY <1>5, <3>2, <3>3 DEF Rest
  <2>4. CASE ~(gone < m[name].size)
    <3>1. u = [n \in DOMAIN m \ {name} |-> m[n]]
      BY <1>2, <1>5, <2>4
    <3> QED
      BY <3>1 DEF Rest
  <2> QED
    BY <2>3, <2>4
<1> QED
  BY <1>3, <1>4, <1>5

LEMMA UnmapKeeps ==
  ASSUME NEW m, NEW name, NEW length \in Nat, Sized(m)
  PROVE  LET u == Liburing!Unmapped(m, name, length)
         IN  /\ Sized(u)
             /\ \A n \in DOMAIN u : n \in DOMAIN m /\ (u[n].huge <=> m[n].huge)
                                     /\ u[n].size <= m[n].size
             /\ \A n \in DOMAIN m : n # name => n \in DOMAIN u /\ u[n] = m[n]
             /\ \A n \in DOMAIN u : n # name => u[n] = m[n]
<1> DEFINE gone == Liburing!RoundUp(length, Liburing!PageSize)
           u == Liburing!Unmapped(m, name, length)
<1>1. gone \in Nat
  BY PagesOf
<1>2. u = IF name \notin DOMAIN m \/ (m[name].huge /\ length # m[name].size)
          THEN m
          ELSE IF gone < m[name].size
          THEN [m EXCEPT ![name].size = @ - gone]
          ELSE [n \in DOMAIN m \ {name} |-> m[n]]
  BY DEF Liburing!Unmapped
<1> HIDE DEF u, gone
<1>3. \A n \in DOMAIN m : m[n].size \in Int /\ m[n] \in [size : Int, huge : BOOLEAN]
  BY DEF Sized
<1>4. CASE u = m
  BY <1>3, <1>4 DEF Sized, u
<1>5. CASE u = [n \in DOMAIN m \ {name} |-> m[n]]
  BY <1>3, <1>5 DEF Sized, u
<1>6. CASE name \in DOMAIN m /\ u = [m EXCEPT ![name].size = @ - gone]
  <2> DEFINE less == [m[name] EXCEPT !.size = m[name].size - gone]
  <2>1. u = [m EXCEPT ![name] = less]
    BY <1>6
  <2>2. less \in [size : Int, huge : BOOLEAN] /\ (less.huge <=> m[name].huge)
        /\ less.size <= m[name].size
    BY <1>1, <1>3, <1>6
  <2> HIDE DEF less
  <2>3. DOMAIN u = DOMAIN m /\ u[name] = less /\ \A n \in DOMAIN m : n # name => u[n] = m[n]
    BY <1>6, <2>1
  <2> QED
    BY <1>3, <2>2, <2>3 DEF Sized, u
<1> QED
  BY <1>2, <1>4, <1>5, <1>6

Added(m, name, size, huge) ==
  /\ Sized(m) /\ DOMAIN m = DOMAIN mapped \cup {name}
  /\ m[name].size = size /\ m[name].huge = huge
  /\ \A n \in DOMAIN mapped : n # name => m[n] = mapped[n]
  /\ \A S : Rest(mapped, S) => Rest(m, S \cup {name})

LEMMA MapAdds ==
  ASSUME Sized(mapped)
  PROVE  \A name : \A size \in Int, huge \in BOOLEAN :
           Added(Liburing!Map(name, size, huge), name, size, huge)
<1> TAKE name
<1> TAKE size \in Int, huge \in BOOLEAN
<1> DEFINE m == Liburing!Map(name, size, huge)
           new == [size |-> size, huge |-> huge]
<1>1. m = [n \in DOMAIN mapped \cup {name} |-> IF n = name THEN new ELSE mapped[n]]
  BY DEF Liburing!Map
<1>2. new \in [size : Int, huge : BOOLEAN] /\ new.size = size /\ new.huge = huge
  OBVIOUS
<1> HIDE DEF m, new
<1>3. DOMAIN m = DOMAIN mapped \cup {name} /\ m[name] = new
      /\ \A n \in DOMAIN mapped : n # name => m[n] = mapped[n]
  BY <1>1
<1>4. Sized(m)
  BY <1>2, <1>3 DEF Sized
<1>5. \A S : Rest(mapped, S) => Rest(m, S \cup {name})
  BY <1>3 DEF Rest
<1> QED
  BY <1>2, <1>3, <1>4, <1>5 DEF m, Added

LEMMA UnmapSound ==
  ASSUME NEW m, NEW name, NEW length \in Nat, Sound(m), name \notin {"buf_ring", "probe"}
  PROVE  /\ Sound(Liburing!Unmapped(m, name, length))
         /\ AppKept(m) /\ name # "app" => AppKept(Liburing!Unmapped(m, name, length))
<1> DEFINE u == Liburing!Unmapped(m, name, length)
<1>1. Sized(m)
  BY DEF Sound
<1>2. /\ Sized(u)
      /\ \A n \in DOMAIN u : n \in DOMAIN m /\ (u[n].huge <=> m[n].huge)
                              /\ u[n].size <= m[n].size
      /\ \A n \in DOMAIN m : n # name => n \in DOMAIN u /\ u[n] = m[n]
      /\ \A n \in DOMAIN u : n # name => u[n] = m[n]
  BY <1>1, UnmapKeeps
<1> HIDE DEF u
<1>3. \A n \in DOMAIN u : u[n].size \in Int /\ m[n].size \in Int
  BY <1>1, <1>2 DEF Sized
<1>4. Sound(u)
  BY <1>2, <1>3 DEF Sound, Lies, Liburing!PageSize
<1>5. AppKept(m) /\ name # "app" => AppKept(u)
  BY <1>2 DEF AppKept
<1> QED
  BY <1>4, <1>5 DEF u

(* The page of a probe or of a buffer ring is given back. *)
LEMMA UnmapPage ==
  ASSUME NEW m, NEW name \in {"buf_ring", "probe"}, Sound(m)
  PROVE  LET u == Liburing!Unmapped(m, name, Liburing!PageSize)
         IN  /\ Sound(u) /\ (AppKept(m) => AppKept(u))
             /\ \A S : Rest(m, S) => Rest(u, S)
             /\ \A n \in DOMAIN u : n \in DOMAIN m
             /\ \A n \in DOMAIN m : n # name => n \in DOMAIN u /\ u[n] = m[n]
<1> DEFINE u == Liburing!Unmapped(m, name, Liburing!PageSize)
<1>1. Sized(m) /\ Liburing!PageSize \in Nat /\ Liburing!PageSize = 4096
  BY DEF Sound, Liburing!PageSize
<1>2. /\ Sized(u)
      /\ \A n \in DOMAIN u : n \in DOMAIN m /\ (u[n].huge <=> m[n].huge)
                              /\ u[n].size <= m[n].size
      /\ \A n \in DOMAIN m : n # name => n \in DOMAIN u /\ u[n] = m[n]
      /\ \A n \in DOMAIN u : n # name => u[n] = m[n]
  BY <1>1, UnmapKeeps
<1>3. name \notin DOMAIN u
  <2>1. Liburing!RoundUp(Liburing!PageSize, Liburing!PageSize) = 4096
    BY DEF Liburing!RoundUp, Liburing!PageSize
  <2>2. u = IF name \notin DOMAIN m \/ (m[name].huge /\ Liburing!PageSize # m[name].size)
            THEN m
            ELSE IF 4096 < m[name].size
            THEN [m EXCEPT ![name].size = @ - 4096]
            ELSE [n \in DOMAIN m \ {name} |-> m[n]]
    BY <2>1 DEF Liburing!Unmapped
  <2>3. name \in DOMAIN m => ~m[name].huge /\ m[name].size = 4096
    BY <1>1 DEF Sound, Lies
  <2> HIDE DEF u
  <2> QED
    BY <2>2, <2>3
<1> HIDE DEF u
<1>4. \A n \in DOMAIN u : u[n] = m[n]
  BY <1>2, <1>3
<1>5. Sound(u)
  BY <1>2, <1>3, <1>4 DEF Sound, Lies
<1>6. AppKept(m) => AppKept(u)
  BY <1>2 DEF AppKept
<1>7. \A S : Rest(m, S) => Rest(u, S)
  BY <1>2 DEF Rest
<1> QED
  BY <1>2, <1>5, <1>6, <1>7 DEF u

LEMMA MapSound ==
  ASSUME Sound(mapped), NEW name, NEW size \in Int, NEW huge \in BOOLEAN,
         name \in {"buf_ring", "probe"} => ~huge /\ size = Liburing!PageSize,
         params.no_mmap /\ name \in {"sqes", "ring"} => huge \/ size <= Liburing!PageSize,
         ~params.no_mmap => ~huge
  PROVE  LET m == Liburing!Map(name, size, huge)
         IN  Sound(m) /\ (AppKept(mapped) /\ name # "app" => AppKept(m))
<1> DEFINE m == Liburing!Map(name, size, huge)
<1>1. Sized(mapped)
  BY DEF Sound
<1>2. /\ Sized(m) /\ DOMAIN m = DOMAIN mapped \cup {name}
      /\ m[name].size = size /\ m[name].huge = huge
      /\ \A n \in DOMAIN mapped : n # name => m[n] = mapped[n]
  <2>1. Added(m, name, size, huge)
    <3> HIDE DEF m
    <3> QED
      BY <1>1, MapAdds DEF m
  <2> QED
    BY <2>1 DEF Added
<1> HIDE DEF m
<1>3. Sound(m)
  BY <1>2 DEF Sound, Lies
<1>4. AppKept(mapped) /\ name # "app" => AppKept(m)
  BY <1>2 DEF AppKept
<1> QED
  BY <1>3, <1>4 DEF m

(***************************************************************************)
(* Making a ring: the steps.                                               *)
(***************************************************************************)

LEMMA StillSound ==
  ASSUME params' = params
  PROVE  /\ Sound(mapped') => Sound(mapped)'
         /\ AppKept(mapped') => AppKept(mapped)'
BY DEF Sound, AppKept

LEMMA StillTyped ==
  ASSUME SetupTypes, params' = params, pc' \in SetupPcs, no_sqarray' \in BOOLEAN,
         ring' \in SetupRings
  PROVE  SetupTypes'
BY DEF SetupTypes

LEMMA StillSized ==
  ASSUME params' = params, no_sqarray' = no_sqarray
  PROVE  /\ Liburing!CqRingSize' = Liburing!CqRingSize
         /\ Liburing!SqeSize' = Liburing!SqeSize
         /\ Liburing!SqEntries' = Liburing!SqEntries
BY DEF Liburing!CqRingSize, Liburing!SqeSize, Liburing!SqEntries, Liburing!CqEntries,
   Liburing!CqeSize

LEMMA NoRingType ==
  /\ Liburing!NoRing \in SetupRings
  /\ Liburing!NoRing.sqes = "none" /\ Liburing!NoRing.ring_ptr = "none"
  /\ Liburing!NoRing.cq_ptr = "none" /\ Liburing!NoRing.int_flags = {}
  /\ Liburing!NoRing.ring_fd = "none" /\ Liburing!NoRing.enter_ring_fd = "none"
  /\ Liburing!NoRing.sq_ring_sz = 0 /\ Liburing!NoRing.cq_ring_sz = 0
BY DEF Liburing!NoRing, SetupRings, SetupNames

RingIn(r, a, b, c) == [r EXCEPT !.sqes = a, !.ring_ptr = b, !.cq_ptr = c]

LEMMA RingAt ==
  ASSUME NEW r \in SetupRings,
         NEW a \in SetupNames, NEW b \in SetupNames, NEW c \in SetupNames
  PROVE  LET e == RingIn(r, a, b, c)
         IN  /\ e \in SetupRings /\ e.sqes = a /\ e.ring_ptr = b /\ e.cq_ptr = c
             /\ e.sq_ring_sz = r.sq_ring_sz /\ e.cq_ring_sz = r.cq_ring_sz
             /\ e.int_flags = r.int_flags /\ e.ring_fd = r.ring_fd
             /\ e.enter_ring_fd = r.enter_ring_fd
<1> DEFINE one == [r EXCEPT !.sqes = a]
           two == [one EXCEPT !.ring_ptr = b]
           three == [two EXCEPT !.cq_ptr = c]
           Same(e, d) ==
             /\ e.sq_ring_sz = d.sq_ring_sz /\ e.cq_ring_sz = d.cq_ring_sz
             /\ e.int_flags = d.int_flags /\ e.ring_fd = d.ring_fd
             /\ e.enter_ring_fd = d.enter_ring_fd
<1>1. one \in SetupRings /\ one.sqes = a /\ Same(one, r)
  BY DEF SetupRings
<1>2. three = RingIn(r, a, b, c)
  BY DEF RingIn
<1> HIDE DEF one
<1>3. two \in SetupRings /\ two.sqes = a /\ two.ring_ptr = b /\ Same(two, r)
  BY <1>1 DEF SetupRings
<1> HIDE DEF two
<1>4. /\ three \in SetupRings /\ three.sqes = a /\ three.ring_ptr = b /\ three.cq_ptr = c
      /\ Same(three, r)
  BY <1>3 DEF SetupRings
<1> QED
  BY <1>2, <1>4

LEMMA EntriesAt ==
  LET e == [Liburing!NoRing EXCEPT !.sqes = "sqes"]
  IN  /\ e \in SetupRings /\ e.sqes = "sqes" /\ e.ring_ptr = "none" /\ e.cq_ptr = "none"
      /\ e.sq_ring_sz = 0 /\ e.cq_ring_sz = 0 /\ e.int_flags = {} /\ e.ring_fd = "none"
BY DEF Liburing!NoRing, SetupRings, SetupNames

(* A call fails: queue_init fails, or begins its second attempt.           *)
LEMMA FailsKeepsSetup ==
  ASSUME SetupInv, NEW err, Liburing!Fails(err), params' = params, fds' = {},
         Sound(mapped'), AppKept(mapped'), Rest(mapped', {"app", "probe"})
  PROVE  SetupInv'
<1>1. \/ pc' = Liburing!Begin /\ ring' = Liburing!NoRing /\ no_sqarray' \in BOOLEAN
      \/ pc' = "failed" /\ ring' = ring /\ no_sqarray' = no_sqarray
  BY DEF Liburing!Fails
<1>2. Liburing!Begin = IF params.no_mmap THEN "alloc" ELSE "setup"
  BY DEF Liburing!Begin
<1>3. SetupTypes
  BY DEF SetupInv
<1>4. /\ pc' \in {"alloc", "setup", "failed"} /\ ring' \in SetupRings /\ no_sqarray' \in BOOLEAN
      /\ pc' = "alloc" => params.no_mmap /\ ring' = Liburing!NoRing
      /\ pc' = "setup" => ~params.no_mmap /\ ring' = Liburing!NoRing
  BY <1>1, <1>2, <1>3, NoRingType DEF SetupTypes
<1>5. SetupTypes' /\ Sound(mapped)'
  BY <1>3, <1>4, StillTyped, StillSound DEF SetupPcs
<1>6. SetupKept'
  <2>1. Undone' = {"app", "probe"}
    BY <1>4, NoRingType DEF Undone, Pointed, Made, Liburing!Ends
  <2>2. AppKept(mapped)'
    BY StillSound
  <2> QED
    BY <2>1, <2>2 DEF SetupKept
<1>7. SetupMemory'
  BY <1>4, NoRingType DEF SetupMemory, Mapping, Made, Entered
<1>8. SetupDescriptors'
  BY <1>4 DEF SetupDescriptors, Entered, Mapping
<1> QED
  BY <1>5, <1>6, <1>7, <1>8 DEF SetupInv

LEMMA QueueInitKeepsSetup ==
  ASSUME SetupInv, Liburing!QueueInit
  PROVE  SetupInv'
<1>1. /\ pc = "idle" /\ params' = params /\ no_sqarray' = no_sqarray /\ ring' = ring
      /\ mapped' = mapped /\ fds' = fds
      /\ pc' = "failed" \/ pc' = IF params.no_mmap THEN "alloc" ELSE "setup"
  BY DEF Liburing!Begin, Liburing!QueueInit
<1>2. ring = Liburing!NoRing /\ fds = {} /\ SetupTypes /\ Sound(mapped)
  BY <1>1 DEF SetupInv, SetupMemory, SetupDescriptors, Entered, Mapping
<1>3. SetupTypes' /\ Sound(mapped)'
  BY <1>1, <1>2, StillTyped, StillSound DEF SetupTypes, SetupPcs
<1>4. SetupKept'
  <2>1. Undone = {"app", "probe"} /\ Undone' = {"app", "probe"}
    BY <1>1, <1>2, NoRingType DEF Undone, Pointed, Made, Liburing!Ends
  <2>2. AppKept(mapped)' /\ Rest(mapped', Undone')
    BY <1>1, <2>1, StillSound DEF SetupInv, SetupKept
  <2> QED
    BY <2>2 DEF SetupKept
<1>5. SetupMemory'
  BY <1>1, <1>2, NoRingType DEF SetupMemory, Mapping, Made, Entered
<1>6. SetupDescriptors'
  BY <1>1, <1>2 DEF SetupDescriptors, Entered, Mapping
<1> QED
  BY <1>3, <1>4, <1>5, <1>6 DEF SetupInv

(* What a mapping for io_uring_alloc_huge is like. *)
LEMMA BufSizes ==
  ASSUME SetupTypes, Liburing!ValidEntries(params.entries)
  PROVE  \A size \in {Liburing!SqesMem, Liburing!RingMem} :
           /\ size \in Int
           /\ Liburing!BufSize(size) \in {Liburing!PageSize, Liburing!HugePageSize}
           /\ Liburing!BufSize(size) \in Int
           /\ (size > Liburing!PageSize) \in BOOLEAN
           /\ size > Liburing!PageSize \/ Liburing!BufSize(size) <= Liburing!PageSize
<1>1. Liburing!SqEntries \in Nat /\ Liburing!CqeSize \in Nat /\ Liburing!SqEntries * 64 \in Nat
  BY RingSizes DEF Upto
<1>2. Liburing!CqeSize * Liburing!CqEntries \in Int
  <2>1. Liburing!CqEntries \in Int
    BY <1>1 DEF Liburing!CqEntries
  <2> QED
    BY <1>1, <2>1
<1>3. Liburing!SqesMem \in Int
  <2>1. Liburing!RoundUp(Liburing!SqEntries * 64, Liburing!PageSize) \in Int
    BY <1>1, PagesOf
  <2> QED
    BY <1>1, <2>1 DEF Liburing!SqesMem
<1>4. Liburing!RingMem \in Int
  BY <1>2, <1>3 DEF Liburing!RingMem, Liburing!KringSize
<1>5. \A size \in Int :
        /\ Liburing!BufSize(size) \in {Liburing!PageSize, Liburing!HugePageSize}
        /\ Liburing!BufSize(size) \in Int
        /\ (size > Liburing!PageSize) \in BOOLEAN
        /\ size > Liburing!PageSize \/ Liburing!BufSize(size) <= Liburing!PageSize
  BY DEF Liburing!BufSize, Liburing!PageSize, Liburing!HugePageSize
<1> QED
  BY <1>3, <1>4, <1>5

LEMMA AllocKeepsSetup ==
  ASSUME SetupInv, Liburing!Alloc
  PROVE  SetupInv'
<1>1. pc = "alloc" /\ params' = params /\ fds' = fds
  BY DEF Liburing!Alloc
<1>2. /\ ring = Liburing!NoRing /\ fds = {} /\ params.no_mmap /\ SetupTypes /\ Sound(mapped)
      /\ AppKept(mapped)
  BY <1>1 DEF SetupInv, SetupMemory, SetupKept, SetupDescriptors, Entered, Mapping
<1>3. Rest(mapped, {"app", "probe"})
  <2>1. Undone = {"app", "probe"}
    BY <1>1, <1>2, NoRingType DEF Undone, Pointed, Made, Liburing!Ends
  <2> QED
    BY <1>1, <2>1 DEF SetupInv, SetupKept
<1>4. CASE \E err : Liburing!Fails(err) /\ mapped' = mapped
  BY <1>1, <1>2, <1>3, <1>4, FailsKeepsSetup
<1>5. CASE /\ Liburing!ValidEntries(params.entries) /\ params.buf > 0
           /\ ring' = [Liburing!NoRing EXCEPT !.sqes = "app", !.ring_ptr = "app",
                                              !.cq_ptr = "app"]
           /\ pc' = "setup" /\ no_sqarray' = no_sqarray /\ mapped' = mapped
  <2>1. /\ ring' \in SetupRings /\ ring'.sqes = "app" /\ ring'.ring_ptr = "app"
        /\ ring'.cq_ptr = "app" /\ ring'.sq_ring_sz = 0 /\ ring'.cq_ring_sz = 0
        /\ ring'.int_flags = {} /\ ring'.ring_fd = "none"
    <3>1. "app" \in SetupNames
      BY DEF SetupNames
    <3>2. ring' = RingIn(Liburing!NoRing, "app", "app", "app")
      BY <1>5 DEF RingIn
    <3> QED
      BY <3>1, <3>2, NoRingType, RingAt
  <2>2. SetupTypes' /\ Sound(mapped)' /\ AppKept(mapped)'
    BY <1>1, <1>2, <1>5, <2>1, StillTyped, StillSound DEF SetupTypes, SetupPcs
  <2>3. SetupKept'
    BY <1>3, <1>5, <2>2 DEF SetupKept, Rest, Undone
  <2>4. SetupMemory'
    BY <1>1, <1>2, <1>5, <2>1 DEF SetupMemory, AllocatedRing, Mapping, Made, Entered
  <2>5. SetupDescriptors'
    BY <1>1, <1>2, <1>5 DEF SetupDescriptors, Entered, Mapping
  <2> QED
    BY <2>2, <2>3, <2>4, <2>5 DEF SetupInv
<1>6. CASE /\ Liburing!ValidEntries(params.entries) /\ params.buf = 0
           /\ mapped' = Liburing!Map("sqes", Liburing!BufSize(Liburing!SqesMem),
                                     Liburing!SqesMem > Liburing!PageSize)
           /\ \/ /\ ring' = [Liburing!NoRing EXCEPT !.sqes = "sqes", !.ring_ptr = "sqes",
                                                     !.cq_ptr = "sqes"]
                 /\ pc' = "setup"
              \/ ring' = [Liburing!NoRing EXCEPT !.sqes = "sqes"] /\ pc' = "alloc_ring"
           /\ no_sqarray' = no_sqarray
  <2> DEFINE size == Liburing!BufSize(Liburing!SqesMem)
             huge == Liburing!SqesMem > Liburing!PageSize
  <2>1. size \in Int /\ huge \in BOOLEAN /\ (huge \/ size <= Liburing!PageSize)
    BY <1>2, <1>6, BufSizes
  <2>2. Sized(mapped)
    BY <1>2 DEF Sound
  <2>3. mapped' = Liburing!Map("sqes", size, huge)
    BY <1>6
  <2> HIDE DEF size, huge
  <2>4. Sound(mapped') /\ AppKept(mapped')
    BY <1>2, <2>1, <2>3, MapSound
  <2>5. Added(mapped', "sqes", size, huge)
    BY <2>1, <2>2, <2>3, MapAdds
  <2>6. Rest(mapped', {"app", "probe"} \cup {"sqes"})
    BY <1>3, <2>5 DEF Added
  <2>7. /\ ring' \in SetupRings /\ ring'.sqes = "sqes" /\ ring'.int_flags = {}
        /\ ring'.ring_fd = "none" /\ ring'.sq_ring_sz = 0 /\ ring'.cq_ring_sz = 0
        /\ pc' = "setup" => ring'.ring_ptr = "sqes" /\ ring'.cq_ptr = "sqes"
        /\ pc' = "alloc_ring" => ring' = [Liburing!NoRing EXCEPT !.sqes = "sqes"]
        /\ pc' \in {"setup", "alloc_ring"}
    <3>1. "sqes" \in SetupNames
      BY DEF SetupNames
    <3>2. CASE pc' = "setup"
      <4>1. ring' = RingIn(Liburing!NoRing, "sqes", "sqes", "sqes")
        BY <1>6, <3>2 DEF RingIn
      <4> QED
        BY <3>1, <3>2, <4>1, NoRingType, RingAt
    <3>3. CASE pc' = "alloc_ring"
      <4>1. ring' = [Liburing!NoRing EXCEPT !.sqes = "sqes"]
        BY <1>6, <3>3
      <4> QED
        BY <3>3, <4>1, EntriesAt
    <3> QED
      BY <1>6, <3>2, <3>3
  <2>8. SetupTypes' /\ Sound(mapped)' /\ AppKept(mapped)'
    BY <1>1, <1>2, <1>6, <2>4, <2>7, StillTyped, StillSound DEF SetupTypes, SetupPcs
  <2>9. SetupKept'
    <3>1. "sqes" \in Undone'
      BY <2>7 DEF Undone, Pointed, Liburing!Ends
    <3> QED
      BY <2>6, <2>8, <3>1 DEF SetupKept, Rest, Undone
  <2>10. SetupMemory'
    <3>1. Liburing!ValidEntries(params.entries)'
      BY <1>1, <1>6 DEF Liburing!ValidEntries
    <3> QED
      BY <1>1, <1>2, <1>6, <2>7, <3>1 DEF SetupMemory, AllocatedRing, Mapping, Made, Entered
  <2>11. SetupDescriptors'
    BY <1>1, <1>2, <2>7 DEF SetupDescriptors, Entered, Mapping
  <2> QED
    BY <2>8, <2>9, <2>10, <2>11 DEF SetupInv
<1> QED
  BY <1>4, <1>5, <1>6 DEF Liburing!Alloc

LEMMA AllocRingKeepsSetup ==
  ASSUME SetupInv, Liburing!AllocRing
  PROVE  SetupInv'
<1>1. pc = "alloc_ring" /\ params' = params /\ fds' = fds
  BY DEF Liburing!AllocRing
<1>2. /\ ring = [Liburing!NoRing EXCEPT !.sqes = "sqes"] /\ fds = {} /\ params.no_mmap
      /\ params.buf = 0 /\ SetupTypes /\ Sound(mapped) /\ AppKept(mapped)
      /\ Liburing!ValidEntries(params.entries)
  BY <1>1 DEF SetupInv, SetupMemory, SetupKept, SetupDescriptors, Entered, Mapping
<1>3. /\ ring.sqes = "sqes" /\ ring.ring_ptr = "none" /\ ring.cq_ptr = "none"
      /\ ring.int_flags = {} /\ ring.ring_fd = "none" /\ ring.cq_ring_sz = 0
  BY <1>2 DEF Liburing!NoRing
<1>4. Rest(mapped, {"app", "probe"} \cup {"sqes"})
  <2>1. Undone = {"app", "probe"} \cup {"sqes"}
    BY <1>1, <1>3 DEF Undone, Pointed, Made, Liburing!Ends
  <2> QED
    BY <1>1, <2>1 DEF SetupInv, SetupKept
<1>5. CASE mapped' = Liburing!Unmapped(mapped, "sqes", 1) /\ Liburing!Fails("ENOMEM")
  <2>1. Sized(mapped)
    BY <1>2 DEF Sound
  <2>2. "sqes" \in DOMAIN mapped =>
          mapped["sqes"].huge
            \/ mapped["sqes"].size <= Liburing!RoundUp(1, Liburing!PageSize)
    <3>1. Liburing!RoundUp(1, Liburing!PageSize) = Liburing!PageSize
      BY DEF Liburing!RoundUp, Liburing!PageSize
    <3> QED
      BY <1>2, <3>1 DEF Sound
  <2>3. Rest(mapped', {"app", "probe"})
    BY <1>4, <1>5, <2>1, <2>2, UnmapRest
  <2>4. Sound(mapped') /\ AppKept(mapped')
    BY <1>2, <1>5, UnmapSound
  <2> QED
    BY <1>1, <1>2, <1>5, <2>3, <2>4, FailsKeepsSetup
<1>6. CASE /\ mapped' = Liburing!Map("ring", Liburing!BufSize(Liburing!RingMem),
                                     Liburing!RingMem > Liburing!PageSize)
           /\ ring' = [ring EXCEPT !.ring_ptr = "ring", !.cq_ptr = "ring",
                                   !.sq_ring_sz = Liburing!BufSize(Liburing!RingMem)]
           /\ pc' = "setup" /\ no_sqarray' = no_sqarray
  <2> DEFINE size == Liburing!BufSize(Liburing!RingMem)
             huge == Liburing!RingMem > Liburing!PageSize
  <2>1. /\ size \in Int /\ huge \in BOOLEAN /\ (huge \/ size <= Liburing!PageSize)
        /\ size \in {Liburing!PageSize, Liburing!HugePageSize}
    BY <1>2, <1>6, BufSizes
  <2>2. Sized(mapped)
    BY <1>2 DEF Sound
  <2>3. /\ mapped' = Liburing!Map("ring", size, huge)
        /\ ring' = [ring EXCEPT !.ring_ptr = "ring", !.cq_ptr = "ring", !.sq_ring_sz = size]
    BY <1>6
  <2> HIDE DEF size, huge
  <2>4. Sound(mapped') /\ AppKept(mapped')
    BY <1>2, <2>1, <2>3, MapSound
  <2>5. Added(mapped', "ring", size, huge)
    BY <2>1, <2>2, <2>3, MapAdds
  <2>6. Rest(mapped', ({"app", "probe"} \cup {"sqes"}) \cup {"ring"})
    BY <1>4, <2>5 DEF Added
  <2>7. /\ ring' \in SetupRings /\ ring'.sqes = "sqes" /\ ring'.int_flags = {}
        /\ ring'.ring_fd = "none" /\ ring'.sq_ring_sz = size /\ ring'.cq_ring_sz = 0
        /\ ring'.ring_ptr = "ring" /\ ring'.cq_ptr = "ring"
    <3>1. ring \in SetupRings
      BY <1>2 DEF SetupTypes
    <3> QED
      BY <1>3, <2>1, <2>3, <3>1 DEF SetupRings, SetupNames
  <2>8. SetupTypes' /\ Sound(mapped)' /\ AppKept(mapped)'
    BY <1>1, <1>2, <1>6, <2>4, <2>7, StillTyped, StillSound DEF SetupTypes, SetupPcs
  <2>9. SetupKept'
    <3>1. "sqes" \in Undone' /\ "ring" \in Undone'
      BY <1>6, <2>7 DEF Undone, Pointed, Liburing!Ends
    <3> QED
      BY <2>6, <2>8, <3>1 DEF SetupKept, Rest, Undone
  <2>10. SetupMemory'
    BY <1>1, <1>2, <1>6, <2>1, <2>7 DEF SetupMemory, AllocatedRing, Mapping, Made, Entered
  <2>11. SetupDescriptors'
    BY <1>1, <1>2, <1>6 DEF SetupDescriptors, Entered, Mapping
  <2> QED
    BY <2>8, <2>9, <2>10, <2>11 DEF SetupInv
<1> QED
  BY <1>5, <1>6 DEF Liburing!AllocRing

(* io_uring_unmap_rings where the rings have one mapping, or none.         *)
LEMMA OneMapping ==
  ASSUME SetupTypes, NEW m,
         ring.cq_ptr = "none" \/ ring.cq_ring_sz = 0 \/ ring.cq_ptr = ring.ring_ptr
  PROVE  Liburing!RingsUnmapped(m)
           = IF ring.sq_ring_sz > 0 THEN Liburing!Unmapped(m, ring.ring_ptr, ring.sq_ring_sz)
                                    ELSE m
BY DEF Liburing!RingsUnmapped

(* A ring from io_uring_alloc_huge is taken down. *)
LEMMA AllocatedUndone ==
  ASSUME SetupTypes, AllocatedRing, Sound(mapped), params.no_mmap, NEW length \in Nat,
         length > 0, Rest(mapped, {"app", "probe"} \cup {ring.sqes, ring.ring_ptr, ring.cq_ptr})
  PROVE  LET u == Liburing!RingsUnmapped(Liburing!Unmapped(mapped, ring.sqes, length))
         IN  /\ Rest(u, {"app", "probe"}) /\ Sound(u)
             /\ AppKept(mapped) /\ params.buf = 0 => AppKept(u)
<1> DEFINE v == Liburing!Unmapped(mapped, ring.sqes, length)
           u == Liburing!RingsUnmapped(v)
           Page == Liburing!PageSize
<1>1. u = IF ring.sq_ring_sz > 0 THEN Liburing!Unmapped(v, ring.ring_ptr, ring.sq_ring_sz)
                                 ELSE v
  <2>1. ring.cq_ring_sz = 0
    BY DEF AllocatedRing
  <2> HIDE DEF v
  <2> QED
    BY <2>1, OneMapping
<1>2. Sized(mapped)
  BY DEF Sound
<1>3. Liburing!RoundUp(length, Page) >= Page /\ Liburing!RoundUp(length, Page) \in Nat
  BY PagesOf
<1>4. Page \in Nat
  BY DEF Liburing!PageSize
<1>5. CASE ring.sqes = "app" /\ ring.ring_ptr = "app" /\ ring.cq_ptr = "app"
           /\ ring.sq_ring_sz = 0 /\ params.buf > 0
  <2>1. u = v /\ v = Liburing!Unmapped(mapped, "app", length)
    BY <1>1, <1>5
  <2>2. Sound(v)
    BY <2>1, UnmapSound
  <2>3. Rest(mapped, {"app", "probe"})
    BY <1>5 DEF Rest
  <2>4. \A n \in DOMAIN v : n \in DOMAIN mapped /\ (v[n].huge <=> mapped[n].huge)
    BY <1>2, UnmapKeeps
  <2> HIDE DEF v
  <2>5. Rest(v, {"app", "probe"})
    BY <2>3, <2>4 DEF Rest
  <2> QED
    BY <1>5, <2>1, <2>2, <2>5 DEF v
<1>6. CASE ring.sqes = "sqes"
  <2>1. "sqes" \in DOMAIN mapped =>
          mapped["sqes"].huge \/ mapped["sqes"].size <= Liburing!RoundUp(length, Page)
    <3>1. "sqes" \in DOMAIN mapped => mapped["sqes"].size \in Int
      BY <1>2 DEF Sized
    <3>2. "sqes" \in DOMAIN mapped => mapped["sqes"].huge \/ mapped["sqes"].size <= Page
      BY DEF Sound
    <3> QED
      BY <1>3, <1>4, <3>1, <3>2
  <2>2. v = Liburing!Unmapped(mapped, "sqes", length)
    BY <1>6
  <2>3. \A S : Rest(mapped, S \cup {"sqes"}) => Rest(v, S)
    BY <1>2, <2>1, <2>2, UnmapRest
  <2>4. Sound(v) /\ (AppKept(mapped) => AppKept(v))
    BY <2>2, UnmapSound
  <2>5. CASE ring.ring_ptr = "sqes" /\ ring.cq_ptr = "sqes" /\ ring.sq_ring_sz = 0
    <3>1. u = v
      BY <1>1, <2>5
    <3>2. Rest(mapped, {"app", "probe"} \cup {"sqes"})
      BY <1>6, <2>5
    <3> QED
      BY <2>3, <2>4, <3>1, <3>2
  <2>6. CASE ring.ring_ptr = "ring" /\ ring.cq_ptr = "ring"
             /\ ring.sq_ring_sz \in {Liburing!PageSize, Liburing!HugePageSize}
    <3> DEFINE size == ring.sq_ring_sz
    <3>1. size \in Nat /\ size > 0
      BY <2>6 DEF Liburing!PageSize, Liburing!HugePageSize
    <3>2. u = Liburing!Unmapped(v, "ring", size)
      BY <1>1, <2>6, <3>1
    <3>3. Rest(v, {"app", "probe"} \cup {"ring"})
      <4>1. Rest(mapped, ({"app", "probe"} \cup {"ring"}) \cup {"sqes"})
        BY <1>6, <2>6 DEF Rest
      <4> QED
        BY <2>3, <4>1
    <3> HIDE DEF v, u, size
    <3>4. Sized(v) /\ ("ring" \in DOMAIN v => v["ring"].huge \/ v["ring"].size <= Page)
      BY <2>4 DEF Sound
    <3>5. Liburing!RoundUp(size, Page) >= Page /\ Liburing!RoundUp(size, Page) \in Nat
      BY <3>1, PagesOf
    <3>6. "ring" \in DOMAIN v =>
            v["ring"].huge \/ v["ring"].size <= Liburing!RoundUp(size, Page)
      <4>1. "ring" \in DOMAIN v => v["ring"].size \in Int
        BY <3>4 DEF Sized
      <4> QED
        BY <1>4, <3>4, <3>5, <4>1
    <3>7. Rest(u, {"app", "probe"})
      BY <3>1, <3>2, <3>3, <3>4, <3>6, UnmapRest
    <3>8. Sound(u) /\ (AppKept(v) => AppKept(u))
      BY <2>4, <3>1, <3>2, UnmapSound
    <3> QED
      BY <2>4, <3>7, <3>8 DEF u, v
  <2> QED
    BY <1>6, <2>5, <2>6 DEF AllocatedRing
<1> QED
  BY <1>5, <1>6 DEF AllocatedRing

LEMMA SetupFailsKeepsSetup ==
  ASSUME SetupInv, NEW err, Liburing!SetupFails(err)
  PROVE  SetupInv'
<1>1. /\ pc = "setup" /\ params' = params /\ fds' = {} /\ Liburing!Fails(err)
      /\ mapped' = Liburing!AfterSetupFailed
  BY DEF Liburing!SetupFails
<1>2. SetupTypes /\ Sound(mapped) /\ AppKept(mapped)
  BY <1>1 DEF SetupInv, SetupKept
<1>3. Undone = {"app", "probe"} \cup ({ring.sqes, ring.ring_ptr, ring.cq_ptr} \ {"none"})
  BY <1>1 DEF Undone, Pointed, Made, Liburing!Ends
<1>4. Rest(mapped, Undone)
  BY <1>1 DEF SetupInv, SetupKept
<1>5. CASE params.no_mmap /\ params.buf = 0
  <2>1. AllocatedRing
    BY <1>1, <1>5 DEF SetupInv, SetupMemory
  <2>2. mapped' = Liburing!RingsUnmapped(Liburing!Unmapped(mapped, ring.sqes, 1))
    BY <1>1, <1>5 DEF Liburing!AfterSetupFailed
  <2>3. Rest(mapped, {"app", "probe"} \cup {ring.sqes, ring.ring_ptr, ring.cq_ptr})
    BY <1>3, <1>4 DEF Rest
  <2>4. Rest(mapped', {"app", "probe"}) /\ Sound(mapped') /\ AppKept(mapped')
    BY <1>2, <1>5, <2>1, <2>2, <2>3, AllocatedUndone
  <2> QED
    BY <1>1, <2>4, FailsKeepsSetup
<1>6. CASE ~(params.no_mmap /\ params.buf = 0)
  <2>1. mapped' = mapped
    BY <1>1, <1>6 DEF Liburing!AfterSetupFailed
  <2>2. Undone = {"app", "probe"}
    <3>1. CASE params.no_mmap
      <4>1. ring.sqes = "app" /\ ring.ring_ptr = "app" /\ ring.cq_ptr = "app"
        BY <1>1, <1>6, <3>1 DEF SetupInv, SetupMemory, AllocatedRing
      <4> QED
        BY <1>3, <4>1
    <3>2. CASE ~params.no_mmap
      <4>1. ring.sqes = "none" /\ ring.ring_ptr = "none" /\ ring.cq_ptr = "none"
        BY <1>1, <3>2 DEF SetupInv, SetupMemory
      <4> QED
        BY <1>3, <4>1
    <3> QED
      BY <3>1, <3>2
  <2>3. Rest(mapped', {"app", "probe"}) /\ Sound(mapped') /\ AppKept(mapped')
    BY <1>2, <1>4, <2>1, <2>2
  <2> QED
    BY <1>1, <2>3, FailsKeepsSetup
<1> QED
  BY <1>5, <1>6

(* A ring with other descriptors: its memory is the same. *)
SameMemory(r, memory) ==
  /\ r \in SetupRings /\ r.sqes = memory.sqes /\ r.ring_ptr = memory.ring_ptr
  /\ r.cq_ptr = memory.cq_ptr /\ r.sq_ring_sz = memory.sq_ring_sz
  /\ r.cq_ring_sz = memory.cq_ring_sz

LEMMA RingOpens ==
  \A memory \in SetupRings :
    /\ LET r == [memory EXCEPT !.enter_ring_fd = "slot", !.int_flags = {"REG_RING", "REG_REG_RING"}]
       IN  /\ SameMemory(r, memory)
           /\ r.enter_ring_fd = "slot" /\ r.int_flags = {"REG_RING", "REG_REG_RING"}
           /\ r.ring_fd = memory.ring_fd
    /\ LET r == [memory EXCEPT !.ring_fd = "ring_fd", !.enter_ring_fd = "ring_fd"]
       IN  /\ SameMemory(r, memory)
           /\ r.enter_ring_fd = "ring_fd" /\ r.int_flags = memory.int_flags
           /\ r.ring_fd = "ring_fd"
BY DEF SetupRings, SameMemory

LEMMA SetupSucceedsKeepsSetup ==
  ASSUME SetupInv, Liburing!SetupSucceeds
  PROVE  SetupInv'
<1> DEFINE memory == IF params.no_mmap THEN ring ELSE Liburing!NoRing
<1>1. /\ pc = "setup" /\ params' = params /\ mapped' = mapped /\ no_sqarray' = no_sqarray
      /\ Liburing!ValidEntries(params.entries)
      /\ pc' = IF params.no_mmap THEN "ready" ELSE "map_sq"
  BY DEF Liburing!SetupSucceeds
<1>2. /\ SetupTypes /\ Sound(mapped) /\ AppKept(mapped) /\ ring \in SetupRings
      /\ ring.int_flags = {} /\ ring.ring_fd = "none"
  BY <1>1 DEF SetupInv, SetupKept, SetupTypes, SetupMemory
<1>3. memory \in SetupRings /\ memory.int_flags = {} /\ memory.ring_fd = "none"
  BY <1>2, NoRingType
<1>4. \/ fds' = {"slot"} /\ ring' = [memory EXCEPT !.enter_ring_fd = "slot",
                                                   !.int_flags = {"REG_RING", "REG_REG_RING"}]
      \/ fds' = {"ring_fd"} /\ ring' = [memory EXCEPT !.ring_fd = "ring_fd",
                                                      !.enter_ring_fd = "ring_fd"]
  BY DEF Liburing!SetupSucceeds
<1> HIDE DEF memory
<1>5. SameMemory(ring', memory)
  BY <1>3, <1>4, RingOpens, Zenon
<1>6. Descriptors'
  <2>1. CASE fds' = {"slot"} /\ ring' = [memory EXCEPT !.enter_ring_fd = "slot",
                                                   !.int_flags = {"REG_RING", "REG_REG_RING"}]
    <3>1. /\ ring'.enter_ring_fd = "slot" /\ ring'.int_flags = {"REG_RING", "REG_REG_RING"}
          /\ ring'.ring_fd = "none"
      BY <1>3, <2>1, RingOpens, Zenon
    <3> QED
      BY <2>1, <3>1 DEF Descriptors
  <2>2. CASE fds' = {"ring_fd"} /\ ring' = [memory EXCEPT !.ring_fd = "ring_fd",
                                                      !.enter_ring_fd = "ring_fd"]
    <3>1. ring'.enter_ring_fd = "ring_fd" /\ ring'.int_flags = {} /\ ring'.ring_fd = "ring_fd"
      BY <1>3, <2>2, RingOpens, Zenon
    <3> QED
      BY <2>2, <3>1 DEF Descriptors
  <2> QED
    BY <1>4, <2>1, <2>2
<1>7. SetupTypes' /\ Sound(mapped)' /\ AppKept(mapped)'
  BY <1>1, <1>2, <1>5, StillTyped, StillSound DEF SetupTypes, SetupPcs, SameMemory
<1>8. Liburing!ValidEntries(params.entries)'
  BY <1>1 DEF Liburing!ValidEntries
<1>9. CASE params.no_mmap
  <2>1. /\ ring'.sqes = ring.sqes /\ ring'.ring_ptr = ring.ring_ptr /\ ring'.cq_ptr = ring.cq_ptr
        /\ ring'.sq_ring_sz = ring.sq_ring_sz /\ ring'.cq_ring_sz = ring.cq_ring_sz
    BY <1>5, <1>9 DEF memory, SameMemory
  <2>2. pc' = "ready" /\ params'.no_mmap
    BY <1>1, <1>9
  <2>3. AllocatedRing
    BY <1>1, <1>9 DEF SetupInv, SetupMemory
  <2>4. AllocatedRing'
    BY <1>1, <2>1, <2>3 DEF AllocatedRing
  <2>5. SetupKept'
    <3>1. Undone \subseteq Undone' /\ Rest(mapped, Undone)
      BY <1>1, <2>1, <2>2 DEF SetupInv, SetupKept, Undone, Pointed, Liburing!Ends, Made
    <3> QED
      BY <1>1, <1>7, <3>1 DEF SetupKept, Rest
  <2>6. SetupMemory'
    BY <1>8, <2>2, <2>4 DEF SetupMemory, Made, Entered, Mapping
  <2>7. SetupDescriptors'
    BY <1>6, <2>2 DEF SetupDescriptors, Entered, Mapping
  <2> QED
    BY <1>7, <2>5, <2>6, <2>7 DEF SetupInv
<1>10. CASE ~params.no_mmap
  <2>1. ring'.sqes = "none" /\ ring'.ring_ptr = "none" /\ ring'.cq_ptr = "none"
    <3>1. memory = Liburing!NoRing
      BY ONLY <1>10 DEF memory
    <3>2. ring'.sqes = memory.sqes /\ ring'.ring_ptr = memory.ring_ptr
          /\ ring'.cq_ptr = memory.cq_ptr
      BY ONLY <1>5 DEF SameMemory
    <3> QED
      BY ONLY <3>1, <3>2, NoRingType
  <2>2. ring.sqes = "none" /\ ring.ring_ptr = "none" /\ ring.cq_ptr = "none"
    BY <1>1, <1>10 DEF SetupInv, SetupMemory
  <2>3. pc' = "map_sq" /\ ~params'.no_mmap
    BY <1>1, <1>10
  <2>4. SetupKept'
    <3>1. Undone \subseteq Undone' /\ Rest(mapped, Undone)
      BY <1>1, <2>2, <2>3 DEF SetupInv, SetupKept, Undone, Pointed, Liburing!Ends, Made
    <3> QED
      BY <1>1, <1>7, <3>1 DEF SetupKept, Rest
  <2>5. SetupMemory'
    BY <1>8, <2>1, <2>3 DEF SetupMemory, Made, Entered, Mapping
  <2>6. SetupDescriptors'
    BY <1>6, <2>3 DEF SetupDescriptors, Entered, Mapping
  <2> QED
    BY <1>7, <2>4, <2>5, <2>6 DEF SetupInv
<1> QED
  BY <1>9, <1>10

(* The mappings that io_uring_unmap_rings undoes. *)
RingNames == {"sq_ring"} \cup IF ring.cq_ptr = "cq_ring" THEN {"cq_ring"} ELSE {}

MappedRings(m) ==
  /\ ring.ring_ptr = "sq_ring" /\ Upto(ring.sq_ring_sz, Liburing!CqRingSize)
  /\ Lies(m, "sq_ring", Liburing!RoundUp(ring.sq_ring_sz, Liburing!PageSize))
  /\ \/ ring.cq_ptr \in {"none", "sq_ring"}
     \/ /\ ring.cq_ptr = "cq_ring" /\ ring.cq_ring_sz = Liburing!CqRingSize
        /\ Lies(m, "cq_ring", Liburing!RoundUp(Liburing!CqRingSize, Liburing!PageSize))

LEMMA RingsSound ==
  ASSUME SetupTypes, NEW m, Sound(m)
  PROVE  Sound(Liburing!RingsUnmapped(m))
<1> DEFINE one == IF ring.sq_ring_sz > 0
                  THEN Liburing!Unmapped(m, ring.ring_ptr, ring.sq_ring_sz) ELSE m
<1>1. /\ ring.ring_ptr \notin {"buf_ring", "probe"} /\ ring.cq_ptr \notin {"buf_ring", "probe"}
      /\ ring.sq_ring_sz \in Int /\ ring.cq_ring_sz \in Int
  BY DEF SetupTypes, SetupRings, SetupNames
<1>2. Sound(one)
  <2>1. CASE ring.sq_ring_sz > 0
    <3>1. ring.sq_ring_sz \in Nat
      BY <1>1, <2>1
    <3> QED
      BY <1>1, <2>1, <3>1, UnmapSound
  <2>2. CASE ~(ring.sq_ring_sz > 0)
    BY <2>2
  <2> QED
    BY <2>1, <2>2
<1>3. Liburing!RingsUnmapped(m)
        = IF ring.cq_ptr # "none" /\ ring.cq_ring_sz > 0 /\ ring.cq_ptr # ring.ring_ptr
          THEN Liburing!Unmapped(one, ring.cq_ptr, ring.cq_ring_sz) ELSE one
  BY DEF Liburing!RingsUnmapped
<1> HIDE DEF one
<1>4. CASE ring.cq_ring_sz > 0
  <2>1. ring.cq_ring_sz \in Nat
    BY <1>1, <1>4
  <2>2. Sound(Liburing!Unmapped(one, ring.cq_ptr, ring.cq_ring_sz))
    BY ONLY <1>1, <1>2, <2>1, UnmapSound
  <2> QED
    BY <1>2, <1>3, <2>2
<1>5. CASE ~(ring.cq_ring_sz > 0)
  BY <1>2, <1>3, <1>5
<1> QED
  BY <1>4, <1>5

LEMMA MappedUndone ==
  ASSUME SetupTypes, Liburing!ValidEntries(params.entries), NEW m, NEW S, Sound(m),
         MappedRings(m), Rest(m, S \cup RingNames)
  PROVE  Rest(Liburing!RingsUnmapped(m), S)
<1> DEFINE sq == ring.sq_ring_sz
           one == Liburing!Unmapped(m, "sq_ring", sq)
           larger == Liburing!CqRingSize
<1>1. larger \in Nat /\ larger > 0
  BY RingSizes DEF Upto
<1>2. sq \in Nat /\ sq > 0 /\ ring.ring_ptr = "sq_ring"
  BY DEF MappedRings, Upto
<1>3. Sized(m)
  BY DEF Sound
<1>4. \A T : Rest(m, T \cup {"sq_ring"}) => Rest(one, T)
  <2>1. m["sq_ring"].size = Liburing!RoundUp(sq, Liburing!PageSize)
    BY DEF MappedRings, Lies
  <2>2. Liburing!RoundUp(sq, Liburing!PageSize) \in Nat
    BY <1>2, PagesOf
  <2>3. m["sq_ring"].size <= Liburing!RoundUp(sq, Liburing!PageSize)
    BY <2>1, <2>2
  <2> HIDE DEF sq
  <2> QED
    BY <1>2, <1>3, <2>3, UnmapRest
<1>5. /\ Sized(one)
      /\ \A n \in DOMAIN m : n # "sq_ring" => n \in DOMAIN one /\ one[n] = m[n]
  BY <1>2, <1>3, UnmapKeeps
<1>6. Liburing!RingsUnmapped(m)
        = IF ring.cq_ptr # "none" /\ ring.cq_ring_sz > 0 /\ ring.cq_ptr # "sq_ring"
          THEN Liburing!Unmapped(one, ring.cq_ptr, ring.cq_ring_sz) ELSE one
  BY <1>2 DEF Liburing!RingsUnmapped
<1> HIDE DEF one, sq
<1>7. CASE ring.cq_ptr \in {"none", "sq_ring"}
  <2>1. Rest(m, S \cup {"sq_ring"})
    BY <1>7 DEF RingNames
  <2> QED
    BY <1>4, <1>6, <1>7, <2>1
<1>8. CASE /\ ring.cq_ptr = "cq_ring" /\ ring.cq_ring_sz = Liburing!CqRingSize
           /\ Lies(m, "cq_ring", Liburing!RoundUp(Liburing!CqRingSize, Liburing!PageSize))
  <2>1. Liburing!RingsUnmapped(m) = Liburing!Unmapped(one, "cq_ring", larger)
    BY <1>1, <1>6, <1>8
  <2>2. Rest(one, S \cup {"cq_ring"})
    <3>1. Rest(m, (S \cup {"cq_ring"}) \cup {"sq_ring"})
      BY <1>8 DEF RingNames, Rest
    <3> QED
      BY <1>4, <3>1
  <2>3. one["cq_ring"].size = Liburing!RoundUp(larger, Liburing!PageSize)
    BY <1>5, <1>8 DEF Lies
  <2>4. Liburing!RoundUp(larger, Liburing!PageSize) \in Nat
    BY <1>1, PagesOf
  <2>5. one["cq_ring"].size <= Liburing!RoundUp(larger, Liburing!PageSize)
    BY <2>3, <2>4
  <2> HIDE DEF larger
  <2> QED
    BY <1>1, <1>5, <2>1, <2>2, <2>5, UnmapRest
<1> QED
  BY <1>7, <1>8 DEF MappedRings

SameFds(r) ==
  r.int_flags = ring.int_flags /\ r.ring_fd = ring.ring_fd /\ r.enter_ring_fd = ring.enter_ring_fd

LEMMA SameDescriptors ==
  ASSUME Descriptors, params' = params, fds' = fds, SameFds(ring')
  PROVE  Descriptors'
BY DEF Descriptors, SameFds

RingsIn(r, size, half, name) ==
  [r EXCEPT !.ring_ptr = "sq_ring", !.sq_ring_sz = size, !.cq_ring_sz = half, !.cq_ptr = name]

SameBut(r, name, size, half) ==
  /\ r \in SetupRings /\ r.cq_ptr = name /\ r.sq_ring_sz = size /\ r.cq_ring_sz = half
  /\ SameFds(r)

LEMMA RingMapped ==
  ASSUME ring \in SetupRings
  PROVE  /\ \A size, half \in Int : \A name \in SetupNames :
              LET r == RingsIn(ring, size, half, name)
              IN  SameBut(r, name, size, half) /\ r.sqes = ring.sqes /\ r.ring_ptr = "sq_ring"
         /\ LET r == [ring EXCEPT !.cq_ptr = "cq_ring"]
            IN  /\ SameBut(r, "cq_ring", ring.sq_ring_sz, ring.cq_ring_sz)
                /\ r.sqes = ring.sqes /\ r.ring_ptr = ring.ring_ptr
         /\ LET r == [ring EXCEPT !.sqes = "sqes"]
            IN  /\ SameBut(r, ring.cq_ptr, ring.sq_ring_sz, ring.cq_ring_sz)
                /\ r.sqes = "sqes" /\ r.ring_ptr = ring.ring_ptr
<1> USE DEF SetupRings, SameBut, SameFds
<1>1. "sq_ring" \in SetupNames /\ "cq_ring" \in SetupNames /\ "sqes" \in SetupNames
  BY DEF SetupNames
<1>2. \A size, half \in Int : \A name \in SetupNames :
        LET r == RingsIn(ring, size, half, name)
        IN  SameBut(r, name, size, half) /\ r.sqes = ring.sqes /\ r.ring_ptr = "sq_ring"
  <2> TAKE size, half \in Int
  <2> TAKE name \in SetupNames
  <2> DEFINE r == RingsIn(ring, size, half, name)
             a == [ring EXCEPT !.ring_ptr = "sq_ring", !.sq_ring_sz = size]
  <2>1. /\ a \in SetupRings /\ a.ring_ptr = "sq_ring" /\ a.sq_ring_sz = size
        /\ a.sqes = ring.sqes /\ SameFds(a)
    BY <1>1
  <2>2. r = [a EXCEPT !.cq_ring_sz = half, !.cq_ptr = name]
    BY DEF RingsIn
  <2> HIDE DEF a, r
  <2>3. /\ r \in SetupRings /\ r.cq_ring_sz = half /\ r.cq_ptr = name
        /\ r.ring_ptr = a.ring_ptr /\ r.sq_ring_sz = a.sq_ring_sz
        /\ r.sqes = a.sqes
    BY <2>1, <2>2
  <2>4. r.int_flags = a.int_flags /\ r.ring_fd = a.ring_fd /\ r.enter_ring_fd = a.enter_ring_fd
    BY <2>1, <2>2
  <2> QED
    BY <2>1, <2>3, <2>4 DEF r
<1>3. LET r == [ring EXCEPT !.cq_ptr = "cq_ring"]
      IN  /\ SameBut(r, "cq_ring", ring.sq_ring_sz, ring.cq_ring_sz)
          /\ r.sqes = ring.sqes /\ r.ring_ptr = ring.ring_ptr
  BY <1>1
<1>4. LET r == [ring EXCEPT !.sqes = "sqes"]
      IN  /\ SameBut(r, ring.cq_ptr, ring.sq_ring_sz, ring.cq_ring_sz)
          /\ r.sqes = "sqes" /\ r.ring_ptr = ring.ring_ptr
  BY <1>1
<1> QED
  BY <1>2, <1>3, <1>4

(* A mapping of the kernel's ring is added to what is to be undone.        *)
LEMMA KernelMaps ==
  ASSUME SetupInv, ~params.no_mmap, NEW name \in {"sq_ring", "cq_ring", "sqes"},
         NEW size \in Nat,
         mapped' = Liburing!Map(name, size, FALSE), params' = params,
         Undone \cup {name} \subseteq Undone', pc \notin Liburing!Ends
  PROVE  /\ Sound(mapped)' /\ SetupKept' /\ Lies(mapped', name, size)
         /\ \A n : \A s : n # name /\ Lies(mapped, n, s) => Lies(mapped', n, s)
<1>1. Sound(mapped) /\ AppKept(mapped) /\ Rest(mapped, Undone)
  BY DEF SetupInv, SetupKept, Liburing!Ends
<1>2. Sound(mapped') /\ AppKept(mapped')
  <2> DEFINE huge == FALSE
  <2>1. huge \in BOOLEAN /\ ~huge /\ size \in Int /\ name \notin {"buf_ring", "probe", "app"}
        /\ mapped' = Liburing!Map(name, size, huge)
    OBVIOUS
  <2> HIDE DEF huge
  <2> QED
    BY <1>1, <2>1, MapSound
<1>3. Sound(mapped)' /\ AppKept(mapped)'
  BY <1>2, StillSound
<1>4. Added(mapped', name, size, FALSE)
  <2>1. Sized(mapped) /\ size \in Int
    BY <1>1 DEF Sound
  <2> QED
    BY <2>1, MapAdds
<1>5. Rest(mapped', Undone \cup {name})
  BY <1>1, <1>4 DEF Added
<1>6. SetupKept'
  BY <1>3, <1>5 DEF SetupKept, Rest
<1>7. Lies(mapped', name, size) /\ \A n : \A s : n # name /\ Lies(mapped, n, s) => Lies(mapped', n, s)
  BY <1>4 DEF Added, Lies
<1> QED
  BY <1>3, <1>6, <1>7

LEMMA MapSqKeepsSetup ==
  ASSUME SetupInv, Liburing!MapSq
  PROVE  SetupInv'
<1>1. pc = "map_sq" /\ params' = params
  BY DEF Liburing!MapSq
<1>2. /\ SetupTypes /\ ring \in SetupRings /\ Sound(mapped) /\ AppKept(mapped) /\ ~params.no_mmap
      /\ Liburing!ValidEntries(params.entries)
      /\ ring.sqes = "none" /\ ring.ring_ptr = "none" /\ ring.cq_ptr = "none" /\ Descriptors
  BY <1>1 DEF SetupInv, SetupTypes, SetupMemory, SetupKept, SetupDescriptors, Entered, Mapping
<1>3. Undone = {"app", "probe"} /\ Rest(mapped, Undone)
  BY <1>1, <1>2 DEF SetupInv, SetupKept, Undone, Pointed, Made, Liburing!Ends
<1>4. CASE fds' = {} /\ Liburing!Fails("ENOMEM") /\ mapped' = mapped
  BY <1>1, <1>2, <1>3, <1>4, FailsKeepsSetup
<1> DEFINE size == IF params.single_mmap THEN Liburing!LargerRing ELSE Liburing!SqRingSize
           half == IF params.single_mmap THEN size ELSE Liburing!CqRingSize
           name == IF params.single_mmap THEN "sq_ring" ELSE "none"
<1>5. CASE /\ mapped' = Liburing!Map("sq_ring", Liburing!RoundUp(size, Liburing!PageSize), FALSE)
           /\ ring' = [ring EXCEPT !.ring_ptr = "sq_ring", !.sq_ring_sz = size,
                          !.cq_ring_sz = half, !.cq_ptr = name]
           /\ pc' = IF params.single_mmap THEN "map_sqes" ELSE "map_cq"
           /\ no_sqarray' = no_sqarray /\ fds' = fds
  <2>1. /\ Upto(size, Liburing!CqRingSize) /\ half = Liburing!CqRingSize
        /\ size \in Nat /\ half \in Int /\ name \in SetupNames
    <3>1. /\ Liburing!LargerRing = Liburing!CqRingSize /\ Liburing!CqRingSize \in Nat
          /\ Upto(Liburing!CqRingSize, Liburing!CqRingSize)
          /\ Upto(Liburing!SqRingSize, Liburing!CqRingSize) /\ Liburing!SqRingSize \in Nat
      BY <1>2, RingSizes DEF Upto
    <3> QED
      BY <3>1 DEF SetupNames
  <2>2. Liburing!RoundUp(size, Liburing!PageSize) \in Nat
    BY <2>1, PagesOf
  <2>3. params.single_mmap \in BOOLEAN
    BY <1>2 DEF SetupTypes
  <2>4. IF params.single_mmap THEN name = "sq_ring" /\ pc' = "map_sqes"
                              ELSE name = "none" /\ pc' = "map_cq"
    BY <1>5
  <2> HIDE DEF size, half, name
  <2>5. /\ ring' \in SetupRings /\ ring'.sqes = "none" /\ ring'.ring_ptr = "sq_ring"
        /\ ring'.cq_ptr = name /\ ring'.sq_ring_sz = size /\ ring'.cq_ring_sz = half
        /\ SameFds(ring')
    <3>1. ring' = RingsIn(ring, size, half, name)
      BY <1>5 DEF RingsIn
    <3> QED
      BY <1>2, <2>1, <3>1, RingMapped DEF SameBut
  <2>6. Undone \cup {"sq_ring"} \subseteq Undone' /\ pc \notin Liburing!Ends
    BY <1>1, <1>3, <2>4, <2>5 DEF Undone, Pointed, Liburing!Ends
  <2>7. /\ Sound(mapped)' /\ SetupKept'
        /\ Lies(mapped', "sq_ring", Liburing!RoundUp(size, Liburing!PageSize))
    BY <1>1, <1>2, <1>5, <2>2, <2>6, KernelMaps
  <2>8. SetupTypes'
    BY <1>1, <1>2, <1>5, <2>4, <2>5, StillTyped DEF SetupTypes, SetupPcs
  <2>9. MappedRing'
    <3>1. Liburing!CqRingSize' = Liburing!CqRingSize
      BY <1>1, <1>5, StillSized
    <3>3. ring'.ring_ptr = "sq_ring" /\ Upto(ring.sq_ring_sz, Liburing!CqRingSize)'
      BY <2>1, <2>5, <3>1 DEF Upto
    <3>4. Lies(mapped, "sq_ring", Liburing!RoundUp(ring.sq_ring_sz, Liburing!PageSize))'
      BY <2>5, <2>7 DEF Lies, Liburing!RoundUp, Liburing!PageSize
    <3>5. CASE pc' = "map_sqes" /\ name = "sq_ring"
      BY <2>5, <3>3, <3>4, <3>5 DEF MappedRing
    <3>6. CASE pc' = "map_cq" /\ name = "none"
      BY <2>1, <2>5, <3>1, <3>3, <3>4, <3>6 DEF MappedRing
    <3> QED
      BY <2>4, <3>5, <3>6
  <2>10. SetupMemory'
    <3>1. Liburing!ValidEntries(params.entries)'
      BY <1>1, <1>2 DEF Liburing!ValidEntries
    <3>2. pc' \in {"map_sqes", "map_cq"} /\ ~params'.no_mmap
      BY <1>1, <1>2, <2>4
    <3> QED
      BY <2>9, <3>1, <3>2 DEF SetupMemory, Mapping, Made, Entered
  <2>11. SetupDescriptors'
    BY <1>1, <1>2, <1>5, <2>4, <2>5, SameDescriptors DEF SetupDescriptors, Entered, Mapping
  <2> QED
    BY <2>7, <2>8, <2>10, <2>11 DEF SetupInv
<1> QED
  BY <1>4, <1>5 DEF Liburing!MapSq

(* io_uring_mmap fails: the rings that are mapped so far are undone.       *)
LEMMA MappingFails ==
  ASSUME SetupInv, pc \in {"map_cq", "map_sqes"}, params' = params, fds' = {},
         mapped' = Liburing!RingsUnmapped(mapped), Liburing!Fails("ENOMEM")
  PROVE  SetupInv'
<1>1. /\ SetupTypes /\ Sound(mapped) /\ AppKept(mapped) /\ ~params.no_mmap /\ MappedRing
      /\ Liburing!ValidEntries(params.entries) /\ Rest(mapped, Undone)
  BY DEF SetupInv, SetupMemory, SetupKept, Mapping, Entered
<1>2. MappedRings(mapped) /\ ring.sqes = "none" /\ ring.ring_ptr = "sq_ring"
      /\ ring.cq_ptr \in {"none", "sq_ring", "cq_ring"}
  BY <1>1 DEF MappedRing, MappedRings
<1>3. Undone = {"app", "probe"} \cup RingNames
  BY <1>2 DEF Undone, Pointed, Made, Liburing!Ends, RingNames
<1>4. Rest(mapped', {"app", "probe"})
  BY <1>1, <1>2, <1>3, MappedUndone
<1>5. Sound(mapped') /\ AppKept(mapped')
  BY <1>1, RingsSound DEF AppKept, SetupTypes
<1> QED
  BY <1>4, <1>5, FailsKeepsSetup

LEMMA MapCqKeepsSetup ==
  ASSUME SetupInv, Liburing!MapCq
  PROVE  SetupInv'
<1>1. pc = "map_cq" /\ params' = params
  BY DEF Liburing!MapCq
<1>2. /\ SetupTypes /\ ring \in SetupRings /\ ~params.no_mmap /\ MappedRing
      /\ Liburing!ValidEntries(params.entries) /\ Descriptors
  BY <1>1 DEF SetupInv, SetupTypes, SetupMemory, SetupKept, SetupDescriptors, Entered, Mapping
<1>3. CASE mapped' = Liburing!RingsUnmapped(mapped) /\ fds' = {} /\ Liburing!Fails("ENOMEM")
  BY <1>1, <1>3, MappingFails
<1>4. CASE /\ mapped' = Liburing!Map("cq_ring",
                          Liburing!RoundUp(Liburing!CqRingSize, Liburing!PageSize), FALSE)
           /\ ring' = [ring EXCEPT !.cq_ptr = "cq_ring"]
           /\ pc' = "map_sqes" /\ no_sqarray' = no_sqarray /\ fds' = fds
  <2>1. Liburing!RoundUp(Liburing!CqRingSize, Liburing!PageSize) \in Nat
    BY <1>2, RingSizes, PagesOf DEF Upto
  <2>2. /\ ring.sqes = "none" /\ ring.ring_ptr = "sq_ring" /\ ring.cq_ptr = "none"
        /\ ring.cq_ring_sz = Liburing!CqRingSize /\ Upto(ring.sq_ring_sz, Liburing!CqRingSize)
        /\ Lies(mapped, "sq_ring", Liburing!RoundUp(ring.sq_ring_sz, Liburing!PageSize))
    BY <1>1, <1>2 DEF MappedRing
  <2>3. /\ ring' \in SetupRings /\ ring'.sqes = "none" /\ ring'.ring_ptr = "sq_ring"
        /\ ring'.cq_ptr = "cq_ring" /\ ring'.sq_ring_sz = ring.sq_ring_sz
        /\ ring'.cq_ring_sz = Liburing!CqRingSize /\ SameFds(ring')
    BY <1>2, <1>4, <2>2, RingMapped DEF SameBut
  <2>4. Undone \cup {"cq_ring"} \subseteq Undone' /\ pc \notin Liburing!Ends
    BY <1>1, <1>4, <2>2, <2>3 DEF Undone, Pointed, Made, Liburing!Ends
  <2>5. /\ Sound(mapped)' /\ SetupKept'
        /\ Lies(mapped', "cq_ring", Liburing!RoundUp(Liburing!CqRingSize, Liburing!PageSize))
        /\ \A n : \A m : n # "cq_ring" /\ Lies(mapped, n, m) => Lies(mapped', n, m)
    BY <1>1, <1>2, <1>4, <2>1, <2>4, KernelMaps
  <2>6. SetupTypes'
    BY <1>1, <1>2, <1>4, <2>3, StillTyped DEF SetupTypes, SetupPcs
  <2>7. MappedRing'
    <3>1. Liburing!CqRingSize' = Liburing!CqRingSize
      BY <1>1, <1>4, StillSized
    <3>2. Upto(ring.sq_ring_sz, Liburing!CqRingSize)'
      BY <2>2, <2>3, <3>1 DEF Upto
    <3>3. Lies(mapped, "sq_ring", Liburing!RoundUp(ring.sq_ring_sz, Liburing!PageSize))'
      BY <2>2, <2>3, <2>5 DEF Lies, Liburing!RoundUp, Liburing!PageSize
    <3>4. Lies(mapped, "cq_ring", Liburing!RoundUp(Liburing!CqRingSize, Liburing!PageSize))'
      BY <2>5, <3>1 DEF Lies, Liburing!RoundUp, Liburing!PageSize
    <3> QED
      BY <1>4, <2>3, <3>1, <3>2, <3>3, <3>4 DEF MappedRing
  <2>8. SetupMemory'
    <3>1. Liburing!ValidEntries(params.entries)'
      BY <1>1, <1>2 DEF Liburing!ValidEntries
    <3>2. pc' = "map_sqes" /\ ~params'.no_mmap
      BY <1>1, <1>2, <1>4
    <3> QED
      BY <2>7, <3>1, <3>2 DEF SetupMemory, Mapping, Made, Entered
  <2>9. SetupDescriptors'
    BY <1>1, <1>2, <1>4, <2>3, SameDescriptors DEF SetupDescriptors, Entered, Mapping
  <2> QED
    BY <2>5, <2>6, <2>8, <2>9 DEF SetupInv
<1> QED
  BY <1>3, <1>4 DEF Liburing!MapCq

LEMMA MapSqesKeepsSetup ==
  ASSUME SetupInv, Liburing!MapSqes
  PROVE  SetupInv'
<1>1. pc = "map_sqes" /\ params' = params
  BY DEF Liburing!MapSqes
<1>2. /\ SetupTypes /\ ring \in SetupRings /\ ~params.no_mmap /\ MappedRing
      /\ Liburing!ValidEntries(params.entries) /\ Descriptors
  BY <1>1 DEF SetupInv, SetupTypes, SetupMemory, SetupKept, SetupDescriptors, Entered, Mapping
<1>3. CASE mapped' = Liburing!RingsUnmapped(mapped) /\ fds' = {} /\ Liburing!Fails("ENOMEM")
  BY <1>1, <1>3, MappingFails
<1> DEFINE size == Liburing!RoundUp(Liburing!SqeSize * Liburing!SqEntries, Liburing!PageSize)
<1>4. CASE /\ mapped' = Liburing!Map("sqes", size, FALSE)
           /\ ring' = [ring EXCEPT !.sqes = "sqes"]
           /\ pc' = "ready" /\ no_sqarray' = no_sqarray /\ fds' = fds
  <2>1. size \in Nat
    BY <1>2, RingSizes, PagesOf DEF Upto
  <2>2. /\ ring.sqes = "none" /\ ring.ring_ptr = "sq_ring"
        /\ Upto(ring.sq_ring_sz, Liburing!CqRingSize)
        /\ Lies(mapped, "sq_ring", Liburing!RoundUp(ring.sq_ring_sz, Liburing!PageSize))
        /\ \/ ring.cq_ptr = "sq_ring"
           \/ /\ ring.cq_ptr = "cq_ring" /\ ring.cq_ring_sz = Liburing!CqRingSize
              /\ Lies(mapped, "cq_ring",
                      Liburing!RoundUp(Liburing!CqRingSize, Liburing!PageSize))
    BY <1>1, <1>2 DEF MappedRing
  <2>3. /\ ring' \in SetupRings /\ ring'.sqes = "sqes" /\ ring'.ring_ptr = "sq_ring"
        /\ ring'.cq_ptr = ring.cq_ptr /\ ring'.sq_ring_sz = ring.sq_ring_sz
        /\ ring'.cq_ring_sz = ring.cq_ring_sz /\ SameFds(ring')
    BY <1>2, <1>4, <2>2, RingMapped DEF SameBut
  <2>4. Undone \cup {"sqes"} \subseteq Undone' /\ pc \notin Liburing!Ends
    BY <1>1, <1>4, <2>2, <2>3 DEF Undone, Pointed, Made, Liburing!Ends
  <2>5. /\ Sound(mapped)' /\ SetupKept' /\ Lies(mapped', "sqes", size)
        /\ \A n : \A m : n # "sqes" /\ Lies(mapped, n, m) => Lies(mapped', n, m)
    <3> HIDE DEF size
    <3> QED
      BY <1>1, <1>2, <1>4, <2>1, <2>4, KernelMaps
  <2>6. SetupTypes'
    BY <1>1, <1>2, <1>4, <2>3, StillTyped DEF SetupTypes, SetupPcs
  <2>7. MappedRing'
    <3>1. /\ Liburing!CqRingSize' = Liburing!CqRingSize /\ Liburing!SqeSize' = Liburing!SqeSize
          /\ Liburing!SqEntries' = Liburing!SqEntries
      BY <1>1, <1>4, StillSized
    <3>2. Upto(ring.sq_ring_sz, Liburing!CqRingSize)'
      BY <2>2, <2>3, <3>1 DEF Upto
    <3>3. Lies(mapped, "sq_ring", Liburing!RoundUp(ring.sq_ring_sz, Liburing!PageSize))'
      BY <2>2, <2>3, <2>5 DEF Lies, Liburing!RoundUp, Liburing!PageSize
    <3>4. ring.cq_ptr = "cq_ring" =>
            Lies(mapped, "cq_ring", Liburing!RoundUp(Liburing!CqRingSize, Liburing!PageSize))'
      BY <2>2, <2>5, <3>1 DEF Lies, Liburing!RoundUp, Liburing!PageSize
    <3>5. Lies(mapped, "sqes", Liburing!RoundUp(Liburing!SqeSize * Liburing!SqEntries,
                                                Liburing!PageSize))'
      BY <2>5, <3>1 DEF Lies, Liburing!RoundUp, Liburing!PageSize
    <3> QED
      BY <1>4, <2>2, <2>3, <3>1, <3>2, <3>3, <3>4, <3>5 DEF MappedRing
  <2>8. SetupMemory'
    <3>1. Liburing!ValidEntries(params.entries)'
      BY <1>1, <1>2 DEF Liburing!ValidEntries
    <3>2. pc' = "ready" /\ ~params'.no_mmap
      BY <1>1, <1>2, <1>4
    <3> QED
      BY <2>7, <3>1, <3>2 DEF SetupMemory, Mapping, Made, Entered
  <2>9. SetupDescriptors'
    BY <1>1, <1>2, <1>4, <2>3, SameDescriptors DEF SetupDescriptors, Entered, Mapping
  <2> QED
    BY <2>5, <2>6, <2>8, <2>9 DEF SetupInv
<1> QED
  BY <1>3, <1>4 DEF Liburing!MapSqes

(* io_uring_queue_exit gives back what the ring had, but for half of the   *)
(* entries of a ring with IORING_SETUP_SQE128.                             *)
LEMMA ExitUndoes ==
  ASSUME SetupInv, pc \in Made, "buf_ring" \notin DOMAIN mapped
  PROVE  /\ Sound(Liburing!AfterExit)
         /\ Rest(Liburing!AfterExit, {"app", "probe"}) \/ params.sqe128
<1>1. /\ SetupTypes /\ Sound(mapped) /\ Liburing!ValidEntries(params.entries)
      /\ Rest(mapped, Undone) /\ params.no_mmap \in BOOLEAN
  BY DEF SetupInv, SetupTypes, SetupMemory, SetupKept, Made, Mapping, Entered
<1>2. Undone = {"app", "probe", "buf_ring"} \cup ({ring.sqes, ring.ring_ptr, ring.cq_ptr} \ {"none"})
  BY DEF Undone, Pointed, Made, Liburing!Ends
<1>3. /\ Liburing!SqeSize * Liburing!SqEntries \in Nat /\ Liburing!SqeSize * Liburing!SqEntries > 0
      /\ 64 * Liburing!SqEntries \in Nat /\ 64 * Liburing!SqEntries > 0
  BY <1>1, RingSizes DEF Upto
<1>4. Liburing!AfterExit
        = IF ring.sq_ring_sz = 0
          THEN Liburing!RingsUnmapped(Liburing!Unmapped(mapped, ring.sqes,
                                        Liburing!SqeSize * Liburing!SqEntries))
          ELSE Liburing!RingsUnmapped(Liburing!Unmapped(mapped, ring.sqes,
                                        64 * Liburing!SqEntries))
  BY DEF Liburing!AfterExit
<1>5. CASE params.no_mmap
  <2>1. AllocatedRing
    BY <1>5 DEF SetupInv, SetupMemory
  <2>2. Rest(mapped, {"app", "probe"} \cup {ring.sqes, ring.ring_ptr, ring.cq_ptr})
    BY <1>1, <1>2 DEF Rest
  <2>3. \A length \in Nat : length > 0 =>
          LET u == Liburing!RingsUnmapped(Liburing!Unmapped(mapped, ring.sqes, length))
          IN  Rest(u, {"app", "probe"}) /\ Sound(u)
    BY <1>1, <1>5, <2>1, <2>2, AllocatedUndone
  <2> QED
    BY <1>3, <1>4, <2>3
<1>6. CASE ~params.no_mmap
  <2>1. MappedRing /\ pc \notin {"map_cq", "map_sqes"}
    BY <1>6 DEF SetupInv, SetupMemory, Made, Mapping
  <2>2. /\ ring.sqes = "sqes" /\ MappedRings(mapped) /\ ring.ring_ptr = "sq_ring"
        /\ ring.sq_ring_sz # 0 /\ ring.cq_ptr \in {"sq_ring", "cq_ring"}
        /\ Lies(mapped, "sqes", Liburing!RoundUp(Liburing!SqeSize * Liburing!SqEntries,
                                                 Liburing!PageSize))
    BY <2>1 DEF MappedRing, MappedRings, Upto
  <2> DEFINE length == 64 * Liburing!SqEntries
             v == Liburing!Unmapped(mapped, "sqes", length)
  <2>3. Liburing!AfterExit = Liburing!RingsUnmapped(v)
    BY <1>4, <2>2
  <2>4. Sized(mapped) /\ length \in Nat /\ length > 0
    BY <1>1, <1>3 DEF Sound
  <2>5. /\ Sized(v)
        /\ \A n \in DOMAIN mapped : n # "sqes" => n \in DOMAIN v /\ v[n] = mapped[n]
    <3> HIDE DEF length
    <3> QED
      BY <2>4, UnmapKeeps
  <2>6. Sound(v)
    <3> HIDE DEF length
    <3> QED
      BY <1>1, <2>4, UnmapSound
  <2>7. Sound(Liburing!RingsUnmapped(v))
    <3> HIDE DEF v
    <3> QED
      BY <1>1, <2>6, RingsSound
  <2>8. CASE ~params.sqe128
    <3>1. Liburing!SqeSize * Liburing!SqEntries = length
      BY <1>1, <2>8, RingSizes
    <3>2. mapped["sqes"].size <= Liburing!RoundUp(length, Liburing!PageSize)
      <4>1. mapped["sqes"].size = Liburing!RoundUp(length, Liburing!PageSize)
        BY <2>2, <3>1 DEF Lies
      <4>2. Liburing!RoundUp(length, Liburing!PageSize) \in Nat
        BY <2>4, PagesOf
      <4> QED
        BY <4>1, <4>2
    <3> DEFINE S == {"app", "probe"} \cup RingNames
    <3>3. Rest(mapped, S \cup {"sqes"})
      BY <1>1, <1>2, <2>2 DEF Rest, RingNames
    <3> HIDE DEF length, S
    <3>4. Rest(v, S)
      BY <2>4, <3>2, <3>3, UnmapRest
    <3>5. MappedRings(v)
      BY <2>2, <2>5 DEF MappedRings, Lies
    <3> HIDE DEF v
    <3>6. Rest(Liburing!RingsUnmapped(v), {"app", "probe"})
      BY <1>1, <2>6, <3>4, <3>5, MappedUndone DEF S
    <3> QED
      BY <2>3, <2>7, <3>6 DEF v
  <2> HIDE DEF v
  <2> QED
    BY <2>3, <2>7, <2>8
<1> QED
  BY <1>1, <1>5, <1>6

LEMMA QueueExitKeepsSetup ==
  ASSUME SetupInv, Liburing!QueueExit
  PROVE  SetupInv'
<1>1. /\ pc \in Made /\ pc' = "exited" /\ "buf_ring" \notin DOMAIN mapped
      /\ mapped' = Liburing!AfterExit /\ fds' = Liburing!Unregistered \ {ring.ring_fd}
      /\ params' = params /\ no_sqarray' = no_sqarray /\ ring' = ring
  BY DEF Liburing!QueueExit, Made
<1>2. SetupTypes /\ Descriptors
  BY <1>1 DEF SetupInv, SetupDescriptors, Entered, Mapping, Made
<1>3. Sound(mapped') /\ (Rest(mapped', {"app", "probe"}) \/ params.sqe128)
  BY <1>1, ExitUndoes
<1>4. SetupTypes' /\ Sound(mapped)'
  BY <1>1, <1>2, <1>3, StillTyped, StillSound DEF SetupTypes, SetupPcs
<1>5. SetupKept'
  <2>1. Undone' = {"app", "probe"}
    BY <1>1 DEF Undone, Pointed, Made, Liburing!Ends
  <2> QED
    BY <1>1, <1>3, <2>1 DEF SetupKept
<1>6. SetupMemory'
  BY <1>1 DEF SetupMemory, Mapping, Made, Entered
<1>7. fds' = {}
  <2>1. ring.ring_fd \in {"none", "ring_fd"}
    BY <1>2 DEF SetupTypes, SetupRings
  <2> QED
    BY <1>1, <1>2, <2>1 DEF Descriptors, Liburing!Unregistered, Liburing!RegisterFd
<1>8. SetupDescriptors'
  BY <1>1, <1>7 DEF SetupDescriptors, Entered, Mapping, Made
<1> QED
  BY <1>4, <1>5, <1>6, <1>8 DEF SetupInv

(* The descriptor is registered, unregistered or closed: the memory stays. *)
LEMMA FdsKeepSetup ==
  ASSUME SetupInv, pc \in Made, SameMemory(ring', ring), Descriptors', pc' = pc,
         params' = params, no_sqarray' = no_sqarray, mapped' = mapped
  PROVE  SetupInv'
<1>1. SetupTypes /\ Sound(mapped)
  BY DEF SetupInv
<1>2. SetupTypes' /\ Sound(mapped)'
  BY <1>1, StillTyped, StillSound DEF SetupTypes, SameMemory
<1>3. SetupKept'
  <2>1. Undone' = Undone
    BY DEF Undone, Pointed, Made, Liburing!Ends, SameMemory
  <2>2. AppKept(mapped)' <=> AppKept(mapped)
    BY DEF AppKept
  <2> QED
    BY <2>1, <2>2 DEF SetupInv, SetupKept, Rest
<1>4. SetupMemory'
  <2>1. Liburing!ValidEntries(params.entries)'
    BY DEF SetupInv, SetupMemory, Liburing!ValidEntries, Made, Mapping, Entered
  <2>2. CASE params.no_mmap
    <3>1. AllocatedRing
      BY <2>2 DEF SetupInv, SetupMemory
    <3>2. AllocatedRing'
      BY <3>1 DEF AllocatedRing, SameMemory, Liburing!PageSize, Liburing!HugePageSize
    <3> QED
      BY <2>1, <2>2, <3>2 DEF SetupMemory, Mapping, Made, Entered
  <2>3. CASE ~params.no_mmap
    <3>1. MappedRing
      BY <2>3 DEF SetupInv, SetupMemory, Mapping, Made
    <3>2. /\ Liburing!CqRingSize' = Liburing!CqRingSize /\ Liburing!SqeSize' = Liburing!SqeSize
          /\ Liburing!SqEntries' = Liburing!SqEntries
      BY StillSized
    <3>3. MappedRing'
      BY <3>1, <3>2
         DEF MappedRing, SameMemory, Lies, Upto, Liburing!RoundUp, Liburing!PageSize
    <3> QED
      BY <2>1, <2>3, <3>3 DEF SetupMemory, Mapping, Made, Entered
  <2> QED
    BY <2>2, <2>3
<1>5. SetupDescriptors'
  BY DEF SetupDescriptors, Entered, Mapping, Made
<1> QED
  BY <1>2, <1>3, <1>4, <1>5 DEF SetupInv

LEMMA FdsChange ==
  ASSUME ring \in SetupRings
  PROVE  /\ \A flags \in SUBSET {"REG_RING", "REG_REG_RING"} :
              LET r == [ring EXCEPT !.enter_ring_fd = "slot", !.int_flags = flags]
              IN  /\ SameMemory(r, ring) /\ r.enter_ring_fd = "slot" /\ r.int_flags = flags
                  /\ r.ring_fd = ring.ring_fd
         /\ LET r == [ring EXCEPT !.enter_ring_fd = ring.ring_fd, !.int_flags = {}]
            IN  /\ SameMemory(r, ring) /\ r.enter_ring_fd = ring.ring_fd /\ r.int_flags = {}
                /\ r.ring_fd = ring.ring_fd
         /\ LET r == [ring EXCEPT !.ring_fd = "none"]
            IN  /\ SameMemory(r, ring) /\ r.enter_ring_fd = ring.enter_ring_fd
                /\ r.int_flags = ring.int_flags /\ r.ring_fd = "none"
BY Zenon DEF SetupRings, SameMemory

LEMMA RegisterKeepsSetup ==
  ASSUME SetupInv,
         Liburing!RegisterRingFd \/ Liburing!UnregisterRingFd \/ Liburing!CloseRingFd
  PROVE  SetupInv'
<1>1. /\ pc = "ready" /\ pc' = pc /\ params' = params /\ no_sqarray' = no_sqarray
      /\ mapped' = mapped
  BY DEF Liburing!RegisterRingFd, Liburing!UnregisterRingFd, Liburing!CloseRingFd
<1>2. ring \in SetupRings /\ Descriptors /\ ring.ring_fd \in {"none", "ring_fd"} /\ pc \in Made
  BY <1>1 DEF SetupInv, SetupTypes, SetupDescriptors, Entered, Mapping, Made, SetupRings
<1>3. CASE Liburing!RegisterRingFd
  <2>1. /\ "REG_RING" \notin ring.int_flags /\ Liburing!RegisterFd \in fds
        /\ fds' = fds \cup {"slot"}
        /\ ring' = [ring EXCEPT !.enter_ring_fd = "slot",
                          !.int_flags = {"REG_RING"} \cup IF params.reg_reg THEN {"REG_REG_RING"}
                                                                           ELSE {}]
    BY <1>3 DEF Liburing!RegisterRingFd
  <2> DEFINE flags == {"REG_RING"} \cup IF params.reg_reg THEN {"REG_REG_RING"} ELSE {}
  <2>2. flags = (IF params.reg_reg THEN {"REG_RING", "REG_REG_RING"} ELSE {"REG_RING"})
        /\ flags \in SUBSET {"REG_RING", "REG_REG_RING"}
    OBVIOUS
  <2> HIDE DEF flags
  <2>3. /\ SameMemory(ring', ring) /\ ring'.enter_ring_fd = "slot" /\ ring'.int_flags = flags
        /\ ring'.ring_fd = ring.ring_fd
    BY <1>2, <2>1, <2>2, FdsChange, Zenon DEF flags
  <2>4. /\ ring.int_flags = {} /\ ring.enter_ring_fd = ring.ring_fd
        /\ fds = IF ring.ring_fd = "none" THEN {} ELSE {"ring_fd"}
    BY <1>2, <2>1 DEF Descriptors
  <2>5. ring.ring_fd = "ring_fd" /\ fds' = {"ring_fd", "slot"}
    BY <1>2, <2>1, <2>4
  <2>6. Descriptors'
    BY <1>1, <2>2, <2>3, <2>5 DEF Descriptors
  <2> QED
    BY <1>1, <1>2, <2>3, <2>6, FdsKeepSetup
<1>4. CASE Liburing!UnregisterRingFd
  <2>1. /\ "REG_RING" \in ring.int_flags /\ Liburing!RegisterFd \in fds
        /\ fds' = fds \ {"slot"}
        /\ ring' = [ring EXCEPT !.enter_ring_fd = ring.ring_fd, !.int_flags = {}]
    BY <1>4 DEF Liburing!UnregisterRingFd, Liburing!Unregistered
  <2>2. /\ SameMemory(ring', ring) /\ ring'.enter_ring_fd = ring.ring_fd /\ ring'.int_flags = {}
        /\ ring'.ring_fd = ring.ring_fd
    BY <1>2, <2>1, FdsChange, Zenon
  <2>3. fds' = IF ring.ring_fd = "none" THEN {} ELSE {"ring_fd"}
    BY <1>2, <2>1 DEF Descriptors
  <2>4. Descriptors'
    BY <1>1, <2>2, <2>3 DEF Descriptors
  <2> QED
    BY <1>1, <1>2, <2>2, <2>4, FdsKeepSetup
<1>5. CASE Liburing!CloseRingFd
  <2>1. /\ params.reg_reg /\ "REG_RING" \in ring.int_flags /\ ring.ring_fd = "ring_fd"
        /\ fds' = fds \ {ring.ring_fd}
        /\ ring' = [ring EXCEPT !.ring_fd = "none"]
    BY <1>2, <1>5 DEF Liburing!CloseRingFd
  <2>2. /\ SameMemory(ring', ring) /\ ring'.enter_ring_fd = ring.enter_ring_fd
        /\ ring'.int_flags = ring.int_flags /\ ring'.ring_fd = "none"
    BY <1>2, <2>1, FdsChange, Zenon
  <2>3. /\ ring.int_flags = {"REG_RING", "REG_REG_RING"} /\ ring.enter_ring_fd = "slot"
        /\ fds' = {"slot"}
    BY <1>2, <2>1 DEF Descriptors
  <2>4. Descriptors'
    BY <1>1, <2>2, <2>3 DEF Descriptors
  <2> QED
    BY <1>1, <1>2, <2>2, <2>4, FdsKeepSetup
<1> QED
  BY <1>3, <1>4, <1>5

(* A page for a probe or a buffer ring comes or goes: the ring stays.      *)
PageChange(m) ==
  /\ Sound(m) /\ (AppKept(mapped) => AppKept(m))
  /\ \A S : "probe" \in S /\ "buf_ring" \in S /\ Rest(mapped, S) => Rest(m, S)
  /\ \A n \in DOMAIN mapped : n \notin {"buf_ring", "probe"} => n \in DOMAIN m /\ m[n] = mapped[n]

LEMMA PageKeepsSetup ==
  ASSUME SetupInv, pc \in Made, pc' \in Made, PageChange(mapped'), params' = params,
         no_sqarray' = no_sqarray, ring' = ring, fds' = fds
  PROVE  SetupInv'
<1>1. SetupTypes /\ SetupTypes' /\ Sound(mapped)'
  BY StillTyped, StillSound DEF SetupInv, PageChange, SetupTypes, SetupPcs, Made
<1>2. SetupKept'
  <2>1. Undone' = Undone /\ "probe" \in Undone /\ "buf_ring" \in Undone
    BY DEF Undone, Pointed, Made, Liburing!Ends
  <2>2. Rest(mapped, Undone) /\ AppKept(mapped)
    BY DEF SetupInv, SetupKept, Made
  <2>3. Rest(mapped', Undone') /\ AppKept(mapped)'
    BY <2>1, <2>2, StillSound DEF PageChange
  <2> QED
    BY <2>3 DEF SetupKept
<1>3. SetupMemory'
  <2>1. Liburing!ValidEntries(params.entries)'
    BY DEF SetupInv, SetupMemory, Liburing!ValidEntries, Made, Mapping, Entered
  <2>2. CASE params.no_mmap
    <3>1. AllocatedRing
      BY <2>2 DEF SetupInv, SetupMemory
    <3>2. AllocatedRing'
      BY <3>1 DEF AllocatedRing, Liburing!PageSize, Liburing!HugePageSize
    <3> QED
      BY <2>1, <2>2, <3>2 DEF SetupMemory, Mapping, Made, Entered
  <2>3. CASE ~params.no_mmap
    <3>1. MappedRing
      BY <2>3 DEF SetupInv, SetupMemory, Mapping, Made
    <3>2. /\ Liburing!CqRingSize' = Liburing!CqRingSize /\ Liburing!SqeSize' = Liburing!SqeSize
          /\ Liburing!SqEntries' = Liburing!SqEntries
      BY StillSized
    <3>3. \A n \in {"sq_ring", "cq_ring", "sqes"} : \A size :
            Lies(mapped, n, size) => Lies(mapped', n, size)
      BY DEF PageChange, Lies
    <3>4. \A n \in {"sq_ring", "cq_ring", "sqes"} : \A size :
            Lies(mapped, n, size) => Lies(mapped, n, size)'
      BY <3>3 DEF Lies
    <3>5. MappedRing'
      BY <3>1, <3>2, <3>3
         DEF MappedRing, Made, Upto, Lies, Liburing!RoundUp, Liburing!PageSize
    <3> QED
      BY <2>1, <2>3, <3>5 DEF SetupMemory, Mapping, Made, Entered
  <2> QED
    BY <2>2, <2>3
<1>4. SetupDescriptors'
  BY DEF SetupInv, SetupDescriptors, Entered, Mapping, Made, Descriptors
<1> QED
  BY <1>1, <1>2, <1>3, <1>4 DEF SetupInv

LEMMA PageMapped ==
  ASSUME Sound(mapped), NEW name \in {"buf_ring", "probe"}
  PROVE  PageChange(Liburing!Map(name, Liburing!PageSize, FALSE))
<1> DEFINE huge == FALSE
           m == Liburing!Map(name, Liburing!PageSize, huge)
<1>1. huge \in BOOLEAN /\ ~huge /\ Liburing!PageSize \in Int /\ Sized(mapped)
      /\ name \notin {"sqes", "ring", "app"}
  BY DEF Liburing!PageSize, Sound
<1> HIDE DEF huge
<1>2. Sound(m) /\ (AppKept(mapped) => AppKept(m))
  BY <1>1, MapSound
<1>3. Added(m, name, Liburing!PageSize, huge)
  BY <1>1, MapAdds
<1> HIDE DEF m
<1>4. PageChange(m)
  <2>1. \A S : "probe" \in S /\ "buf_ring" \in S /\ Rest(mapped, S) => Rest(m, S)
    <3> SUFFICES ASSUME NEW S, "probe" \in S, "buf_ring" \in S, Rest(mapped, S)
                 PROVE  Rest(m, S)
      OBVIOUS
    <3>1. Rest(m, S \cup {name})
      BY <1>3 DEF Added
    <3> QED
      BY <3>1 DEF Rest
  <2> QED
    BY <1>2, <1>3, <2>1 DEF PageChange, Added
<1> QED
  BY <1>4 DEF m, huge

LEMMA PageUnmapped ==
  ASSUME Sound(mapped), NEW name \in {"buf_ring", "probe"}
  PROVE  PageChange(Liburing!Unmapped(mapped, name, Liburing!PageSize))
BY UnmapPage DEF PageChange

LEMMA PagesKeepSetup ==
  ASSUME SetupInv,
         \/ Liburing!GetProbe \/ Liburing!MapBufRing \/ Liburing!RegisterBufRing
         \/ Liburing!FreeBufRing
  PROVE  SetupInv'
<1>1. Sound(mapped)
  BY DEF SetupInv
<1>2. /\ pc \in Made /\ pc' \in Made /\ params' = params /\ no_sqarray' = no_sqarray
      /\ ring' = ring /\ fds' = fds
  BY DEF Liburing!GetProbe, Liburing!MapBufRing, Liburing!RegisterBufRing, Liburing!FreeBufRing,
     Made
<1>3. \/ mapped' = mapped
      \/ \E name \in {"buf_ring", "probe"} :
           \/ mapped' = Liburing!Map(name, Liburing!PageSize, FALSE)
           \/ mapped' = Liburing!Unmapped(mapped, name, Liburing!PageSize)
  BY DEF Liburing!GetProbe, Liburing!MapBufRing, Liburing!RegisterBufRing, Liburing!FreeBufRing
<1>4. PageChange(mapped')
  <2>1. CASE mapped' = mapped
    BY <1>1, <2>1 DEF PageChange
  <2>2. CASE \E name \in {"buf_ring", "probe"} :
               \/ mapped' = Liburing!Map(name, Liburing!PageSize, FALSE)
               \/ mapped' = Liburing!Unmapped(mapped, name, Liburing!PageSize)
    BY <1>1, <2>2, PageMapped, PageUnmapped
  <2> QED
    BY <1>3, <2>1, <2>2
<1> QED
  BY <1>2, <1>4, PageKeepsSetup

LEMMA FreeProbeKeepsSetup ==
  ASSUME SetupInv, Liburing!FreeProbe
  PROVE  SetupInv'
<1>1. /\ pc = "exited" /\ pc' = pc /\ params' = params /\ no_sqarray' = no_sqarray
      /\ ring' = ring /\ fds' = fds
      /\ mapped' = Liburing!Unmapped(mapped, "probe", Liburing!PageSize)
  BY DEF Liburing!FreeProbe
<1>2. Sound(mapped') /\ \A S : Rest(mapped, S) => Rest(mapped', S)
  BY <1>1, UnmapPage DEF SetupInv
<1>3. SetupTypes' /\ Sound(mapped)'
  BY <1>1, <1>2, StillTyped, StillSound DEF SetupInv, SetupTypes
<1>4. SetupKept'
  <2>1. Undone = {"app", "probe"} /\ Undone' = {"app", "probe"}
    BY <1>1 DEF Undone, Pointed, Made, Liburing!Ends
  <2> QED
    BY <1>1, <1>2, <2>1 DEF SetupInv, SetupKept
<1>5. SetupMemory'
  BY <1>1 DEF SetupMemory, Mapping, Made, Entered
<1>6. SetupDescriptors'
  BY <1>1 DEF SetupInv, SetupDescriptors, Entered, Mapping, Made
<1> QED
  BY <1>3, <1>4, <1>5, <1>6 DEF SetupInv

LEMMA NextKeepsSetup ==
  ASSUME SetupInv, [Liburing!Next]_(Liburing!vars)
  PROVE  SetupInv'
<1>1. CASE UNCHANGED Liburing!vars
  BY <1>1 DEF Liburing!vars, SetupInv, SetupTypes, Sound, Sized, Lies, SetupKept, Rest, Undone,
     Pointed, AppKept, SetupMemory, AllocatedRing, MappedRing, Upto, SetupDescriptors, Descriptors,
     Liburing!ValidEntries, Liburing!CqRingSize, Liburing!SqeSize, Liburing!CqeSize,
     Liburing!SqEntries, Liburing!CqEntries
<1>2. CASE Liburing!Next
  BY <1>1, <1>2, QueueInitKeepsSetup, AllocKeepsSetup, AllocRingKeepsSetup, SetupFailsKeepsSetup,
     SetupSucceedsKeepsSetup, MapSqKeepsSetup, MapCqKeepsSetup, MapSqesKeepsSetup,
     QueueExitKeepsSetup, RegisterKeepsSetup, PagesKeepSetup, FreeProbeKeepsSetup
     DEF Liburing!Next, Liburing!Terminated
<1> QED
  BY <1>1, <1>2

(* What io_uring_mlock_size answers, in pages. *)
LEMMA RingPages ==
  ASSUME SetupTypes, Liburing!ValidEntries(params.entries)
  PROVE  LET Unit == Liburing!PageSize
             sqes == Liburing!RoundUp(Liburing!SqeSize * Liburing!SqEntries, Unit)
             halves == Liburing!RoundUp(Liburing!CqRingSize, Unit)
         IN  /\ sqes \in Nat /\ halves \in Nat /\ sqes + halves <= Liburing!rings_size
             /\ Liburing!rings_size \in Int
<1> DEFINE e == Liburing!SqeSize * Liburing!SqEntries
           c == Liburing!CqRingSize
           r == Liburing!RoundUp(c, 64)
           Unit == Liburing!PageSize
<1>1. /\ e \in Nat /\ e > 0 /\ e <= 128 * 32768
      /\ c \in Nat /\ c > 0 /\ c <= 64 + 64 * 32768
      /\ c = Liburing!CqeSize * Liburing!CqEntries + Liburing!KringSize
  BY RingSizes DEF Upto
<1>2. Liburing!rings_size = (Liburing!npages(r) + Liburing!npages(e)) * Unit
  BY <1>1 DEF Liburing!rings_size
<1> HIDE DEF e, c
<1>3. r \in Nat /\ r >= c /\ r <= c + 63
  BY <1>1 DEF Liburing!RoundUp
<1> HIDE DEF r, Unit
<1>4. /\ Liburing!npages(e) \in Nat
      /\ Liburing!npages(e) * Unit >= Liburing!RoundUp(e, Unit)
  BY <1>1, PowerPages DEF Unit
<1>5. /\ Liburing!npages(r) \in Nat
      /\ Liburing!npages(r) * Unit >= Liburing!RoundUp(r, Unit)
  <2>1. r > 0 /\ r <= 131072 * 4096
    BY <1>1, <1>3
  <2> QED
    BY <1>3, <2>1, PowerPages DEF Unit
<1>6. /\ Liburing!RoundUp(e, Unit) \in Nat /\ Liburing!RoundUp(c, Unit) \in Nat
      /\ Liburing!RoundUp(r, Unit) \in Nat
      /\ Liburing!RoundUp(r, Unit) >= Liburing!RoundUp(c, Unit)
  <2>1. c \in 0 .. r
    BY <1>1, <1>3
  <2> QED
    BY <1>1, <1>3, <2>1, PagesOf DEF Unit
<1>7. Unit = 4096
  BY DEF Unit, Liburing!PageSize
<1> DEFINE ne == Liburing!npages(e)
           nr == Liburing!npages(r)
           be == Liburing!RoundUp(e, Unit)
           bc == Liburing!RoundUp(c, Unit)
           br == Liburing!RoundUp(r, Unit)
<1>8. /\ ne \in Nat /\ nr \in Nat /\ be \in Nat /\ bc \in Nat /\ br \in Nat
      /\ ne * 4096 >= be /\ nr * 4096 >= br /\ br >= bc
      /\ Liburing!rings_size = (nr + ne) * 4096
  BY <1>2, <1>4, <1>5, <1>6, <1>7
<1> HIDE DEF ne, nr, be, bc, br
<1>9. be \in Nat /\ bc \in Nat /\ be + bc <= Liburing!rings_size /\ Liburing!rings_size \in Int
  BY <1>8
<1> QED
  BY <1>9 DEF be, bc, e, c, Unit

LEMMA SetupLeaves == SetupInv => Liburing!NothingLeaks /\ Liburing!RingReachable /\ Liburing!MlockSizeCovers
<1> SUFFICES ASSUME SetupInv
             PROVE  Liburing!NothingLeaks /\ Liburing!RingReachable /\ Liburing!MlockSizeCovers
  OBVIOUS
<1>1. Liburing!NothingLeaks
  <2> SUFFICES ASSUME pc \in Liburing!Ends PROVE Liburing!NothingLeaks
    BY DEF Liburing!NothingLeaks
  <2>1. fds = {}
    BY DEF SetupInv, SetupDescriptors, Entered, Mapping, Liburing!Ends
  <2>2. Undone = {"app", "probe"}
    BY DEF Undone, Pointed, Made, Liburing!Ends
  <2>3. (~params.sqe128 => Rest(mapped, {"app", "probe"})) /\ (pc = "failed" => AppKept(mapped))
    BY <2>2 DEF SetupInv, SetupKept
  <2> QED
    BY <2>1, <2>3 DEF Liburing!NothingLeaks, Rest, AppKept
<1>2. Liburing!RingReachable
  <2> SUFFICES ASSUME pc = "ready", fds # {}
               PROVE  {ring.enter_ring_fd, Liburing!RegisterFd} \subseteq fds
    BY DEF Liburing!RingReachable
  <2>1. Descriptors /\ ring.ring_fd \in {"none", "ring_fd"}
    BY DEF SetupInv, SetupTypes, SetupRings, SetupDescriptors, Entered, Mapping
  <2> QED
    BY <2>1 DEF Descriptors, Liburing!RegisterFd
<1>3. Liburing!MlockSizeCovers
  <2> SUFFICES ASSUME pc = "ready", ~params.no_mmap
               PROVE  /\ mapped["sqes"].size + mapped["sq_ring"].size <= Liburing!rings_size
                      /\ "cq_ring" \in DOMAIN mapped =>
                           mapped["sqes"].size + mapped["cq_ring"].size <= Liburing!rings_size
    BY DEF Liburing!MlockSizeCovers
  <2>1. /\ SetupTypes /\ Liburing!ValidEntries(params.entries) /\ MappedRing /\ Sound(mapped)
        /\ Rest(mapped, Undone)
    BY DEF SetupInv, SetupMemory, SetupKept, Entered, Mapping
  <2> DEFINE Unit == Liburing!PageSize
             sqes == Liburing!RoundUp(Liburing!SqeSize * Liburing!SqEntries, Unit)
             halves == Liburing!RoundUp(Liburing!CqRingSize, Unit)
  <2>2. sqes \in Nat /\ halves \in Nat /\ sqes + halves <= Liburing!rings_size
    BY <2>1, RingPages
  <2>3. /\ mapped["sqes"].size = sqes
        /\ mapped["sq_ring"].size = Liburing!RoundUp(ring.sq_ring_sz, Unit)
        /\ ring.sqes = "sqes" /\ ring.ring_ptr = "sq_ring"
        /\ \/ ring.cq_ptr = "sq_ring"
           \/ ring.cq_ptr = "cq_ring" /\ mapped["cq_ring"].size = halves
    BY <2>1 DEF MappedRing, Lies
  <2>4. Liburing!RoundUp(ring.sq_ring_sz, Unit) \in Nat
        /\ Liburing!RoundUp(ring.sq_ring_sz, Unit) <= halves
    <3>1. ring.sq_ring_sz \in Nat /\ ring.sq_ring_sz <= Liburing!CqRingSize
      BY <2>1 DEF MappedRing, Upto
    <3>2. Liburing!CqRingSize \in Nat
      BY <2>1, RingSizes DEF Upto
    <3>3. ring.sq_ring_sz \in 0 .. Liburing!CqRingSize
      BY <3>1, <3>2
    <3> QED
      BY <3>1, <3>2, <3>3, PagesOf
  <2>5. "cq_ring" \in DOMAIN mapped => mapped["cq_ring"].size = halves
    <3>1. "cq_ring" \in DOMAIN mapped => "cq_ring" \in Undone
      BY <2>1 DEF Sound, Rest
    <3>2. Undone = {"app", "probe", "buf_ring"} \cup {"sqes", "sq_ring", ring.cq_ptr}
      BY <2>3 DEF Undone, Pointed, Made, Liburing!Ends
    <3> QED
      BY <2>3, <3>1, <3>2
  <2> HIDE DEF sqes, halves, Unit
  <2>7. mapped["sqes"].size + mapped["sq_ring"].size <= Liburing!rings_size
    <3> DEFINE sq == Liburing!RoundUp(ring.sq_ring_sz, Unit)
               most == Liburing!rings_size
    <3>1. most \in Int
      BY <2>1, RingPages
    <3>2. sq \in Nat /\ sq <= halves /\ sqes + halves <= most
      BY <2>2, <2>4
    <3> HIDE DEF sq, most
    <3>3. sqes + sq <= most
      BY <2>2, <3>1, <3>2
    <3> QED
      BY <2>3, <3>3 DEF sq, most
  <2> QED
    BY <2>2, <2>3, <2>5, <2>7
<1> QED
  BY <1>1, <1>2, <1>3

(* RingSetupLeavesNothing, whatever is asked for, whatever the kernel      *)
(* supports and whichever call fails: a ring that could not be made or has *)
(* been taken down leaves no descriptor, and of memory only huge pages and *)
(* half of the large entries (setup.c:441, 445); it can be entered through *)
(* what is left of its descriptors (register.c:303), and                   *)
(* io_uring_mlock_size answers no less than the ring takes (setup.c:507).  *)
THEOREM RingSetupAlwaysClean == ProgramSpec => []RingSetupLeavesNothing
<1> DEFINE I == program = "setup" => SetupInv
<1>1. ProgramInit => I
  BY InitOf, InitSetup
<1>2. I /\ [ProgramNext]_programs => I'
  BY Dispatch, NextKeepsSetup
<1>3. I => RingSetupLeavesNothing
  BY SetupLeaves DEF RingSetupLeavesNothing
<1> QED
  BY <1>1, <1>2, <1>3, PTL DEF ProgramSpec

==============================================================================
