-------------------------- MODULE PollServerProofs --------------------------
(***************************************************************************)
(* What PollServer keeps to, for every number of workers, connections and  *)
(* descriptors: a worker polls its own connections, reports no more of     *)
(* them than it has room for, and leaves none that it served open.         *)
(*                                                                         *)
(* The vector that matters is the one dealt to a worker, the connection    *)
(* under way included: a torn read apart, a worker sees a prefix of it     *)
(* (Dealt), and its length follows the round robin (PlaceInv).             *)
(* Connections are numbered and not reused (NameInv), descriptors are:     *)
(* what a worker has served and is open is still among its descriptors,    *)
(* whoever closes whose (ServedInv), and before a worker enters            *)
(* handle_connection again its descriptors are its own, each in one place  *)
(* (OwnInv).                                                               *)
(***************************************************************************)
EXTENDS PollServer, CountLemmas

Dealt(t) == IF Growing(t) THEN Append(connection_fds[t], conn_fd) ELSE connection_fds[t]

Lost == {"killed", "undefined"}
Labels == {"wait", "enter", "fill", "poll", "recv", "send", "close", "closing"} \cup Ended

(* Where a worker is in its vectors. *)
Placed(t) ==
  /\ pc[t] \in {"wait", "enter", "fill", "poll"} => i[t] = 1
  /\ pc[t] \in {"send", "close"} => i[t] <= NumConnections(t)
  /\ pc[t] \in {"recv", "send", "close"} => Len(revents[t]) = NumConnections(t)
  /\ pc[t] \in {"wait", "enter"} => NumConnections(t) = 0
  /\ pc[t] = "fill" => NumConnections(t) <= Len(Dealt(t))

(* L descriptors are the share of worker t of the n first connections. *)
Share(t, n, L) == n - t <= ThreadCount * L /\ ThreadCount * L <= n - t + ThreadCount - 1

(* What has been dealt to whom. *)
Dealing ==
  /\ Len(dealt) = accepted
  /\ acceptor = "accept" => next_thread = accepted
  /\ acceptor = "growing" => accepted = next_thread + 1 /\ conn_fd \in Fds
  /\ acceptor \in Lost => \A t \in Workers : pc[t] = acceptor

Shares ==
  /\ acceptor \notin Lost => \A t \in Workers : Share(t, accepted, Len(Dealt(t)))
  /\ \A t \in Workers : ThreadCount * NumConnections(t) <= accepted - t + ThreadCount - 1

PlaceInv ==
  /\ TypeOK /\ \A t \in Workers : Placed(t)
  /\ Dealing /\ Shares

(* accept4 returns a number that is free. *)
LEMMA FreeNumber ==
  Fds \ DOMAIN table # {} => LowestFree \in Fds \ DOMAIN table
<1> SUFFICES ASSUME Fds \ DOMAIN table # {} PROVE LowestFree \in Fds \ DOMAIN table
  OBVIOUS
<1>1. Fds \ DOMAIN table \in SUBSET Nat
  BY PollServerAssumption
<1>2. PICK f \in Fds \ DOMAIN table : \A g \in Fds \ DOMAIN table : f <= g
  BY <1>1, SmallestOf
<1> QED
  BY <1>2 DEF LowestFree

LEMMA AWorker ==
  /\ ThreadCount \in Nat \ {0} /\ 0 \in Workers
  /\ \A t \in Workers : t \in Nat /\ t \in 0 .. ThreadCount - 1 /\ t <= ThreadCount - 1
BY PollServerAssumption DEF Workers

LEMMA DealtVector ==
  ASSUME PlaceInv, NEW t \in Workers
  PROVE  /\ connection_fds[t] \in Seq(Fds) /\ Dealt(t) \in Seq(Fds)
         /\ Len(connection_fds[t]) \in Nat /\ Len(Dealt(t)) \in Nat
         /\ Len(connection_fds[t]) <= Len(Dealt(t))
<1>1. connection_fds[t] \in Seq(Fds) /\ Len(connection_fds[t]) \in Nat
  BY LenProperties DEF PlaceInv, TypeOK
<1>2. CASE Growing(t)
  <2>1. conn_fd \in Fds
    BY <1>2 DEF Growing, PlaceInv, Dealing
  <2> QED
    BY <1>1, <1>2, <2>1, AppendProperties DEF Dealt
<1>3. CASE ~Growing(t)
  BY <1>1, <1>3 DEF Dealt
<1> QED
  BY <1>2, <1>3

LEMMA Polled ==
  ASSUME PlaceInv, NEW t \in Workers
  PROVE  /\ poll_fds[t] \in Seq(Fds \cup {NoFd}) /\ NumConnections(t) \in Nat
         /\ i[t] \in Nat \ {0} /\ i[t] <= NumConnections(t) + 1
         /\ revents[t] \in Seq(SUBSET {"in", "out"})
BY LenProperties DEF PlaceInv, TypeOK, NumConnections

(***************************************************************************)
(* The acceptor.                                                           *)
(***************************************************************************)

LEMMA InitPlace == Init => PlaceInv
<1> SUFFICES ASSUME Init PROVE PlaceInv
  OBVIOUS
<1>1. /\ <<>> \in Seq(Fds) /\ <<>> \in Seq(Fds \cup {NoFd}) /\ <<>> \in Seq(SUBSET {"in", "out"})
      /\ <<>> \in Seq(Workers) /\ Len(<<>>) = 0 /\ DOMAIN <<>> = {}
  OBVIOUS
<1>2. DOMAIN table = {} /\ Len(dealt) = 0 /\ acceptor = "accept" /\ next_thread = 0 /\ accepted = 0
  BY <1>1 DEF Init
<1>3. ASSUME NEW t \in Workers
      PROVE  /\ pc[t] = "wait" /\ i[t] = 1 /\ NumConnections(t) = 0
             /\ Dealt(t) = <<>> /\ Len(Dealt(t)) = 0
  BY <1>1, <1>2, <1>3 DEF Init, NumConnections, Dealt, Growing
<1>4. TypeOK
  <2>1. accepted \in 0 .. MaxAccepts /\ lost \subseteq 1 .. accepted
    <3>1. lost = {}
      BY DEF Init
    <3> QED
      BY <1>2, <3>1, PollServerAssumption
  <2>2. /\ listen_open \in BOOLEAN /\ timer_started \in BOOLEAN /\ expired \in BOOLEAN
        /\ accepting_connections \in BOOLEAN
    BY DEF Init
  <2>3. /\ acceptor \in {"accept", "growing"} \cup Ended
        /\ conn_fd \in Fds \cup {NoFd} /\ next_thread \in 0 .. accepted
    BY <1>2 DEF Init
  <2>4. i \in [Workers -> Nat \ {0}] /\ passes \in [Workers -> Nat] /\ reentered \subseteq Workers
    BY DEF Init
  <2>5. pc \in [Workers -> {"wait", "enter", "fill", "poll", "recv", "send", "close", "closing"}
                           \cup Ended]
    BY DEF Init
  <2>6. /\ connection_fds \in [Workers -> Seq(Fds)] /\ poll_fds \in [Workers -> Seq(Fds \cup {NoFd})]
        /\ revents \in [Workers -> Seq(SUBSET {"in", "out"})]
    <3>1. ASSUME NEW S, <<>> \in Seq(S) PROVE [t \in Workers |-> <<>>] \in [Workers -> Seq(S)]
      BY <3>1
    <3> QED
      BY <1>1, <3>1 DEF Init
  <2>7. dealt \in Seq(Workers) /\ handled \in [Workers -> SUBSET Connections]
    BY <1>1 DEF Init
  <2>8. ASSUME NEW t \in Workers PROVE i[t] <= NumConnections(t) + 1
    BY <1>3
  <2> QED
    BY <1>2, <2>1, <2>2, <2>3, <2>4, <2>5, <2>6, <2>7, <2>8 DEF TypeOK
<1>5. ASSUME NEW t \in Workers
      PROVE  /\ Placed(t) /\ Share(t, accepted, Len(Dealt(t)))
             /\ ThreadCount * NumConnections(t) <= accepted - t + ThreadCount - 1
  <2>1. ThreadCount * 0 = 0
    BY AWorker
  <2> QED
    BY <1>2, <1>3, <2>1, AWorker DEF Placed, Share
<1>6. Dealing
  BY <1>2 DEF Dealing, Lost
<1> QED
  BY <1>4, <1>5, <1>6 DEF PlaceInv, Shares

(* The connection accepted is the next in the vector of one worker. *)
LEMMA Deals ==
  ASSUME PlaceInv, Accept
  PROVE  /\ assigned_thread \in Workers /\ dealt' \in Seq(Workers) /\ Len(dealt') = accepted'
         /\ accepted \in Nat /\ accepted' = accepted + 1 /\ accepted' <= MaxAccepts
         /\ dealt'[accepted'] = assigned_thread
         /\ \A n \in 1 .. accepted : dealt'[n] = dealt[n]
         /\ \A t \in Workers :
              Dealt(t)' = IF t = assigned_thread THEN Append(Dealt(t), LowestFree) ELSE Dealt(t)
<1>1. accepted \in Nat /\ dealt \in Seq(Workers) /\ Len(dealt) = accepted /\ next_thread = accepted
  BY DEF PlaceInv, TypeOK, Dealing, Accept
<1>2. assigned_thread \in Workers
  BY <1>1, AWorker, Residue DEF assigned_thread, Workers
<1>3. /\ dealt' \in Seq(Workers) /\ Len(dealt') = accepted + 1
      /\ dealt'[accepted + 1] = assigned_thread
      /\ \A n \in 1 .. accepted : dealt'[n] = dealt[n]
  BY <1>1, <1>2, AppendProperties DEF Accept
<1>4. accepted' = accepted + 1 /\ accepted' <= MaxAccepts
  BY <1>1, PollServerAssumption DEF Accept
<1>5. ASSUME NEW t \in Workers
      PROVE  Dealt(t)' = IF t = assigned_thread THEN Append(Dealt(t), LowestFree) ELSE Dealt(t)
  <2>1. Dealt(t) = connection_fds[t]
    BY DEF Accept, Dealt, Growing
  <2>2. Growing(t)' <=> t = assigned_thread
    BY <1>3, <1>4 DEF Accept, Growing
  <2>3. conn_fd' = LowestFree /\ connection_fds' = connection_fds
    BY DEF Accept
  <2> QED
    BY <2>1, <2>2, <2>3 DEF Dealt
<1> QED
  BY <1>1, <1>2, <1>3, <1>4, <1>5

LEMMA Opened ==
  ASSUME PlaceInv, Accept
  PROVE  /\ LowestFree \in Fds /\ LowestFree \notin DOMAIN table
         /\ DOMAIN table' = DOMAIN table \cup {LowestFree}
         /\ table'[LowestFree] = accepted + 1
         /\ \A f \in DOMAIN table : table'[f] = table[f]
         /\ DOMAIN table' \subseteq Fds /\ \A f \in DOMAIN table' : table'[f] \in Connections
<1>1. LowestFree \in Fds /\ LowestFree \notin DOMAIN table
  BY FreeNumber DEF Accept
<1>2. accepted + 1 \in Connections
  BY Deals, PollServerAssumption DEF Connections
<1> QED
  BY <1>1, <1>2 DEF PlaceInv, TypeOK, Accept

LEMMA Closed ==
  ASSUME PlaceInv, NEW f, Close(f)
  PROVE  /\ DOMAIN table' = DOMAIN table \ {f}
         /\ \A g \in DOMAIN table' : table'[g] = table[g]
         /\ DOMAIN table' \subseteq Fds /\ \A g \in DOMAIN table' : table'[g] \in Connections
BY DEF Close, PlaceInv, TypeOK

LEMMA AcceptKeepsPlace ==
  ASSUME PlaceInv, Accept PROVE PlaceInv'
<1>1. /\ UNCHANGED <<lost, listen_open, expired, pc, i, poll_fds, revents, passes, reentered, handled,
                     accepting_connections, next_thread, connection_fds>>
      /\ acceptor = "accept" /\ acceptor' = "growing" /\ conn_fd' = LowestFree /\ timer_started' = TRUE
  BY DEF Accept, netVars, workerVars
<1>2. next_thread = accepted /\ accepted \in Nat
  BY <1>1 DEF PlaceInv, Dealing, TypeOK
<1>3. TypeOK'
  <2>1. /\ accepted' \in 0 .. MaxAccepts /\ 1 .. accepted \subseteq 1 .. accepted'
        /\ next_thread' \in 0 .. accepted'
    BY <1>1, <1>2, Deals, PollServerAssumption
  <2>2. /\ conn_fd' \in Fds \cup {NoFd} /\ timer_started' \in BOOLEAN
        /\ acceptor' \in {"accept", "growing"} \cup Ended
    BY <1>1, Opened
  <2>3. \A t \in Workers : NumConnections(t)' = NumConnections(t)
    BY <1>1 DEF NumConnections
  <2> QED
    BY <1>1, <2>1, <2>2, <2>3, Deals, Opened DEF PlaceInv, TypeOK
<1>4. Dealing'
  BY <1>1, <1>2, Deals, Opened DEF Dealing, Lost
<1>5. ASSUME NEW t \in Workers
      PROVE  Len(Dealt(t)') = IF t = assigned_thread THEN Len(Dealt(t)) + 1 ELSE Len(Dealt(t))
  BY Deals, DealtVector, Opened, AppendProperties
<1>6. ASSUME NEW t \in Workers PROVE Placed(t)'
  BY <1>1, <1>5, DealtVector, Polled DEF PlaceInv, Placed, NumConnections
<1>7. ASSUME NEW t \in Workers PROVE Share(t, accepted', Len(Dealt(t)'))
  <2> DEFINE L == Len(Dealt(t))
  <2>1. L \in Nat /\ Share(t, accepted, L)
    BY <1>1, DealtVector DEF PlaceInv, Shares, Lost
  <2>2. assigned_thread = accepted % ThreadCount
    BY <1>2 DEF assigned_thread
  <2>3. Len(Dealt(t)') = IF t = accepted % ThreadCount THEN L + 1 ELSE L
    BY <1>5, <2>2
  <2>4. accepted' = accepted + 1
    BY Deals
  <2> HIDE DEF L
  <2>5. /\ t = accepted % ThreadCount => Share(t, accepted + 1, L + 1)
        /\ t # accepted % ThreadCount => Share(t, accepted + 1, L)
    BY <1>2, <2>1, AWorker, DealOne DEF Share
  <2> QED
    BY <2>3, <2>4, <2>5
<1>8. ASSUME NEW t \in Workers
      PROVE  ThreadCount * NumConnections(t)' <= accepted' - t + ThreadCount - 1
  <2>1. ThreadCount * NumConnections(t) <= accepted - t + ThreadCount - 1
    BY DEF PlaceInv, Shares
  <2>2. ThreadCount * NumConnections(t) \in Int /\ NumConnections(t)' = NumConnections(t)
    BY <1>1, Polled, AWorker DEF NumConnections
  <2> QED
    BY <1>2, <2>1, <2>2, Deals, AWorker
<1> QED
  BY <1>3, <1>4, <1>6, <1>7, <1>8 DEF PlaceInv, Shares

(* The vector is what it was on the way to become. *)
LEMMA EndDealingKeepsVectors ==
  ASSUME PlaceInv, EndDealing
  PROVE  /\ connection_fds' \in [Workers -> Seq(Fds)] /\ \A t \in Workers : Dealt(t)' = Dealt(t)
<1>1. acceptor = "growing" /\ acceptor' = "accept" /\ conn_fd \in Fds
  BY DEF EndDealing, PlaceInv, Dealing
<1>2. connection_fds \in [Workers -> Seq(Fds)]
  BY DEF PlaceInv, TypeOK
<1> DEFINE s == Append(connection_fds[dealt[accepted]], conn_fd)
<1>3. dealt[accepted] \in Workers => s \in Seq(Fds)
  BY <1>1, <1>2, AppendProperties
<1>4. connection_fds' = [connection_fds EXCEPT ![dealt[accepted]] = s]
  BY DEF EndDealing
<1>5. ASSUME NEW t \in Workers PROVE Dealt(t)' = Dealt(t)
  BY <1>1, <1>2, <1>4 DEF Dealt, Growing
<1> HIDE DEF s
<1> QED
  BY <1>2, <1>3, <1>4, <1>5

(* Steps that leave the acceptor's vectors and the workers' alone. *)
LEMMA AcceptorMovesOn ==
  ASSUME PlaceInv, TypeOK', Dealing',
         UNCHANGED <<pc, i, poll_fds, revents, accepted>>,
         acceptor \notin Lost, \A t \in Workers : Dealt(t)' = Dealt(t)
  PROVE  PlaceInv'
<1>1. ASSUME NEW t \in Workers PROVE Placed(t)' /\ NumConnections(t)' = NumConnections(t)
  BY DEF PlaceInv, Placed, NumConnections
<1>2. Shares'
  BY <1>1 DEF PlaceInv, Shares
<1> QED
  BY <1>1, <1>2 DEF PlaceInv

LEMMA AcceptorKeepsPlace ==
  ASSUME PlaceInv, Acceptor PROVE PlaceInv'
<1>1. CASE EndDealing
  <2>1. /\ UNCHANGED <<table, lost, listen_open, expired, pc, i, poll_fds, revents, passes, reentered,
                       handled, accepted, timer_started, accepting_connections, conn_fd, dealt>>
        /\ acceptor = "growing" /\ acceptor' = "accept" /\ next_thread' = next_thread + 1
    BY <1>1 DEF EndDealing, netVars, workerVars
  <2>2. accepted = next_thread + 1 /\ next_thread \in Nat
    BY <2>1 DEF PlaceInv, Dealing, TypeOK
  <2>3. \A t \in Workers : NumConnections(t)' = NumConnections(t)
    BY <2>1 DEF NumConnections
  <2>4. TypeOK'
    <3>1. connection_fds' \in [Workers -> Seq(Fds)]
      BY <1>1, EndDealingKeepsVectors
    <3>2. next_thread' \in 0 .. accepted
      BY <2>1, <2>2
    <3>3. \A t \in Workers : i'[t] <= NumConnections(t)' + 1
      BY <2>1, <2>3 DEF PlaceInv, TypeOK
    <3> QED
      BY <2>1, <3>1, <3>2, <3>3 DEF PlaceInv, TypeOK
  <2>5. Dealing'
    BY <2>1, <2>2 DEF PlaceInv, Dealing, Lost
  <2> QED
    BY <1>1, <2>1, <2>4, <2>5, EndDealingKeepsVectors, AcceptorMovesOn DEF Lost
<1>2. CASE TimeLimitReached \/ AcceptFails
  <2>1. /\ UNCHANGED <<table, lost, listen_open, expired, pc, i, poll_fds, revents, passes, reentered,
                       handled, accepted, timer_started, conn_fd, next_thread, connection_fds, dealt>>
        /\ acceptor = "accept" /\ acceptor' = "exited" /\ accepting_connections' = FALSE
    BY <1>2 DEF TimeLimitReached, AcceptFails, AcceptorStops, netVars, workerVars
  <2>2. \A t \in Workers : NumConnections(t)' = NumConnections(t) /\ Dealt(t)' = Dealt(t)
    BY <2>1 DEF NumConnections, Dealt, Growing
  <2>3. TypeOK'
    BY <2>1, <2>2 DEF PlaceInv, TypeOK, Ended
  <2>4. Dealing'
    BY <2>1 DEF PlaceInv, Dealing, Lost
  <2> QED
    BY <2>1, <2>2, <2>3, <2>4, AcceptorMovesOn DEF Lost
<1> QED
  BY <1>1, <1>2, AcceptKeepsPlace DEF Acceptor

(***************************************************************************)
(* The workers.                                                            *)
(***************************************************************************)

(* A step of one worker leaves the others where they are, or ends all.     *)
Elsewhere(t) ==
  \A u \in Workers \ {t} :
    /\ pc'[u] = pc[u] /\ i'[u] = i[u] /\ poll_fds'[u] = poll_fds[u]
    /\ revents'[u] = revents[u] /\ handled'[u] = handled[u]

AcceptorStays ==
  UNCHANGED <<accepted, timer_started, accepting_connections, acceptor, conn_fd, next_thread,
              connection_fds, dealt>>

LEMMA DealtStays ==
  ASSUME AcceptorStays, NEW t \in Workers
  PROVE  Dealt(t)' = Dealt(t)
BY DEF AcceptorStays, Dealt, Growing

(* A step of a worker keeps the types if what it writes is of its type.    *)
LEMMA TypesKept ==
  ASSUME PlaceInv, AcceptorStays, UNCHANGED <<lost, listen_open, expired>>,
         DOMAIN table' \subseteq Fds, \A f \in DOMAIN table' : table'[f] \in Connections,
         pc' \in [Workers -> Labels], i' \in [Workers -> Nat \ {0}],
         poll_fds' \in [Workers -> Seq(Fds \cup {NoFd})],
         \A u \in Workers : i'[u] <= Len(poll_fds'[u]) + 1,
         revents' \in [Workers -> Seq(SUBSET {"in", "out"})],
         passes' \in [Workers -> Nat], reentered' \subseteq Workers,
         handled' \in [Workers -> SUBSET Connections]
  PROVE  TypeOK'
BY DEF PlaceInv, TypeOK, AcceptorStays, Labels, NumConnections

LEMMA Types ==
  ASSUME PlaceInv
  PROVE  /\ DOMAIN table \subseteq Fds /\ \A f \in DOMAIN table : table[f] \in Connections
         /\ pc \in [Workers -> Labels] /\ i \in [Workers -> Nat \ {0}]
         /\ poll_fds \in [Workers -> Seq(Fds \cup {NoFd})]
         /\ \A u \in Workers : i[u] <= Len(poll_fds[u]) + 1
         /\ revents \in [Workers -> Seq(SUBSET {"in", "out"})]
         /\ passes \in [Workers -> Nat] /\ reentered \subseteq Workers
         /\ handled \in [Workers -> SUBSET Connections]
BY DEF PlaceInv, TypeOK, Labels, NumConnections

LEMMA WorkerMoves ==
  ASSUME PlaceInv, NEW t \in Workers, pc[t] \notin Ended, AcceptorStays, Elsewhere(t),
         TypeOK', Placed(t)',
         ThreadCount * NumConnections(t)' <= accepted - t + ThreadCount - 1
  PROVE  PlaceInv'
<1>1. acceptor \notin Lost
  BY DEF PlaceInv, Dealing, Lost, Ended
<1>2. ASSUME NEW u \in Workers PROVE Dealt(u)' = Dealt(u)
  BY DealtStays
<1>3. ASSUME NEW u \in Workers, u # t
      PROVE  Placed(u)' /\ NumConnections(u)' = NumConnections(u)
  BY <1>2, <1>3 DEF PlaceInv, Placed, Elsewhere, NumConnections
<1>4. Dealing'
  BY <1>1 DEF PlaceInv, Dealing, AcceptorStays
<1>5. accepted' = accepted /\ acceptor' = acceptor
  BY DEF AcceptorStays
<1>6. Shares'
  BY <1>1, <1>2, <1>3, <1>5 DEF PlaceInv, Shares
<1> QED
  BY <1>3, <1>4, <1>6 DEF PlaceInv

LEMMA ProcessEndsKeepsPlace ==
  ASSUME PlaceInv, NEW label \in Lost, ProcessEnds(label),
         UNCHANGED <<table, lost, listen_open, expired, accepted, timer_started, accepting_connections,
                     conn_fd, next_thread, connection_fds, dealt, i, poll_fds, passes, reentered,
                     handled>>,
         revents' \in [Workers -> Seq(SUBSET {"in", "out"})]
  PROVE  PlaceInv'
<1>1. acceptor' = label /\ \A t \in Workers : pc'[t] = label
  BY DEF ProcessEnds
<1>2. \A t \in Workers : NumConnections(t)' = NumConnections(t)
  BY DEF NumConnections
<1>3. TypeOK'
  BY <1>1, <1>2 DEF PlaceInv, TypeOK, ProcessEnds, Lost, Ended
<1>4. ASSUME NEW t \in Workers PROVE Placed(t)'
  BY <1>1 DEF Placed, Lost
<1>5. Dealing'
  BY <1>1 DEF PlaceInv, Dealing, Lost
<1>6. Shares'
  BY <1>1, <1>2 DEF PlaceInv, Shares
<1> QED
  BY <1>3, <1>4, <1>5, <1>6 DEF PlaceInv

LEMMA Went ==
  ASSUME PlaceInv, NEW t \in Workers, NEW label \in Labels, Goto(t, label)
  PROVE  pc' \in [Workers -> Labels] /\ pc'[t] = label /\ \A u \in Workers : u # t => pc'[u] = pc[u]
BY Types DEF Goto

LEMMA Tested ==
  ASSUME PlaceInv, NEW t \in Workers, TestLoop(t)
  PROVE  /\ pc' \in [Workers -> Labels] /\ pc'[t] \in {"closing", "poll"}
         /\ \A u \in Workers : u # t => pc'[u] = pc[u]
BY Went DEF TestLoop, Labels

LEMMA Advanced ==
  ASSUME PlaceInv, NEW t \in Workers, Advance(t) \/ Restart(t)
  PROVE  /\ i' \in [Workers -> Nat \ {0}] /\ \A u \in Workers : u # t => i'[u] = i[u]
         /\ Advance(t) => i'[t] = i[t] + 1
         /\ Restart(t) => i'[t] = 1
<1>1. i \in [Workers -> Nat \ {0}]
  BY Types
<1>2. CASE Advance(t)
  <2>1. i[t] + 1 \in Nat \ {0} /\ i[t] + 1 # 1
    BY <1>1
  <2>2. i' = [i EXCEPT ![t] = i[t] + 1]
    BY <1>2 DEF Advance
  <2>3. i'[t] # 1
    BY <1>1, <2>1, <2>2
  <2> QED
    BY <1>1, <2>1, <2>2, <2>3 DEF Restart
<1>3. CASE Restart(t)
  <2>1. i' = [i EXCEPT ![t] = 1]
    BY <1>3 DEF Restart
  <2>2. Advance(t) => i'[t] = i[t] + 1
    BY <1>1 DEF Advance
  <2> QED
    BY <1>1, <2>1, <2>2
<1> QED
  BY <1>2, <1>3

LEMMA SeenKeeps ==
  ASSUME PlaceInv, NEW t \in Workers, NEW event, Seen(t, event),
         pc[t] \in {"recv", "send", "close"}, i[t] <= NumConnections(t)
  PROVE  /\ revents' \in [Workers -> Seq(SUBSET {"in", "out"})]
         /\ \A u \in Workers : Len(revents'[u]) = Len(revents[u]) /\ (u # t => revents'[u] = revents[u])
<1>1. revents \in [Workers -> Seq(SUBSET {"in", "out"})] /\ i[t] \in 1 .. Len(revents[t])
  BY Polled DEF PlaceInv, TypeOK, Placed
<1> DEFINE x == revents[t][i[t]] \ {event}
<1>2. x \in SUBSET {"in", "out"}
  BY <1>1
<1>3. revents' = [revents EXCEPT ![t][i[t]] = x]
  BY DEF Seen
<1> HIDE DEF x
<1> QED
  BY <1>1, <1>2, <1>3, EntryWritten

(* Before and after handle_connection. *)
LEMMA WaitingKeepsPlace ==
  ASSUME PlaceInv, NEW t \in Workers, AwaitConnections(t) \/ StopWorking(t) PROVE PlaceInv'
<1>1. /\ UNCHANGED <<table, lost, listen_open, expired, i, poll_fds, revents, passes, reentered, handled>>
      /\ AcceptorStays /\ pc[t] = "wait"
      /\ Goto(t, "enter") \/ Goto(t, "exited")
  BY DEF AwaitConnections, StopWorking, netVars, acceptorVars, AcceptorStays
<1>2. /\ pc' \in [Workers -> Labels] /\ pc'[t] \in {"enter", "exited"}
      /\ \A u \in Workers : u # t => pc'[u] = pc[u]
  BY <1>1, Went DEF Labels, Ended
<1>3. TypeOK'
  BY <1>1, <1>2, Types, TypesKept
<1>4. Placed(t)' /\ NumConnections(t)' = NumConnections(t)
  BY <1>1, <1>2 DEF PlaceInv, Placed, NumConnections
<1> QED
  BY <1>1, <1>2, <1>3, <1>4, WorkerMoves DEF Elsewhere, Ended, PlaceInv, Shares

LEMMA Times ==
  ASSUME NEW a \in Nat, NEW b \in Nat, a <= b, NEW T \in Nat
  PROVE  T * a <= T * b
OBVIOUS

LEMMA EnterKeepsPlace ==
  ASSUME PlaceInv, NEW t \in Workers, Enter(t) PROVE PlaceInv'
<1>1. /\ UNCHANGED <<table, lost, listen_open, expired, i, revents, passes, reentered, handled>>
      /\ AcceptorStays /\ pc[t] = "enter" /\ Goto(t, "fill")
  BY DEF Enter, netVars, acceptorVars, AcceptorStays
<1>2. PICK v \in Vectors(t) : poll_fds' = [poll_fds EXCEPT ![t] = [n \in 1 .. Len(v) |-> NoFd]]
  BY DEF Enter
<1>3. Len(v) \in Nat /\ Len(v) <= Len(Dealt(t)) /\ Len(Dealt(t)) \in Nat
  BY DealtVector DEF Vectors, Dealt
<1> DEFINE s == [n \in 1 .. Len(v) |-> NoFd]
<1>4. s \in Seq(Fds \cup {NoFd}) /\ Len(s) = Len(v)
  BY <1>3
<1> HIDE DEF s
<1>5. /\ poll_fds' \in [Workers -> Seq(Fds \cup {NoFd})] /\ NumConnections(t)' = Len(v)
      /\ \A u \in Workers : u # t => poll_fds'[u] = poll_fds[u]
  BY <1>2, <1>4, Types DEF s, NumConnections
<1>6. /\ pc' \in [Workers -> Labels] /\ pc'[t] = "fill"
      /\ \A u \in Workers : u # t => pc'[u] = pc[u]
  BY <1>1, Went DEF Labels
<1>7. i[t] = 1
  BY <1>1 DEF PlaceInv, Placed
<1>8. ASSUME NEW u \in Workers PROVE i'[u] <= Len(poll_fds'[u]) + 1
  <2>1. CASE u = t
    BY <1>1, <1>3, <1>5, <1>7, <2>1 DEF NumConnections
  <2>2. CASE u # t
    BY <1>1, <1>5, <2>2, Types
  <2> QED
    BY <2>1, <2>2
<1>9. TypeOK'
  BY <1>1, <1>5, <1>6, <1>8, Types, TypesKept
<1>10. Placed(t)'
  BY <1>1, <1>3, <1>5, <1>6, <1>7, DealtStays DEF Placed
<1>11. ThreadCount * NumConnections(t)' <= accepted - t + ThreadCount - 1
  <2>1. acceptor \notin Lost
    BY <1>1 DEF PlaceInv, Dealing, Lost
  <2>2. ThreadCount * Len(Dealt(t)) <= accepted - t + ThreadCount - 1
    BY <2>1 DEF PlaceInv, Shares, Share
  <2>3. ThreadCount * Len(v) <= ThreadCount * Len(Dealt(t))
    BY <1>3, AWorker, Times
  <2>4. ThreadCount * Len(v) \in Int /\ ThreadCount * Len(Dealt(t)) \in Int /\ accepted \in Int
    BY <1>3, AWorker DEF PlaceInv, TypeOK
  <2> QED
    BY <1>5, <2>2, <2>3, <2>4, AWorker
<1> QED
  BY <1>1, <1>5, <1>6, <1>9, <1>10, <1>11, WorkerMoves DEF Elsewhere, Ended

(* The descriptors filled in are the first ones dealt, also if the vector  *)
(* has grown since.                                                        *)
Filled(t) == SubSeq(Append(connection_fds[t], conn_fd), 1, NumConnections(t))

LEMMA FilledFromDealt ==
  ASSUME PlaceInv, NEW t \in Workers, pc[t] = "fill"
  PROVE  /\ Filled(t) \in Seq(Fds \cup {NoFd}) /\ Len(Filled(t)) = NumConnections(t)
         /\ DOMAIN Filled(t) = 1 .. NumConnections(t)
         /\ NumConnections(t) <= Len(Dealt(t))
         /\ \A n \in 1 .. NumConnections(t) : Filled(t)[n] = Dealt(t)[n]
<1>1. /\ connection_fds[t] \in Seq(Fds \cup {NoFd}) /\ conn_fd \in Fds \cup {NoFd}
      /\ Len(connection_fds[t]) \in Nat /\ NumConnections(t) \in Nat
      /\ NumConnections(t) <= Len(Dealt(t))
  <2>1. connection_fds[t] \in Seq(Fds) /\ Len(connection_fds[t]) \in Nat /\ NumConnections(t) \in Nat
    BY DealtVector, Polled
  <2>2. connection_fds[t] \in Seq(Fds \cup {NoFd})
    BY <2>1
  <2>3. conn_fd \in Fds \cup {NoFd}
    BY DEF PlaceInv, TypeOK
  <2>4. NumConnections(t) <= Len(Dealt(t))
    BY DEF PlaceInv, Placed
  <2> QED
    BY <2>1, <2>2, <2>3, <2>4
<1> DEFINE all == Append(connection_fds[t], conn_fd)
<1>2. /\ all \in Seq(Fds \cup {NoFd}) /\ Len(all) = Len(connection_fds[t]) + 1
      /\ \A n \in 1 .. Len(connection_fds[t]) : all[n] = connection_fds[t][n]
  BY <1>1, AppendProperties
<1>3. Growing(t) => Dealt(t) = all
  BY DEF Dealt
<1>4. ~Growing(t) => Dealt(t) = connection_fds[t]
  BY DEF Dealt
<1> HIDE DEF all
<1>5. NumConnections(t) <= Len(all)
  BY <1>1, <1>2, <1>3, <1>4
<1>6. /\ SubSeq(all, 1, NumConnections(t)) \in Seq(Fds \cup {NoFd})
      /\ Len(SubSeq(all, 1, NumConnections(t))) = NumConnections(t)
      /\ \A n \in 1 .. NumConnections(t) : SubSeq(all, 1, NumConnections(t))[n] = all[n]
  BY <1>1, <1>2, <1>5
<1>7. \A n \in 1 .. NumConnections(t) : all[n] = Dealt(t)[n]
  BY <1>1, <1>2, <1>3, <1>4
<1>8. Filled(t) = SubSeq(all, 1, NumConnections(t))
  BY DEF Filled, all
<1>9. DOMAIN Filled(t) = 1 .. NumConnections(t)
  BY <1>6, <1>8, LenProperties
<1> QED
  BY <1>1, <1>6, <1>7, <1>8, <1>9

LEMMA FillWrites ==
  ASSUME PlaceInv, NEW t \in Workers, Fill(t)
  PROVE  /\ pc[t] = "fill" /\ poll_fds' = [poll_fds EXCEPT ![t] = Filled(t)] /\ TestLoop(t)
         /\ handled' = [handled EXCEPT ![t] = handled[t] \cup
              {table[Filled(t)[n]] : n \in {m \in DOMAIN Filled(t) : Open(Filled(t)[m])}}]
         /\ UNCHANGED <<table, lost, listen_open, expired, i, revents, passes, reentered>>
         /\ AcceptorStays
BY DEF Fill, Filled, netVars, acceptorVars, AcceptorStays

LEMMA FillKeepsPlace ==
  ASSUME PlaceInv, NEW t \in Workers, Fill(t) PROVE PlaceInv'
<1>1. /\ UNCHANGED <<table, lost, listen_open, expired, i, revents, passes, reentered>>
      /\ AcceptorStays /\ pc[t] = "fill"
  BY FillWrites
<1>2. /\ poll_fds' \in [Workers -> Seq(Fds \cup {NoFd})] /\ poll_fds'[t] = Filled(t)
      /\ \A u \in Workers : u # t => poll_fds'[u] = poll_fds[u]
  BY <1>1, FillWrites, FilledFromDealt, Types
<1>3. NumConnections(t)' = NumConnections(t)
  BY <1>1, <1>2, FilledFromDealt DEF NumConnections
<1>4. /\ handled' \in [Workers -> SUBSET Connections]
      /\ \A u \in Workers : u # t => handled'[u] = handled[u]
  <2> DEFINE new == {table[Filled(t)[n]] : n \in {m \in DOMAIN Filled(t) : Open(Filled(t)[m])}}
  <2>1. new \subseteq Connections
    BY Types DEF Open
  <2>2. handled' = [handled EXCEPT ![t] = handled[t] \cup new]
    BY FillWrites
  <2> HIDE DEF new
  <2> QED
    BY <2>1, <2>2, Types
<1>5. /\ pc' \in [Workers -> Labels] /\ pc'[t] \in {"poll", "closing"}
      /\ \A u \in Workers : u # t => pc'[u] = pc[u]
  BY FillWrites, Tested
<1>6. i[t] = 1
  BY <1>1 DEF PlaceInv, Placed
<1>7. \A u \in Workers : i'[u] <= Len(poll_fds'[u]) + 1
  BY <1>1, <1>2, <1>3, Types DEF NumConnections
<1>8. TypeOK'
  BY <1>1, <1>2, <1>4, <1>5, <1>7, Types, TypesKept
<1>9. Placed(t)'
  BY <1>1, <1>5, <1>6 DEF Placed
<1> QED
  BY <1>1, <1>2, <1>3, <1>4, <1>5, <1>8, <1>9, WorkerMoves DEF Elsewhere, Ended, PlaceInv, Shares

(* The event loop. *)
LEMMA PollKeepsPlace ==
  ASSUME PlaceInv, NEW t \in Workers, Poll(t) \/ PollFails(t) PROVE PlaceInv'
<1>1. /\ UNCHANGED <<table, lost, listen_open, expired, i, poll_fds, reentered, handled>>
      /\ AcceptorStays /\ pc[t] = "poll" /\ passes' = [passes EXCEPT ![t] = @ + 1]
  BY DEF Poll, PollFails, MayPoll, netVars, acceptorVars, AcceptorStays
<1>2. passes' \in [Workers -> Nat]
  BY <1>1, Types
<1>3. NumConnections(t)' = NumConnections(t) /\ NumConnections(t) \in Nat
  BY <1>1, Polled DEF NumConnections
<1>4. /\ pc' \in [Workers -> Labels] /\ pc'[t] \in {"recv", "closing"}
      /\ \A u \in Workers : u # t => pc'[u] = pc[u]
  BY Went DEF Poll, PollFails, Labels
<1>5. /\ revents' \in [Workers -> Seq(SUBSET {"in", "out"})]
      /\ \A u \in Workers : u # t => revents'[u] = revents[u]
      /\ pc'[t] = "recv" => Len(revents'[t]) = NumConnections(t)
  <2>1. CASE Poll(t)
    <3>1. PICK r \in Reported(t) : revents' = [revents EXCEPT ![t] = r]
      BY <2>1 DEF Poll
    <3>2. r \in Seq(SUBSET {"in", "out"}) /\ Len(r) = NumConnections(t)
      BY <1>3 DEF Reported
    <3> QED
      BY <3>1, <3>2, Types
  <2>2. CASE PollFails(t)
    <3>1. pc'[t] = "closing" /\ revents' = revents
      BY <2>2, Went DEF PollFails, Labels
    <3> QED
      BY <3>1, Types
  <2> QED
    BY <2>1, <2>2
<1>6. TypeOK'
  BY <1>1, <1>2, <1>4, <1>5, Types, TypesKept
<1>7. Placed(t)'
  BY <1>1, <1>3, <1>4, <1>5 DEF PlaceInv, Placed
<1> QED
  BY <1>1, <1>3, <1>4, <1>5, <1>6, <1>7, WorkerMoves DEF Elsewhere, Ended, PlaceInv, Shares

LEMMA RecvKeepsPlace ==
  ASSUME PlaceInv, NEW t \in Workers, Recv(t) PROVE PlaceInv'
<1>1. /\ UNCHANGED <<table, lost, listen_open, expired, i, poll_fds, passes, reentered, handled>>
      /\ AcceptorStays /\ pc[t] = "recv" /\ i[t] <= NumConnections(t) /\ Seen(t, "in")
      /\ Goto(t, "send") \/ Goto(t, "close")
  BY DEF Recv, SystemCallOnly, netVars, acceptorVars, AcceptorStays
<1>2. /\ revents' \in [Workers -> Seq(SUBSET {"in", "out"})]
      /\ \A u \in Workers : Len(revents'[u]) = Len(revents[u]) /\ (u # t => revents'[u] = revents[u])
  BY <1>1, SeenKeeps
<1>3. /\ pc' \in [Workers -> Labels] /\ pc'[t] \in {"send", "close"}
      /\ \A u \in Workers : u # t => pc'[u] = pc[u]
  BY <1>1, Went DEF Labels
<1>4. TypeOK'
  BY <1>1, <1>2, <1>3, Types, TypesKept
<1>5. Placed(t)' /\ NumConnections(t)' = NumConnections(t)
  BY <1>1, <1>2, <1>3 DEF PlaceInv, Placed, NumConnections
<1> QED
  BY <1>1, <1>2, <1>3, <1>4, <1>5, WorkerMoves DEF Elsewhere, Ended, PlaceInv, Shares

LEMMA SendKeepsPlace ==
  ASSUME PlaceInv, NEW t \in Workers, Send(t) PROVE PlaceInv'
<1>1. /\ UNCHANGED <<table, lost, listen_open, expired, poll_fds, passes, reentered, handled>>
      /\ pc[t] = "send" /\ Seen(t, "out")
      /\ \/ NextConnection(t) /\ AcceptorStays
         \/ Goto(t, "close") /\ UNCHANGED i /\ AcceptorStays
         \/ /\ ProcessEnds("killed")
            /\ UNCHANGED <<i, accepted, timer_started, accepting_connections, conn_fd, next_thread,
                           connection_fds, dealt>>
  BY DEF Send, SystemCallOnly, netVars, acceptorVars, AcceptorStays
<1>2. /\ revents' \in [Workers -> Seq(SUBSET {"in", "out"})]
      /\ \A u \in Workers : Len(revents'[u]) = Len(revents[u]) /\ (u # t => revents'[u] = revents[u])
  <2>1. i[t] <= NumConnections(t)
    BY <1>1 DEF PlaceInv, Placed
  <2> QED
    BY <1>1, <2>1, SeenKeeps
<1>3. CASE NextConnection(t) /\ AcceptorStays
  <2>1. /\ pc' \in [Workers -> Labels] /\ pc'[t] = "recv"
        /\ \A u \in Workers : u # t => pc'[u] = pc[u]
    BY <1>3, Went DEF NextConnection, Labels
  <2>2. /\ i' \in [Workers -> Nat \ {0}] /\ i'[t] = i[t] + 1
        /\ \A u \in Workers : u # t => i'[u] = i[u]
    BY <1>3, Advanced DEF NextConnection
  <2>3. i[t] <= NumConnections(t) /\ NumConnections(t) \in Nat /\ i[t] \in Nat
    BY <1>1, Polled DEF PlaceInv, Placed
  <2>4. ASSUME NEW u \in Workers PROVE i'[u] <= Len(poll_fds'[u]) + 1
    <3>1. CASE u = t
      BY <1>1, <2>2, <2>3, <3>1 DEF NumConnections
    <3>2. CASE u # t
      BY <1>1, <2>2, <3>2, Types
    <3> QED
      BY <3>1, <3>2
  <2>5. TypeOK'
    BY <1>1, <1>2, <1>3, <2>1, <2>2, <2>4, Types, TypesKept
  <2>6. Placed(t)' /\ NumConnections(t)' = NumConnections(t)
    BY <1>1, <1>2, <2>1 DEF PlaceInv, Placed, NumConnections
  <2> QED
    BY <1>1, <1>2, <1>3, <2>1, <2>2, <2>5, <2>6, WorkerMoves DEF Elsewhere, Ended, PlaceInv, Shares
<1>4. CASE Goto(t, "close") /\ UNCHANGED i /\ AcceptorStays
  <2>1. /\ pc' \in [Workers -> Labels] /\ pc'[t] = "close"
        /\ \A u \in Workers : u # t => pc'[u] = pc[u]
    BY <1>4, Went DEF Labels
  <2>2. TypeOK'
    BY <1>1, <1>2, <1>4, <2>1, Types, TypesKept
  <2>3. Placed(t)' /\ NumConnections(t)' = NumConnections(t)
    BY <1>1, <1>2, <1>4, <2>1 DEF PlaceInv, Placed, NumConnections
  <2> QED
    BY <1>1, <1>2, <1>4, <2>1, <2>2, <2>3, WorkerMoves DEF Elsewhere, Ended, PlaceInv, Shares
<1>5. CASE /\ ProcessEnds("killed")
           /\ UNCHANGED <<i, accepted, timer_started, accepting_connections, conn_fd, next_thread,
                          connection_fds, dealt>>
  BY <1>1, <1>2, <1>5, ProcessEndsKeepsPlace DEF Lost
<1> QED
  BY <1>1, <1>3, <1>4, <1>5

(* A descriptor is forgotten. *)
LEMMA Forgotten ==
  ASSUME PlaceInv, NEW t \in Workers, pc[t] = "close", poll_fds' = [poll_fds EXCEPT ![t][i[t]] = NoFd]
  PROVE  /\ poll_fds' \in [Workers -> Seq(Fds \cup {NoFd})]
         /\ \A u \in Workers : NumConnections(u)' = NumConnections(u)
         /\ \A u \in Workers : u # t => poll_fds'[u] = poll_fds[u]
         /\ i[t] \in 1 .. NumConnections(t)
         /\ \A n \in 1 .. NumConnections(t) :
              poll_fds'[t][n] = IF n = i[t] THEN NoFd ELSE poll_fds[t][n]
<1>1. poll_fds \in [Workers -> Seq(Fds \cup {NoFd})] /\ i[t] \in 1 .. Len(poll_fds[t])
  BY Types, Polled DEF PlaceInv, Placed, NumConnections
<1>2. NoFd \in Fds \cup {NoFd}
  OBVIOUS
<1> QED
  BY <1>1, <1>2, EntryWritten DEF NumConnections

LEMMA CloseFailedKeepsPlace ==
  ASSUME PlaceInv, NEW t \in Workers, CloseFailed(t) PROVE PlaceInv'
<1>1. /\ UNCHANGED <<lost, listen_open, expired, passes, reentered, handled>>
      /\ AcceptorStays /\ pc[t] = "close" /\ Seen(t, "out") /\ Close(Fd(t))
      /\ poll_fds' = [poll_fds EXCEPT ![t][i[t]] = NoFd] /\ Advance(t) /\ Goto(t, "recv")
  BY DEF CloseFailed, CloseAndForget, NextConnection, netVars, acceptorVars, AcceptorStays
<1>2. /\ poll_fds' \in [Workers -> Seq(Fds \cup {NoFd})]
      /\ \A u \in Workers : NumConnections(u)' = NumConnections(u)
      /\ \A u \in Workers : u # t => poll_fds'[u] = poll_fds[u]
  BY <1>1, Forgotten
<1>3. /\ revents' \in [Workers -> Seq(SUBSET {"in", "out"})]
      /\ \A u \in Workers : Len(revents'[u]) = Len(revents[u]) /\ (u # t => revents'[u] = revents[u])
  <2>1. i[t] <= NumConnections(t)
    BY <1>1 DEF PlaceInv, Placed
  <2> QED
    BY <1>1, <2>1, SeenKeeps
<1>4. /\ pc' \in [Workers -> Labels] /\ pc'[t] = "recv"
      /\ \A u \in Workers : u # t => pc'[u] = pc[u]
  BY <1>1, Went DEF Labels
<1>5. /\ i' \in [Workers -> Nat \ {0}] /\ i'[t] = i[t] + 1
      /\ \A u \in Workers : u # t => i'[u] = i[u]
  BY <1>1, Advanced
<1>6. i[t] <= NumConnections(t) /\ NumConnections(t) \in Nat /\ i[t] \in Nat
  BY <1>1, Polled DEF PlaceInv, Placed
<1>7. ASSUME NEW u \in Workers PROVE i'[u] <= Len(poll_fds'[u]) + 1
  <2>1. CASE u = t
    BY <1>2, <1>5, <1>6, <2>1 DEF NumConnections
  <2>2. CASE u # t
    BY <1>2, <1>5, <2>2, Types
  <2> QED
    BY <2>1, <2>2
<1>8. DOMAIN table' \subseteq Fds /\ \A f \in DOMAIN table' : table'[f] \in Connections
  BY <1>1, Closed
<1>9. TypeOK'
  BY <1>1, <1>2, <1>3, <1>4, <1>5, <1>7, <1>8, Types, TypesKept
<1>10. Placed(t)'
  BY <1>1, <1>2, <1>3, <1>4 DEF PlaceInv, Placed
<1> QED
  BY <1>1, <1>2, <1>3, <1>4, <1>5, <1>9, <1>10, WorkerMoves DEF Elsewhere, Ended, PlaceInv, Shares

LEMMA EndPassKeepsPlace ==
  ASSUME PlaceInv, NEW t \in Workers, EndPass(t) PROVE PlaceInv'
<1>1. /\ UNCHANGED <<table, lost, listen_open, expired, poll_fds, passes, reentered, handled>>
      /\ AcceptorStays /\ pc[t] = "recv" /\ Restart(t) /\ TestLoop(t)
      /\ revents' = [revents EXCEPT ![t] = <<>>]
  BY DEF EndPass, netVars, acceptorVars, AcceptorStays
<1>2. /\ pc' \in [Workers -> Labels] /\ pc'[t] \in {"closing", "poll"}
      /\ \A u \in Workers : u # t => pc'[u] = pc[u]
  BY <1>1, Tested
<1>3. /\ i' \in [Workers -> Nat \ {0}] /\ i'[t] = 1
      /\ \A u \in Workers : u # t => i'[u] = i[u]
  BY <1>1, Advanced
<1>4. /\ revents' \in [Workers -> Seq(SUBSET {"in", "out"})]
      /\ \A u \in Workers : u # t => revents'[u] = revents[u]
  <2>1. <<>> \in Seq(SUBSET {"in", "out"})
    OBVIOUS
  <2> QED
    BY <1>1, <2>1, Types
<1>5. ASSUME NEW u \in Workers PROVE i'[u] <= Len(poll_fds'[u]) + 1
  <2>1. CASE u = t
    BY <1>1, <1>3, <2>1, Polled DEF NumConnections
  <2>2. CASE u # t
    BY <1>1, <1>3, <2>2, Types
  <2> QED
    BY <2>1, <2>2
<1>6. TypeOK'
  BY <1>1, <1>2, <1>3, <1>4, <1>5, Types, TypesKept
<1>7. Placed(t)' /\ NumConnections(t)' = NumConnections(t)
  BY <1>1, <1>2, <1>3 DEF Placed, NumConnections
<1> QED
  BY <1>1, <1>2, <1>3, <1>4, <1>6, <1>7, WorkerMoves DEF Elsewhere, Ended, PlaceInv, Shares

LEMMA CloseServedKeepsPlace ==
  ASSUME PlaceInv, NEW t \in Workers, CloseServed(t) PROVE PlaceInv'
<1>1. /\ UNCHANGED <<lost, listen_open, expired, pc, poll_fds, revents, passes, reentered, handled>>
      /\ AcceptorStays /\ pc[t] = "closing" /\ Advance(t) /\ i[t] <= NumConnections(t) /\ Close(Fd(t))
  BY DEF CloseServed, MoreToClose, netVars, acceptorVars, AcceptorStays
<1>2. /\ i' \in [Workers -> Nat \ {0}] /\ i'[t] = i[t] + 1
      /\ \A u \in Workers : u # t => i'[u] = i[u]
  BY <1>1, Advanced
<1>3. ASSUME NEW u \in Workers PROVE i'[u] <= Len(poll_fds'[u]) + 1
  <2>1. CASE u = t
    BY <1>1, <1>2, <2>1, Polled DEF NumConnections
  <2>2. CASE u # t
    BY <1>1, <1>2, <2>2, Types
  <2> QED
    BY <2>1, <2>2
<1>4. DOMAIN table' \subseteq Fds /\ \A f \in DOMAIN table' : table'[f] \in Connections
  BY <1>1, Closed
<1>5. TypeOK'
  BY <1>1, <1>2, <1>3, <1>4, Types, TypesKept
<1>6. Placed(t)' /\ NumConnections(t)' = NumConnections(t)
  BY <1>1 DEF Placed, NumConnections
<1> QED
  BY <1>1, <1>2, <1>5, <1>6, WorkerMoves DEF Elsewhere, Ended, PlaceInv, Shares

LEMMA LeaveKeepsPlace ==
  ASSUME PlaceInv, NEW t \in Workers, Leave(t) PROVE PlaceInv'
<1>1. /\ UNCHANGED <<table, lost, listen_open, expired, revents, passes, handled>>
      /\ AcceptorStays /\ pc[t] = "closing" /\ Restart(t) /\ poll_fds' = [poll_fds EXCEPT ![t] = <<>>]
      /\ Goto(t, "exited") \/ Goto(t, "enter")
      /\ reentered' \in {reentered, reentered \cup {t}}
  BY DEF Leave, netVars, acceptorVars, AcceptorStays
<1>2. /\ i' \in [Workers -> Nat \ {0}] /\ i'[t] = 1
      /\ \A u \in Workers : u # t => i'[u] = i[u]
  BY <1>1, Advanced
<1>3. /\ pc' \in [Workers -> Labels] /\ pc'[t] \in {"exited", "enter"}
      /\ \A u \in Workers : u # t => pc'[u] = pc[u]
  BY <1>1, Went DEF Labels, Ended
<1>4. /\ poll_fds' \in [Workers -> Seq(Fds \cup {NoFd})] /\ NumConnections(t)' = 0
      /\ \A u \in Workers : u # t => poll_fds'[u] = poll_fds[u]
  <2>1. <<>> \in Seq(Fds \cup {NoFd}) /\ Len(<<>>) = 0
    OBVIOUS
  <2>2. poll_fds'[t] = <<>>
    BY <1>1, Types
  <2> QED
    BY <1>1, <2>1, <2>2, Types DEF NumConnections
<1>5. ASSUME NEW u \in Workers PROVE i'[u] <= Len(poll_fds'[u]) + 1
  <2>1. CASE u = t
    BY <1>2, <1>4, <2>1 DEF NumConnections
  <2>2. CASE u # t
    BY <1>2, <1>4, <2>2, Types
  <2> QED
    BY <2>1, <2>2
<1>6. reentered' \subseteq Workers
  BY Types DEF Leave
<1>7. TypeOK'
  BY <1>1, <1>2, <1>3, <1>4, <1>5, <1>6, Types, TypesKept
<1>8. Placed(t)'
  BY <1>2, <1>3, <1>4 DEF Placed
<1>9. ThreadCount * NumConnections(t)' <= accepted - t + ThreadCount - 1
  <2>1. accepted \in Nat /\ ThreadCount * 0 = 0
    BY AWorker DEF PlaceInv, TypeOK
  <2> QED
    BY <1>4, <2>1, AWorker
<1> QED
  BY <1>1, <1>2, <1>3, <1>4, <1>7, <1>8, <1>9, WorkerMoves DEF Elsewhere, Ended

LEMMA WorkerKeepsPlace ==
  ASSUME PlaceInv, NEW t \in Workers, Worker(t) PROVE PlaceInv'
<1>1. CASE TornRead(t) \/ ReportOutOfBounds(t)
  <2>1. /\ ProcessEnds("undefined")
        /\ UNCHANGED <<table, lost, listen_open, expired, accepted, timer_started, accepting_connections,
                       conn_fd, next_thread, connection_fds, dealt, i, poll_fds, revents, passes,
                       reentered, handled>>
    BY <1>1 DEF TornRead, ReportOutOfBounds, SystemCallOnly, netVars
  <2> QED
    BY <2>1, Types, ProcessEndsKeepsPlace DEF Lost
<1> QED
  BY <1>1, WaitingKeepsPlace, EnterKeepsPlace, FillKeepsPlace, PollKeepsPlace, RecvKeepsPlace,
     SendKeepsPlace, CloseFailedKeepsPlace, EndPassKeepsPlace, CloseServedKeepsPlace, LeaveKeepsPlace
  DEF Worker

(* main, the clients and the clock. *)
World == CloseListenFd \/ ClientCloses \/ Tick \/ UNCHANGED vars

LEMMA WorldStays ==
  ASSUME World
  PROVE  /\ UNCHANGED <<table, pc, i, poll_fds, revents, passes, reentered, handled>>
         /\ AcceptorStays
BY DEF World, CloseListenFd, ClientCloses, Tick, netVars, acceptorVars, workerVars, vars, AcceptorStays

(* Connections are numbered as they come, and each has one number. *)
NameInv ==
  /\ \A f, g \in DOMAIN table : table[f] = table[g] => f = g
  /\ \A f \in DOMAIN table : table[f] <= accepted
  /\ \A t \in Workers : handled[t] \subseteq 1 .. accepted

LEMMA WorldKeepsPlace ==
  ASSUME PlaceInv, NameInv, World PROVE PlaceInv'
<1>1. /\ UNCHANGED <<table, pc, i, poll_fds, revents, passes, reentered, handled>>
      /\ UNCHANGED <<accepted, timer_started, accepting_connections, acceptor, conn_fd, next_thread,
                     connection_fds, dealt>>
  BY WorldStays DEF AcceptorStays
<1>2. /\ lost' \subseteq 1 .. accepted /\ expired' \in BOOLEAN /\ listen_open' \in BOOLEAN
  <2>1. \A f \in DOMAIN table : table[f] \in 1 .. accepted
    BY DEF NameInv, PlaceInv, TypeOK, Connections
  <2> QED
    BY <2>1 DEF World, CloseListenFd, ClientCloses, Tick, netVars, vars, PlaceInv, TypeOK
<1>3. \A t \in Workers : NumConnections(t)' = NumConnections(t) /\ Dealt(t)' = Dealt(t)
  BY <1>1 DEF NumConnections, Dealt, Growing
<1>4. TypeOK'
  BY <1>1, <1>2, <1>3 DEF PlaceInv, TypeOK
<1>5. ASSUME NEW t \in Workers PROVE Placed(t)'
  BY <1>1, <1>3 DEF PlaceInv, Placed
<1>6. Dealing' /\ Shares'
  BY <1>1, <1>3 DEF PlaceInv, Dealing, Shares
<1> QED
  BY <1>4, <1>5, <1>6 DEF PlaceInv

(* What can happen. *)
LEMMA Steps ==
  [Next]_vars => Acceptor \/ World \/ \E t \in Workers : Worker(t)
BY DEF Next, World, Terminated, KeepWaiting

LEMMA NextKeepsPlace == PlaceInv /\ NameInv /\ [Next]_vars => PlaceInv'
BY Steps, AcceptorKeepsPlace, WorkerKeepsPlace, WorldKeepsPlace

(***************************************************************************)
(* Names.                                                                  *)
(***************************************************************************)

(* What a worker's step can change of what others see. *)
LEMMA WorkerIsLocal ==
  ASSUME PlaceInv, NEW t \in Workers, Worker(t)
  PROVE  /\ UNCHANGED <<accepted, dealt>>
         /\ UNCHANGED table \/ (Close(Fd(t)) /\ pc[t] \in {"close", "closing"})
         /\ UNCHANGED handled \/ Fill(t)
         /\ \/ Elsewhere(t) /\ AcceptorStays
            \/ /\ UNCHANGED <<table, handled, reentered>>
               /\ \E label \in Lost : ProcessEnds(label)
<1>1. \/ UNCHANGED table
      \/ (Close(Fd(t)) /\ pc[t] \in {"close", "closing"})
  BY DEF Worker, AwaitConnections, StopWorking, TornRead, Enter, Fill, Poll, PollFails, Recv, Send,
         CloseFailed, CloseAndForget, EndPass, ReportOutOfBounds, CloseServed, Leave, SystemCallOnly
<1>2. UNCHANGED handled \/ Fill(t)
  BY DEF Worker, AwaitConnections, StopWorking, TornRead, Enter, Poll, PollFails, Recv, Send,
         CloseFailed, EndPass, ReportOutOfBounds, CloseServed, Leave, SystemCallOnly
<1>3. \/ AcceptorStays
      \/ \E label \in Lost : ProcessEnds(label) /\ UNCHANGED <<table, handled, reentered, accepted, dealt>>
  BY DEF Worker, AwaitConnections, StopWorking, TornRead, Enter, Fill, Poll, PollFails, Recv, Send,
         CloseFailed, EndPass, ReportOutOfBounds, CloseServed, Leave, SystemCallOnly, acceptorVars,
         AcceptorStays, Lost
<1>4. AcceptorStays => Elsewhere(t)
  <2>1. /\ pc \in [Workers -> Labels] /\ i \in [Workers -> Nat \ {0}]
        /\ poll_fds \in [Workers -> Seq(Fds \cup {NoFd})]
        /\ revents \in [Workers -> Seq(SUBSET {"in", "out"})]
        /\ handled \in [Workers -> SUBSET Connections]
    BY Types
  <2> SUFFICES ASSUME AcceptorStays, NEW u \in Workers, u # t
               PROVE  /\ pc'[u] = pc[u] /\ i'[u] = i[u] /\ poll_fds'[u] = poll_fds[u]
                      /\ revents'[u] = revents[u] /\ handled'[u] = handled[u]
    BY DEF Elsewhere
  <2>2. CASE AwaitConnections(t) \/ StopWorking(t) \/ Enter(t) \/ Fill(t)
    BY <2>1, <2>2 DEF AwaitConnections, StopWorking, Enter, Fill, TestLoop, Goto
  <2>3. CASE Poll(t) \/ PollFails(t) \/ EndPass(t)
    BY <2>1, <2>3 DEF Poll, PollFails, EndPass, TestLoop, Goto, Restart
  <2>4. CASE Recv(t)
    BY <2>1, <2>4 DEF Recv, Seen, SystemCallOnly, Goto
  <2>5. CASE Send(t)
    <3>1. acceptor' # "killed"
      <4>1. pc[t] = "send" /\ acceptor' = acceptor
        BY <2>5 DEF Send, AcceptorStays
      <4> QED
        BY <4>1 DEF PlaceInv, Dealing, Lost
    <3>2. NextConnection(t) \/ (Goto(t, "close") /\ UNCHANGED i)
      BY <2>5, <3>1 DEF Send, ProcessEnds
    <3>3. Seen(t, "out") /\ UNCHANGED <<poll_fds, handled>>
      BY <2>5 DEF Send, SystemCallOnly
    <3> QED
      BY <2>1, <3>2, <3>3 DEF Seen, NextConnection, Goto, Advance
  <2>6. CASE CloseFailed(t)
    BY <2>1, <2>6 DEF CloseFailed, CloseAndForget, Seen, NextConnection, Goto, Advance
  <2>7. CASE CloseServed(t) \/ Leave(t)
    BY <2>1, <2>7 DEF CloseServed, Leave, Goto, Advance, Restart
  <2>8. CASE TornRead(t) \/ ReportOutOfBounds(t)
    <3>1. acceptor' = "undefined" /\ acceptor' = acceptor /\ pc[t] \notin Lost
      BY <2>8 DEF TornRead, ReportOutOfBounds, ProcessEnds, AcceptorStays, Lost
    <3> QED
      BY <3>1 DEF PlaceInv, Dealing, Lost
  <2> QED
    BY <2>2, <2>3, <2>4, <2>5, <2>6, <2>7, <2>8 DEF Worker
<1>5. CASE AcceptorStays
  BY <1>1, <1>2, <1>4, <1>5 DEF AcceptorStays
<1>6. CASE \E label \in Lost : ProcessEnds(label) /\ UNCHANGED <<table, handled, reentered, accepted, dealt>>
  BY <1>6
<1> QED
  BY <1>3, <1>5, <1>6

LEMMA NextKeepsNames == PlaceInv /\ NameInv /\ [Next]_vars => NameInv'
<1> SUFFICES ASSUME PlaceInv, NameInv, [Next]_vars PROVE NameInv'
  OBVIOUS
<1>1. ASSUME UNCHANGED accepted, UNCHANGED table \/ \E f : Close(f),
             \A t \in Workers : handled'[t] \subseteq 1 .. accepted
      PROVE  NameInv'
  <2>1. \A f \in DOMAIN table' : f \in DOMAIN table /\ table'[f] = table[f]
    BY <1>1, Closed
  <2> QED
    BY <1>1, <2>1 DEF NameInv
<1>2. CASE Accept
  <2>1. \A f \in DOMAIN table : table[f] # accepted + 1 /\ table[f] <= accepted + 1
    <3>1. ASSUME NEW f \in DOMAIN table PROVE table[f] # accepted + 1 /\ table[f] <= accepted + 1
      <4>1. table[f] \in Nat /\ table[f] <= accepted /\ accepted \in Nat
        BY <1>2, Deals DEF PlaceInv, TypeOK, NameInv, Connections
      <4> QED
        BY <4>1
    <3> QED
      BY <3>1
  <2>2. \A t \in Workers : handled'[t] \subseteq 1 .. accepted + 1
    BY <1>2, Deals DEF NameInv, Accept, workerVars
  <2> QED
    BY <1>2, <2>1, <2>2, Opened, Deals DEF NameInv
<1>3. CASE EndDealing \/ TimeLimitReached \/ AcceptFails
  <2>1. UNCHANGED <<table, accepted, handled>>
    BY <1>3 DEF EndDealing, TimeLimitReached, AcceptFails, workerVars
  <2> QED
    BY <1>1, <2>1 DEF NameInv
<1>4. ASSUME NEW t \in Workers, Worker(t) PROVE NameInv'
  <2>1. UNCHANGED accepted /\ (UNCHANGED table \/ \E f : Close(f))
    BY <1>4, WorkerIsLocal
  <2>2. CASE UNCHANGED handled
    BY <1>1, <2>1, <2>2 DEF NameInv
  <2>3. CASE Fill(t)
    <3> DEFINE new == {table[Filled(t)[n]] : n \in {m \in DOMAIN Filled(t) : Open(Filled(t)[m])}}
    <3>1. \A f \in DOMAIN table : table[f] \in 1 .. accepted
      BY DEF PlaceInv, TypeOK, NameInv, Connections
    <3>2. new \subseteq 1 .. accepted
      BY <3>1 DEF Open
    <3>3. handled' = [handled EXCEPT ![t] = handled[t] \cup new]
      BY <2>3, FillWrites
    <3> HIDE DEF new
    <3>4. \A u \in Workers : handled'[u] \subseteq 1 .. accepted
      BY <3>2, <3>3, Types DEF NameInv
    <3> QED
      BY <1>1, <2>1, <3>4
  <2> QED
    BY <1>4, <2>2, <2>3, WorkerIsLocal
<1>5. CASE World
  BY <1>1, <1>5, WorldStays DEF AcceptorStays, NameInv
<1> QED
  BY <1>2, <1>3, <1>4, <1>5, Steps DEF Acceptor

(***************************************************************************)
(* What a worker has served and is open is still to be closed by it.       *)
(***************************************************************************)

ToServe(t) ==
  {n \in 1 .. NumConnections(t) : Serving(t) \/ (pc[t] = "closing" /\ n >= i[t])}

Serves(t, f) == \E n \in ToServe(t) : poll_fds[t][n] = f

ServedInv ==
  \A t \in Workers : pc[t] \notin Lost =>
    \A f \in DOMAIN table : table[f] \in handled[t] => Serves(t, f)

LEMMA ServedElsewhere ==
  ASSUME PlaceInv, NEW t \in Workers, Elsewhere(t), NEW u \in Workers, u # t
  PROVE  /\ pc'[u] = pc[u] /\ handled'[u] = handled[u] /\ ToServe(u)' = ToServe(u)
         /\ \A f : Serves(u, f)' = Serves(u, f)
BY DEF Elsewhere, Serves, ToServe, Serving, NumConnections

(* The steps that only move on: what is to serve stays. *)
LEMMA MovesOn ==
  ASSUME PlaceInv, NEW t \in Workers,
         Poll(t) \/ PollFails(t) \/ Recv(t) \/ Send(t) \/ EndPass(t), pc'[t] \notin Lost
  PROVE  /\ ToServe(t)' = ToServe(t) /\ UNCHANGED <<table, poll_fds, handled>>
         /\ pc'[t] \notin {"wait", "enter", "fill"}
<1>1. UNCHANGED <<table, poll_fds, handled>> /\ Serving(t)
  BY DEF Poll, PollFails, Recv, Send, EndPass, SystemCallOnly, MayPoll, Serving
<1>2. \/ pc'[t] \in {"poll", "recv", "send", "close"}
      \/ pc'[t] = "closing" /\ i'[t] = 1
  <2>1. CASE Poll(t) \/ PollFails(t)
    BY <2>1 DEF Poll, PollFails, MayPoll, Goto, PlaceInv, TypeOK, Placed
  <2>2. CASE EndPass(t)
    BY <2>2, Tested, Advanced DEF EndPass
  <2>3. CASE Recv(t) \/ Send(t)
    BY <2>3 DEF Recv, Send, NextConnection, ProcessEnds, Goto, PlaceInv, TypeOK, Lost
  <2> QED
    BY <2>1, <2>2, <2>3
<1>3. ToServe(t) = 1 .. NumConnections(t)
  BY <1>1 DEF ToServe
<1>4. ToServe(t)' = 1 .. NumConnections(t)
  BY <1>1, <1>2 DEF ToServe, NumConnections, Serving
<1> QED
  BY <1>1, <1>2, <1>3, <1>4

LEMMA FillServes ==
  ASSUME PlaceInv, NEW t \in Workers, Fill(t)
  PROVE  /\ ToServe(t)' = 1 .. NumConnections(t) /\ ToServe(t) = {}
         /\ poll_fds'[t] = Filled(t)
<1>1. pc[t] = "fill" /\ pc'[t] \in {"closing", "poll"} /\ i'[t] = 1
  BY FillWrites, Tested DEF PlaceInv, Placed
<1>2. poll_fds'[t] = Filled(t)
  BY FillWrites, Types
<1>3. NumConnections(t)' = NumConnections(t)
  BY <1>1, <1>2, FilledFromDealt DEF NumConnections
<1> QED
  BY <1>1, <1>2, <1>3 DEF ToServe, Serving

LEMMA CloseFailedServes ==
  ASSUME PlaceInv, NEW t \in Workers, CloseFailed(t)
  PROVE  /\ ToServe(t)' = ToServe(t) /\ ToServe(t) = 1 .. NumConnections(t) /\ i[t] \in ToServe(t)
         /\ \A n \in ToServe(t) : poll_fds'[t][n] = IF n = i[t] THEN NoFd ELSE poll_fds[t][n]
         /\ Close(Fd(t)) /\ handled' = handled /\ reentered' = reentered
         /\ pc'[t] \notin {"wait", "enter", "fill"}
<1>1. pc[t] = "close" /\ pc'[t] = "recv" /\ Close(Fd(t)) /\ handled' = handled
      /\ reentered' = reentered
  BY Types DEF CloseFailed, CloseAndForget, NextConnection, Goto
<1>2. /\ NumConnections(t)' = NumConnections(t) /\ i[t] \in 1 .. NumConnections(t)
      /\ \A n \in 1 .. NumConnections(t) :
           poll_fds'[t][n] = IF n = i[t] THEN NoFd ELSE poll_fds[t][n]
  BY <1>1, Forgotten DEF CloseFailed, CloseAndForget
<1> QED
  BY <1>1, <1>2 DEF ToServe, Serving

LEMMA CloseServedServes ==
  ASSUME PlaceInv, NEW t \in Workers, CloseServed(t)
  PROVE  /\ ToServe(t)' = ToServe(t) \ {i[t]} /\ i[t] \in ToServe(t) /\ UNCHANGED <<poll_fds, handled>>
         /\ Close(Fd(t)) /\ pc'[t] = "closing" /\ pc[t] = "closing"
<1>1. /\ pc[t] = "closing" /\ UNCHANGED <<pc, poll_fds, handled>> /\ Close(Fd(t))
      /\ i'[t] = i[t] + 1 /\ i[t] \in 1 .. NumConnections(t)
  BY Polled, Advanced DEF CloseServed, MoreToClose
<1> QED
  BY <1>1, Polled DEF ToServe, Serving, NumConnections

LEMMA WorkerKeepsServed ==
  ASSUME PlaceInv, NameInv, ServedInv, NEW t \in Workers, Worker(t), Elsewhere(t), pc'[t] \notin Lost,
         NEW f \in DOMAIN table', table'[f] \in handled'[t]
  PROVE  Serves(t, f)'
<1>0. pc[t] \notin Lost
  BY DEF Worker, AwaitConnections, StopWorking, TornRead, Enter, Fill, Poll, PollFails, MayPoll, Recv,
         Send, CloseFailed, EndPass, ReportOutOfBounds, CloseServed, Leave, Lost
<1>1. f \in DOMAIN table /\ table'[f] = table[f]
  BY WorkerIsLocal, Closed
<1>2. table[f] \in handled[t] => Serves(t, f)
  BY <1>0, <1>1 DEF ServedInv
<1>3. CASE Poll(t) \/ PollFails(t) \/ Recv(t) \/ Send(t) \/ EndPass(t)
  BY <1>1, <1>2, <1>3, MovesOn DEF Serves
<1>4. CASE AwaitConnections(t) \/ StopWorking(t) \/ Enter(t) \/ TornRead(t) \/ Leave(t)
  <2>1. ToServe(t) = {}
    BY <1>4, Polled DEF AwaitConnections, StopWorking, Enter, TornRead, Leave, MoreToClose, ToServe, Serving
  <2>2. handled' = handled
    BY <1>4 DEF AwaitConnections, StopWorking, Enter, TornRead, Leave
  <2> QED
    BY <1>1, <1>2, <2>1, <2>2 DEF Serves
<1>5. CASE Fill(t)
  <2>1. ToServe(t) = {} /\ ToServe(t)' = 1 .. NumConnections(t) /\ poll_fds'[t] = Filled(t)
    BY <1>5, FillServes
  <2>2. table[f] \notin handled[t]
    BY <1>2, <2>1 DEF Serves
  <2>3. handled'[t] = handled[t] \cup
          {table[Filled(t)[n]] : n \in {m \in DOMAIN Filled(t) : Open(Filled(t)[m])}}
    BY <1>5, FillWrites, Types
  <2>4. PICK n \in DOMAIN Filled(t) : Open(Filled(t)[n]) /\ table[f] = table[Filled(t)[n]]
    BY <1>1, <2>2, <2>3
  <2>5. f = Filled(t)[n]
    BY <1>1, <2>4 DEF NameInv, Open
  <2>6. n \in 1 .. NumConnections(t)
    BY <1>5, <2>4, FillWrites, FilledFromDealt
  <2> QED
    BY <2>1, <2>5, <2>6 DEF Serves
<1>6. CASE CloseFailed(t)
  <2>1. PICK n \in ToServe(t) : poll_fds[t][n] = f
    BY <1>1, <1>2, <1>6, CloseFailedServes DEF Serves
  <2>2. n # i[t]
    <3>1. Close(Fd(t))
      BY <1>6, CloseFailedServes
    <3>2. f # Fd(t)
      BY <3>1, Closed
    <3> QED
      BY <2>1, <3>2 DEF Fd
  <2> QED
    BY <1>6, <2>1, <2>2, CloseFailedServes DEF Serves
<1>7. CASE CloseServed(t)
  <2>1. PICK n \in ToServe(t) : poll_fds[t][n] = f
    BY <1>1, <1>2, <1>7, CloseServedServes DEF Serves
  <2>2. n # i[t]
    <3>1. Close(Fd(t))
      BY <1>7, CloseServedServes
    <3>2. f # Fd(t)
      BY <3>1, Closed
    <3> QED
      BY <2>1, <3>2 DEF Fd
  <2> QED
    BY <1>7, <2>1, <2>2, CloseServedServes DEF Serves
<1>8. CASE ReportOutOfBounds(t)
  BY <1>8 DEF ReportOutOfBounds, ProcessEnds, Lost
<1> QED
  BY <1>3, <1>4, <1>5, <1>6, <1>7, <1>8 DEF Worker

LEMMA NextKeepsServed == PlaceInv /\ NameInv /\ ServedInv /\ [Next]_vars => ServedInv'
<1> SUFFICES ASSUME PlaceInv, NameInv, ServedInv, [Next]_vars,
                    NEW u \in Workers, pc'[u] \notin Lost, NEW f \in DOMAIN table',
                    table'[f] \in handled'[u]
             PROVE  Serves(u, f)'
  BY DEF ServedInv
<1>1. ASSUME UNCHANGED <<pc, i, poll_fds, handled>>, f \in DOMAIN table, table'[f] = table[f]
      PROVE  Serves(u, f)'
  BY <1>1 DEF ServedInv, Serves, ToServe, Serving, NumConnections
<1>2. CASE Accept
  <2>1. UNCHANGED <<pc, i, poll_fds, handled>>
    BY <1>2 DEF Accept, workerVars
  <2>2. accepted \in Nat /\ accepted + 1 \notin handled[u]
    BY <1>2, Deals DEF NameInv
  <2>3. f # LowestFree
    BY <1>2, <2>1, <2>2, Opened
  <2> QED
    BY <1>1, <1>2, <2>1, <2>3, Opened
<1>3. CASE EndDealing \/ TimeLimitReached \/ AcceptFails
  BY <1>1, <1>3 DEF EndDealing, TimeLimitReached, AcceptFails, workerVars
<1>4. ASSUME NEW t \in Workers, Worker(t) PROVE Serves(u, f)'
  <2>1. Elsewhere(t)
    BY <1>4, WorkerIsLocal DEF ProcessEnds
  <2>2. CASE u = t
    BY <1>4, <2>1, <2>2, WorkerKeepsServed
  <2>3. CASE u # t
    <3>1. f \in DOMAIN table /\ table'[f] = table[f]
      BY <1>4, WorkerIsLocal, Closed
    <3>2. Serves(u, f)
      BY <2>1, <2>3, <3>1, ServedElsewhere DEF ServedInv
    <3> QED
      BY <2>1, <2>3, <3>2, ServedElsewhere
  <2> QED
    BY <2>2, <2>3
<1>5. CASE World
  BY <1>1, <1>5, WorldStays
<1> QED
  BY <1>2, <1>3, <1>4, <1>5, Steps DEF Acceptor

(***************************************************************************)
(* Until a worker enters handle_connection again, whose descriptors may be *)
(* given out to others by then, its descriptors are its own.               *)
(***************************************************************************)

Own(t) == {f \in DOMAIN table : dealt[table[f]] = t}

OwnHeld(t) ==
  /\ pc[t] \in {"wait", "enter", "fill"} =>
       /\ \A n \in 1 .. Len(Dealt(t)) : Dealt(t)[n] \in Own(t)
       /\ \A n, m \in 1 .. Len(Dealt(t)) : Dealt(t)[n] = Dealt(t)[m] => n = m
  /\ \A n \in ToServe(t) : poll_fds[t][n] \in Own(t) \cup {NoFd}
  /\ \A n, m \in ToServe(t) : poll_fds[t][n] = poll_fds[t][m] /\ poll_fds[t][n] # NoFd => n = m

OwnInv == reentered = {} => \A t \in Workers : OwnHeld(t)

(* Who does not move keeps what it holds, unless it is closed. *)
LEMMA KeepsOwn ==
  ASSUME NEW u \in Workers, OwnHeld(u), pc'[u] = pc[u], Dealt(u)' = Dealt(u),
         ToServe(u)' = ToServe(u), poll_fds'[u] = poll_fds[u],
         \A f \in Own(u) : f \in DOMAIN table' /\ dealt'[table'[f]] = u
  PROVE  OwnHeld(u)'
<1>1. \A f \in Own(u) : f \in Own(u)'
  BY DEF Own
<1> QED
  BY <1>1 DEF OwnHeld

(* What is to serve is open, and nobody else's. *)
LEMMA ClosesOwn ==
  ASSUME PlaceInv, NEW t \in Workers, OwnHeld(t), i[t] \in ToServe(t), Close(Fd(t))
  PROVE  /\ \A u \in Workers : u # t => Own(u) \subseteq DOMAIN table'
         /\ \A u \in Workers : \A f \in Own(u) : f # Fd(t) => f \in DOMAIN table'
         /\ \A f \in DOMAIN table' : table'[f] = table[f]
<1>1. Fd(t) \in Own(t) \cup {NoFd}
  BY DEF OwnHeld, Fd
<1>2. NoFd \notin DOMAIN table
  BY PollServerAssumption DEF PlaceInv, TypeOK, NoFd
<1>3. DOMAIN table' = DOMAIN table \ {Fd(t)} /\ \A f \in DOMAIN table' : table'[f] = table[f]
  BY Closed
<1>4. ASSUME NEW u \in Workers, NEW f \in Own(u)
      PROVE  /\ u # t => f # Fd(t)
             /\ f # Fd(t) => f \in DOMAIN table'
  BY <1>1, <1>2, <1>3 DEF Own
<1> QED
  BY <1>3, <1>4

LEMMA AcceptKeepsOwn ==
  ASSUME PlaceInv, NameInv, OwnInv, Accept, reentered' = {}, NEW u \in Workers PROVE OwnHeld(u)'
<1>1. /\ reentered = {} /\ UNCHANGED <<pc, i, poll_fds>> /\ OwnHeld(u)
  BY DEF Accept, workerVars, OwnInv
<1>2. ToServe(u)' = ToServe(u)
  BY <1>1 DEF ToServe, Serving, NumConnections
<1>3. ASSUME NEW f \in DOMAIN table
      PROVE  f \in DOMAIN table' /\ dealt'[table'[f]] = dealt[table[f]] /\ f # LowestFree
  <2>1. table[f] \in 1 .. accepted
    BY DEF PlaceInv, TypeOK, Connections, NameInv
  <2> QED
    BY <2>1, Deals, Opened
<1>4. CASE u # assigned_thread
  <2>1. Dealt(u)' = Dealt(u)
    BY <1>4, Deals
  <2> QED
    BY <1>1, <1>2, <1>3, <2>1, KeepsOwn DEF Own
<1>5. CASE u = assigned_thread
  <2>1. /\ Dealt(u)' = Append(Dealt(u), LowestFree) /\ Dealt(u) \in Seq(Fds) /\ LowestFree \in Fds
    BY <1>5, Deals, DealtVector, Opened
  <2>2. /\ Len(Dealt(u)) \in Nat /\ Len(Dealt(u)') = Len(Dealt(u)) + 1
        /\ \A n \in 1 .. Len(Dealt(u)) : Dealt(u)'[n] = Dealt(u)[n]
        /\ Dealt(u)'[Len(Dealt(u)) + 1] = LowestFree
    BY <2>1, DealtVector, AppendProperties
  <2>3. \A f \in Own(u) : f \in Own(u)' /\ f # LowestFree
    BY <1>3 DEF Own
  <2>4. LowestFree \in Own(u)'
    BY <1>5, Deals, Opened DEF Own
  <2>5. ASSUME pc[u] \in {"wait", "enter", "fill"}, NEW n \in 1 .. Len(Dealt(u)) + 1
        PROVE  Dealt(u)'[n] \in Own(u)'
    <3>1. CASE n = Len(Dealt(u)) + 1
      BY <2>2, <2>4, <3>1
    <3>2. CASE n \in 1 .. Len(Dealt(u))
      BY <1>1, <2>2, <2>3, <2>5, <3>2 DEF OwnHeld
    <3> QED
      BY <2>2, <3>1, <3>2
  <2>6. ASSUME pc[u] \in {"wait", "enter", "fill"}, NEW n \in 1 .. Len(Dealt(u)) + 1,
               NEW m \in 1 .. Len(Dealt(u)) + 1, Dealt(u)'[n] = Dealt(u)'[m]
        PROVE  n = m
    <3>1. \A k \in 1 .. Len(Dealt(u)) : Dealt(u)'[k] = Dealt(u)[k] /\ Dealt(u)[k] # LowestFree
      BY <1>1, <2>2, <2>3, <2>6 DEF OwnHeld
    <3>2. CASE n \in 1 .. Len(Dealt(u)) /\ m \in 1 .. Len(Dealt(u))
      BY <1>1, <2>6, <3>1, <3>2 DEF OwnHeld
    <3>3. CASE n \in 1 .. Len(Dealt(u)) /\ m = Len(Dealt(u)) + 1
      BY <2>2, <2>6, <3>1, <3>3
    <3>4. CASE m \in 1 .. Len(Dealt(u)) /\ n = Len(Dealt(u)) + 1
      BY <2>2, <2>6, <3>1, <3>4
    <3> QED
      BY <2>2, <3>2, <3>3, <3>4
  <2>7. /\ \A n \in ToServe(u) : poll_fds[u][n] \in Own(u)' \cup {NoFd}
        /\ \A n, m \in ToServe(u) : poll_fds[u][n] = poll_fds[u][m] /\ poll_fds[u][n] # NoFd => n = m
    BY <1>1, <2>3 DEF OwnHeld
  <2> QED
    BY <1>1, <1>2, <2>2, <2>5, <2>6, <2>7 DEF OwnHeld
<1> QED
  BY <1>4, <1>5

(* The worker itself. *)
LEMMA WorkerKeepsOwn ==
  ASSUME PlaceInv, NameInv, NEW t \in Workers, Worker(t), OwnHeld(t),
         AcceptorStays, Elsewhere(t), reentered = {}, reentered' = {}
  PROVE  OwnHeld(t)'
<1>1. dealt' = dealt /\ Dealt(t)' = Dealt(t)
  BY DealtStays DEF AcceptorStays
<1>2. CASE Poll(t) \/ PollFails(t) \/ Recv(t) \/ Send(t) \/ EndPass(t)
  <2>1. pc'[t] \notin Lost
    <3>1. acceptor \notin Lost /\ acceptor' = acceptor
      <4>1. pc[t] \notin Lost
        BY <1>2 DEF Poll, PollFails, MayPoll, Recv, Send, EndPass, Lost
      <4> QED
        BY <4>1 DEF PlaceInv, Dealing, AcceptorStays
    <3>2. \A label \in Lost : ~ProcessEnds(label)
      BY <3>1 DEF ProcessEnds
    <3>3. CASE Poll(t) \/ PollFails(t) \/ EndPass(t)
      BY <3>3, Types, Tested DEF Poll, PollFails, EndPass, Goto, Lost
    <3>4. CASE Recv(t) \/ Send(t)
      BY <3>2, <3>4, Types DEF Recv, Send, NextConnection, Goto, Lost
    <3> QED
      BY <1>2, <3>3, <3>4
  <2>2. /\ ToServe(t)' = ToServe(t) /\ UNCHANGED <<table, poll_fds>>
        /\ pc'[t] \notin {"wait", "enter", "fill"}
    BY <1>2, <2>1, MovesOn
  <2>3. Own(t)' = Own(t)
    BY <1>1, <2>2 DEF Own
  <2> QED
    BY <2>2, <2>3 DEF OwnHeld
<1>3. CASE AwaitConnections(t) \/ StopWorking(t) \/ Enter(t)
  <2>1. table' = table /\ pc[t] \in {"wait", "enter"} /\ pc'[t] \in {"enter", "fill", "exited"}
    BY <1>3, Types DEF AwaitConnections, StopWorking, Enter, Goto
  <2>2. ToServe(t)' = {} /\ Own(t)' = Own(t)
    BY <1>1, <2>1 DEF ToServe, Serving, Own
  <2> QED
    BY <1>1, <2>1, <2>2 DEF OwnHeld
<1>4. CASE Leave(t)
  <2>1. pc'[t] = "exited"
    <3>1. Goto(t, "exited") \/ t \in reentered'
      BY <1>4 DEF Leave
    <3> QED
      BY <3>1, Types DEF Goto
  <2>2. ToServe(t)' = {}
    BY <2>1 DEF ToServe, Serving
  <2> QED
    BY <2>1, <2>2 DEF OwnHeld
<1>5. CASE Fill(t)
  <2>1. /\ ToServe(t)' = 1 .. NumConnections(t) /\ poll_fds'[t] = Filled(t)
        /\ pc[t] = "fill" /\ pc'[t] \in {"poll", "closing"} /\ table' = table
    BY <1>5, FillServes, FillWrites, Tested
  <2>2. /\ NumConnections(t) \in Nat /\ Len(Dealt(t)) \in Nat /\ NumConnections(t) <= Len(Dealt(t))
        /\ \A n \in 1 .. NumConnections(t) : poll_fds'[t][n] = Dealt(t)[n]
    BY <2>1, FilledFromDealt, DealtVector, Polled
  <2>3. 1 .. NumConnections(t) \subseteq 1 .. Len(Dealt(t))
    BY <2>2
  <2>4. Own(t)' = Own(t)
    BY <1>1, <2>1 DEF Own
  <2> QED
    BY <2>1, <2>2, <2>3, <2>4 DEF OwnHeld
<1>6. CASE CloseFailed(t)
  <2>1. /\ ToServe(t)' = ToServe(t) /\ i[t] \in ToServe(t)
        /\ \A n \in ToServe(t) : poll_fds'[t][n] = IF n = i[t] THEN NoFd ELSE poll_fds[t][n]
        /\ Close(Fd(t)) /\ pc'[t] \notin {"wait", "enter", "fill"}
    BY <1>6, CloseFailedServes
  <2>2. ASSUME NEW f \in Own(t), f # Fd(t) PROVE f \in Own(t)'
    BY <1>1, <2>1, <2>2, ClosesOwn DEF Own
  <2>3. ASSUME NEW n \in ToServe(t) PROVE poll_fds'[t][n] \in Own(t)' \cup {NoFd}
    BY <2>1, <2>2 DEF OwnHeld, Fd
  <2>4. ASSUME NEW n \in ToServe(t), NEW m \in ToServe(t),
               poll_fds'[t][n] = poll_fds'[t][m], poll_fds'[t][n] # NoFd
        PROVE  n = m
    BY <2>1, <2>4 DEF OwnHeld
  <2> QED
    BY <2>1, <2>3, <2>4 DEF OwnHeld
<1>7. CASE CloseServed(t)
  <2>1. /\ ToServe(t)' = ToServe(t) \ {i[t]} /\ i[t] \in ToServe(t) /\ poll_fds' = poll_fds
        /\ Close(Fd(t)) /\ pc'[t] = "closing"
    BY <1>7, CloseServedServes
  <2>2. ASSUME NEW f \in Own(t), f # Fd(t) PROVE f \in Own(t)'
    BY <1>1, <2>1, <2>2, ClosesOwn DEF Own
  <2>3. ASSUME NEW n \in ToServe(t) \ {i[t]} PROVE poll_fds[t][n] \in Own(t)' \cup {NoFd}
    BY <2>1, <2>2 DEF OwnHeld, Fd
  <2> QED
    BY <2>1, <2>3 DEF OwnHeld
<1>8. CASE TornRead(t) \/ ReportOutOfBounds(t)
  <2>1. pc'[t] = "undefined"
    BY <1>8 DEF TornRead, ReportOutOfBounds, ProcessEnds
  <2>2. ToServe(t)' = {}
    BY <2>1 DEF ToServe, Serving
  <2> QED
    BY <2>1, <2>2 DEF OwnHeld
<1> QED
  BY <1>2, <1>3, <1>4, <1>5, <1>6, <1>7, <1>8 DEF Worker

LEMMA NextKeepsOwn == PlaceInv /\ NameInv /\ OwnInv /\ [Next]_vars => OwnInv'
<1> SUFFICES ASSUME PlaceInv, NameInv, OwnInv, [Next]_vars, reentered' = {}, NEW u \in Workers
             PROVE  OwnHeld(u)'
  BY DEF OwnInv
<1>1. ASSUME UNCHANGED <<table, pc, i, poll_fds, dealt, reentered>>, Dealt(u)' = Dealt(u)
      PROVE  OwnHeld(u)'
  <2>1. OwnHeld(u) /\ ToServe(u)' = ToServe(u)
    BY <1>1 DEF OwnInv, ToServe, Serving, NumConnections
  <2> QED
    BY <1>1, <2>1, KeepsOwn DEF Own
<1>2. CASE Accept
  BY <1>2, AcceptKeepsOwn
<1>3. CASE EndDealing
  BY <1>1, <1>3, EndDealingKeepsVectors DEF EndDealing, workerVars
<1>4. CASE TimeLimitReached \/ AcceptFails
  <2>1. /\ UNCHANGED <<table, pc, i, poll_fds, dealt, reentered, connection_fds, conn_fd>>
        /\ acceptor = "accept" /\ acceptor' = "exited"
    BY <1>4 DEF TimeLimitReached, AcceptFails, AcceptorStops, workerVars
  <2>2. Dealt(u)' = Dealt(u)
    BY <2>1 DEF Dealt, Growing
  <2> QED
    BY <1>1, <2>1, <2>2
<1>5. ASSUME NEW t \in Workers, Worker(t) PROVE OwnHeld(u)'
  <2>1. reentered = {}
    <3>1. reentered \subseteq reentered'
      BY <1>5 DEF Worker, AwaitConnections, StopWorking, TornRead, Enter, Fill, Poll, PollFails, Recv,
           Send, CloseFailed, EndPass, ReportOutOfBounds, CloseServed, Leave, SystemCallOnly
    <3> QED
      BY <3>1
  <2>2. OwnHeld(t) /\ OwnHeld(u)
    BY <2>1 DEF OwnInv
  <2>3. CASE Elsewhere(t) /\ AcceptorStays
    <3>1. CASE u = t
      BY <1>5, <2>1, <2>2, <2>3, <3>1, WorkerKeepsOwn
    <3>2. CASE u # t
      <4>1. /\ pc'[u] = pc[u] /\ ToServe(u)' = ToServe(u) /\ poll_fds'[u] = poll_fds[u]
            /\ Dealt(u)' = Dealt(u) /\ dealt' = dealt
        BY <2>3, <3>2, ServedElsewhere, DealtStays DEF Elsewhere, AcceptorStays
      <4>2. CASE table' = table
        BY <2>2, <4>1, <4>2, KeepsOwn DEF Own
      <4>3. CASE Close(Fd(t)) /\ i[t] \in ToServe(t)
        BY <2>2, <3>2, <4>1, <4>3, ClosesOwn, KeepsOwn DEF Own
      <4>4. table' = table \/ (Close(Fd(t)) /\ i[t] \in ToServe(t))
        <5>1. CASE CloseFailed(t)
          BY <5>1, CloseFailedServes
        <5>2. CASE CloseServed(t)
          BY <5>2, CloseServedServes
        <5> QED
          BY <1>5, <5>1, <5>2 DEF Worker, AwaitConnections, StopWorking, TornRead, Enter, Fill, Poll,
             PollFails, Recv, Send, EndPass, ReportOutOfBounds, Leave, SystemCallOnly
      <4> QED
        BY <4>2, <4>3, <4>4
    <3> QED
      BY <3>1, <3>2
  <2>4. CASE \E label \in Lost : ProcessEnds(label)
    <3>1. pc'[u] \in Lost
      BY <2>4 DEF ProcessEnds
    <3>2. ToServe(u)' = {}
      BY <3>1 DEF ToServe, Serving, Lost
    <3> QED
      BY <3>1, <3>2 DEF OwnHeld, Lost
  <2> QED
    BY <1>5, <2>3, <2>4, WorkerIsLocal
<1>6. CASE World
  BY <1>1, <1>6, WorldStays, DealtStays DEF AcceptorStays
<1> QED
  BY <1>2, <1>3, <1>4, <1>5, <1>6, Steps DEF Acceptor

(***************************************************************************)
(* The invariant and what follows from it.                                 *)
(***************************************************************************)

IInv == PlaceInv /\ NameInv /\ ServedInv /\ OwnInv

LEMMA InitIInv == Init => IInv
<1> SUFFICES ASSUME Init PROVE IInv
  OBVIOUS
<1>1. DOMAIN <<>> = {} /\ Len(<<>>) = 0
  OBVIOUS
<1>2. DOMAIN table = {} /\ accepted = 0 /\ acceptor = "accept"
  BY <1>1 DEF Init
<1>3. ASSUME NEW t \in Workers
      PROVE  /\ pc[t] = "wait" /\ handled[t] = {} /\ ToServe(t) = {} /\ Len(Dealt(t)) = 0
  <2>1. pc[t] = "wait" /\ handled[t] = {} /\ Dealt(t) = <<>>
    BY <1>2 DEF Init, Dealt, Growing
  <2> QED
    BY <1>1, <2>1 DEF ToServe, Serving
<1>4. NameInv /\ ServedInv
  BY <1>2, <1>3 DEF NameInv, ServedInv
<1>5. OwnInv
  BY <1>3 DEF OwnInv, OwnHeld
<1> QED
  BY <1>4, <1>5, InitPlace DEF IInv

(* The vectors a worker reads are prefixes of what was dealt to it, the    *)
(* dealing is round robin (server_s.cpp:76-78), what a worker has served   *)
(* and not closed is still among its descriptors.                          *)
THEOREM DealtInvariant == Spec => []IInv
<1>1. IInv /\ [Next]_vars => IInv'
  BY NextKeepsPlace, NextKeepsNames, NextKeepsServed, NextKeepsOwn DEF IInv
<1> QED
  BY <1>1, InitIInv, PTL DEF Spec

(* A worker polls only connections that were dealt to it                   *)
(* (server_s.cpp:77), as long as none enters handle_connection again, and  *)
(* no more than its report has room for (server_s.cpp:186, 219).           *)
THEOREM ServesOwnAlways == Spec => []ServesOwn
<1>1. IInv => PollsOwn
  <2> SUFFICES ASSUME IInv, reentered = {}, NEW t \in Workers, Serving(t),
                      NEW n \in 1 .. NumConnections(t), poll_fds[t][n] # NoFd
               PROVE  Open(poll_fds[t][n]) /\ dealt[table[poll_fds[t][n]]] = t
    BY DEF PollsOwn
  <2>1. n \in ToServe(t) /\ OwnHeld(t)
    BY DEF IInv, OwnInv, ToServe
  <2> QED
    BY <2>1 DEF OwnHeld, Own, Open
<1>2. IInv => ReportInBounds
  <2> SUFFICES ASSUME IInv, accepted <= ThreadCount * ConnectionsPerThread, NEW t \in Workers
               PROVE  NumConnections(t) <= ConnectionsPerThread
    BY DEF ReportInBounds
  <2>1. /\ PlaceInv /\ NumConnections(t) \in Nat /\ accepted \in Nat
        /\ ThreadCount * NumConnections(t) <= accepted - t + ThreadCount - 1
    <3>1. PlaceInv
      BY DEF IInv
    <3>2. NumConnections(t) \in Nat
      BY <3>1, Polled
    <3>3. accepted \in Nat
      BY <3>1, PollServerAssumption DEF PlaceInv, TypeOK
    <3>4. ThreadCount * NumConnections(t) <= accepted - t + ThreadCount - 1
      BY <3>1 DEF PlaceInv, Shares
    <3> QED
      BY <3>1, <3>2, <3>3, <3>4
  <2> QED
    BY <2>1, AWorker, PollServerAssumption, DealtAtMost
<1>3. IInv => ServesOwn
  BY <1>1, <1>2 DEF IInv, PlaceInv, ServesOwn
<1> QED
  BY <1>3, DealtInvariant, PTL

(* A worker that has ended has closed every connection that it polled      *)
(* (server_s.cpp:196-198).                                                *)
THEOREM NothingServedLeaksAlways == Spec => []NothingServedLeaks
<1>1. IInv => NothingServedLeaks
  <2> SUFFICES ASSUME IInv, NEW t \in Workers, pc[t] = "exited", NEW f \in DOMAIN table
               PROVE  table[f] \notin handled[t]
    BY DEF NothingServedLeaks
  <2>1. ToServe(t) = {}
    BY DEF ToServe, Serving
  <2> QED
    BY <2>1 DEF IInv, ServedInv, Serves, Lost
<1> QED
  BY <1>1, DealtInvariant, PTL
=============================================================================
