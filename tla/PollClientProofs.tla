-------------------------- MODULE PollClientProofs --------------------------
(***************************************************************************)
(* What the threads of PollClient keep to, for every number of threads,    *)
(* connections and descriptors: nothing they opened is left open, and      *)
(* they get at each other's sockets only after a loss that comes early.    *)
(*                                                                         *)
(* A thread holds the numbers it has not yet closed, in its vector or as   *)
(* the socket it is opening.  That no socket leaks holds however numbers   *)
(* are confused (HeldInv).  As long as no thread has used a socket of      *)
(* another, the numbers it holds denote its own sockets, each in one place *)
(* (OwnInv), and on none a second request is sent before the first is      *)
(* answered (LoopInv); and a number that was closed can only come back to  *)
(* life while somebody still opens sockets (StaleInv).                     *)
(***************************************************************************)
EXTENDS PollClient, CountLemmas

Indices(t) == 1 .. NumConnections(t)
InLoop(t) == pc[t] \in {"poll", "recv", "close_lost", "send", "close_broken"}
AtEntry(t) == pc[t] \in {"close_lost", "send", "close_broken"}
Opening(t) == pc[t] \in {"connect", "close_unconnected"}
Own(t) == {f \in DOMAIN table : Owner(table[f]) = t}

(* Where a thread is in its vector. *)
Placed(t) ==
  /\ Connecting(t) => NumConnections(t) < i[t]
  /\ Opening(t) => OpensMore(t) /\ fd[t] \in Fds
  /\ pc[t] = "poll" => i[t] = 1
  /\ AtEntry(t) => i[t] \in Indices(t) /\ ConnFd(t) \in {fd[t], NoFd}
  /\ InLoop(t) => Len(is_sending[t]) = NumConnections(t)

PlaceInv == TypeOK /\ \A t \in Threads : Placed(t)

(* The places of the vector whose sockets are still to be closed. *)
ToClose(t) ==
  {n \in Indices(t) : pc[t] \notin {"done", "killed"} /\ (pc[t] = "cleanup" => n >= i[t])}

Holds(t, f) ==
  (Opening(t) /\ fd[t] = f) \/ \E n \in ToClose(t) : connections[t][n] = f

HeldInv ==
  \A t \in Threads, f \in DOMAIN table :
    Owner(table[f]) = t /\ pc[t] # "killed" => Holds(t, f)

(* socket() returns a number that is free. *)
LEMMA FreeNumber ==
  Fds \ DOMAIN table # {} => LowestFree \in Fds \ DOMAIN table
<1> SUFFICES ASSUME Fds \ DOMAIN table # {} PROVE LowestFree \in Fds \ DOMAIN table
  OBVIOUS
<1>1. Fds \ DOMAIN table \in SUBSET Nat
  BY PollClientAssumption
<1>2. PICK f \in Fds \ DOMAIN table : \A g \in Fds \ DOMAIN table : f <= g
  BY <1>1, SmallestOf
<1> QED
  BY <1>2 DEF LowestFree

(* The table after a socket() and after a close(). *)
LEMMA Opened ==
  ASSUME PlaceInv, NEW t \in Threads, pc[t] = "socket", OpensMore(t), Fds \ DOMAIN table # {},
         table' = [f \in DOMAIN table \cup {LowestFree} |->
                     IF f = LowestFree THEN <<t, i[t]>> ELSE table[f]]
  PROVE  /\ LowestFree \in Fds /\ LowestFree \notin DOMAIN table
         /\ DOMAIN table' = DOMAIN table \cup {LowestFree}
         /\ table'[LowestFree] = <<t, i[t]>>
         /\ \A f \in DOMAIN table : table'[f] = table[f]
         /\ DOMAIN table' \subseteq Fds /\ \A f \in DOMAIN table' : table'[f] \in Sockets
<1>1. LowestFree \in Fds /\ LowestFree \notin DOMAIN table
  BY FreeNumber
<1>2. <<t, i[t]>> \in Sockets
  BY PollClientAssumption DEF PlaceInv, TypeOK, OpensMore, Sockets
<1> QED
  BY <1>1, <1>2 DEF PlaceInv, TypeOK

LEMMA Closed ==
  ASSUME PlaceInv, NEW t, NEW f, Close(t, f)
  PROVE  /\ DOMAIN table' = DOMAIN table \ {f}
         /\ \A g \in DOMAIN table' : table'[g] = table[g]
         /\ DOMAIN table' \subseteq Fds /\ \A g \in DOMAIN table' : table'[g] \in Sockets
BY DEF Close, PlaceInv, TypeOK

(* The steps of a thread keep the types and its place. *)
LEMMA InitPlace == Init => PlaceInv
<1> SUFFICES ASSUME Init PROVE PlaceInv
  OBVIOUS
<1>1. /\ <<>> \in Seq(Fds \cup {NoFd}) /\ <<>> \in Seq(SUBSET {"in", "out"}) /\ <<>> \in Seq(BOOLEAN)
      /\ Len(<<>>) = 0 /\ DOMAIN <<>> = {}
  OBVIOUS
<1>2. /\ DOMAIN table = {}
      /\ \A t \in Threads : Len(connections[t]) = 0 /\ pc[t] = "socket" /\ i[t] = 1
  BY <1>1 DEF Init
<1>3. TypeOK
  <2>1. /\ connected \subseteq Sockets /\ lost \subseteq connected /\ expired \in BOOLEAN
        /\ foreign \in BOOLEAN /\ earlyLoss \in BOOLEAN
    BY DEF Init
  <2>2. passes \in [Threads -> Nat] /\ unanswered \in [Sockets -> Nat]
    BY DEF Init
  <2>3. i \in [Threads -> Nat \ {0}] /\ fd \in [Threads -> Fds \cup {NoFd}]
    BY DEF Init
  <2>4. /\ connections \in [Threads -> Seq(Fds \cup {NoFd})]
        /\ revents \in [Threads -> Seq(SUBSET {"in", "out"})]
        /\ is_sending \in [Threads -> Seq(BOOLEAN)]
    <3>1. ASSUME NEW S, <<>> \in Seq(S) PROVE [t \in Threads |-> <<>>] \in [Threads -> Seq(S)]
      BY <3>1
    <3> QED
      BY <1>1, <3>1 DEF Init
  <2>5. ASSUME NEW t \in Threads PROVE Len(connections[t]) <= ConnectionsPerThread
    BY <1>2, PollClientAssumption
  <2>6. pc \in [Threads -> {"socket", "connect", "close_unconnected", "poll", "recv",
                           "close_lost", "send", "close_broken", "cleanup", "done", "killed"}]
    BY DEF Init
  <2> QED
    BY <1>2, <2>1, <2>2, <2>3, <2>4, <2>5, <2>6 DEF TypeOK
<1>4. ASSUME NEW t \in Threads PROVE Placed(t)
  <2>1. Len(connections[t]) = 0 /\ pc[t] = "socket" /\ i[t] = 1
    BY <1>2
  <2> QED
    BY <2>1 DEF Placed, Connecting, Opening, AtEntry, InLoop, NumConnections
<1> QED
  BY <1>3, <1>4 DEF PlaceInv

LEMMA SocketKeepsPlace ==
  ASSUME PlaceInv, NEW t \in Threads, Socket(t) PROVE PlaceInv'
<1>1. UNCHANGED <<connected, lost, expired, connections, revents, is_sending, passes,
                  unanswered, foreign, earlyLoss>>
  BY DEF Socket, netVars, historyVars
<1>2. CASE /\ Fds \ DOMAIN table # {}
           /\ fd' = [fd EXCEPT ![t] = LowestFree]
           /\ table' = [f \in DOMAIN table \cup {LowestFree} |->
                          IF f = LowestFree THEN <<t, i[t]>> ELSE table[f]]
           /\ Goto(t, "connect") /\ UNCHANGED i
  <2>1. /\ LowestFree \in Fds
        /\ DOMAIN table' \subseteq Fds /\ \A f \in DOMAIN table' : table'[f] \in Sockets
    BY <1>2, Opened DEF Socket
  <2>2. /\ fd' \in [Threads -> Fds \cup {NoFd}]
        /\ pc' \in [Threads -> {"socket", "connect", "close_unconnected", "poll", "recv",
                         "close_lost", "send", "close_broken", "cleanup", "done", "killed"}]
    BY <1>2, <2>1 DEF PlaceInv, TypeOK, Goto
  <2>3. TypeOK'
    BY <1>1, <1>2, <2>1, <2>2 DEF PlaceInv, TypeOK
  <2>4. ASSUME NEW u \in Threads PROVE Placed(u)'
    BY <1>1, <1>2, <2>1 DEF Socket, Goto, PlaceInv, TypeOK, Placed, Connecting, Opening, AtEntry,
       InLoop, NumConnections, ConnFd, OpensMore, Indices
  <2> QED
    BY <2>3, <2>4 DEF PlaceInv
<1>3. CASE Advance(t) /\ UNCHANGED <<fd, table, pc>>
  <2>1. i' \in [Threads -> Nat \ {0}]
    BY <1>3 DEF PlaceInv, TypeOK, Advance
  <2>2. TypeOK'
    BY <1>1, <1>3, <2>1 DEF PlaceInv, TypeOK
  <2>3. ASSUME NEW u \in Threads PROVE Placed(u)'
    BY <1>1, <1>3 DEF Socket, Advance, PlaceInv, TypeOK, Placed, Connecting, Opening, AtEntry,
       InLoop, NumConnections, ConnFd, OpensMore, Indices
  <2> QED
    BY <2>2, <2>3 DEF PlaceInv
<1> QED
  BY <1>2, <1>3 DEF Socket

LEMMA ConnectKeepsPlace ==
  ASSUME PlaceInv, NEW t \in Threads, Connect(t) PROVE PlaceInv'
<1>1. UNCHANGED <<table, lost, expired, fd, revents, is_sending, passes, unanswered, earlyLoss>>
  BY DEF Connect
<1>2. foreign' \in BOOLEAN
  BY DEF Connect, Uses
<1>3. pc[t] = "connect" /\ fd[t] \in Fds /\ OpensMore(t) /\ NumConnections(t) < i[t]
  BY DEF PlaceInv, Placed, Connect, Opening, Connecting
<1>4. CASE /\ Connectable(fd[t])
           /\ connected' = connected \cup {table[fd[t]]}
           /\ connections' = [connections EXCEPT ![t] = Append(@, fd[t])]
           /\ Advance(t) /\ Goto(t, "socket")
  <2> DEFINE s == Append(connections[t], fd[t])
  <2>1. connections[t] \in Seq(Fds \cup {NoFd})
    BY DEF PlaceInv, TypeOK
  <2>2. s \in Seq(Fds \cup {NoFd}) /\ Len(s) = Len(connections[t]) + 1
    BY <1>3, <2>1, AppendProperties
  <2>3. connections' = [connections EXCEPT ![t] = s]
    BY <1>4
  <2> HIDE DEF s
  <2>4. /\ connections' \in [Threads -> Seq(Fds \cup {NoFd})]
        /\ \A u \in Threads : Len(connections'[u]) <= ConnectionsPerThread
    <3>1. connections' \in [Threads -> Seq(Fds \cup {NoFd})]
      BY <2>2, <2>3 DEF PlaceInv, TypeOK
    <3>2. Len(connections[t]) \in Nat
      BY <2>1, LenProperties
    <3>3. Len(connections'[t]) <= ConnectionsPerThread
      BY <1>3, <2>2, <2>3, <3>2, PollClientAssumption DEF PlaceInv, TypeOK, OpensMore, NumConnections
    <3>4. \A u \in Threads : u # t => Len(connections'[u]) <= ConnectionsPerThread
      BY <2>3 DEF PlaceInv, TypeOK
    <3> QED
      BY <3>1, <3>3, <3>4
  <2>5. connected' \subseteq Sockets /\ lost \subseteq connected'
    BY <1>4 DEF PlaceInv, TypeOK, Connectable, Open
  <2>6. /\ i' \in [Threads -> Nat \ {0}]
        /\ pc' \in [Threads -> {"socket", "connect", "close_unconnected", "poll", "recv",
                         "close_lost", "send", "close_broken", "cleanup", "done", "killed"}]
    BY <1>4 DEF PlaceInv, TypeOK, Advance, Goto
  <2>7. TypeOK'
    BY <1>1, <1>2, <2>4, <2>5, <2>6 DEF PlaceInv, TypeOK
  <2>8. ASSUME NEW u \in Threads PROVE Placed(u)'
    <3>1. CASE u = t
      BY <1>1, <1>3, <1>4, <2>1, <2>2, <2>3, <3>1
      DEF PlaceInv, TypeOK, Advance, Goto, Placed, Connecting, Opening, AtEntry, InLoop, NumConnections
    <3>2. CASE u # t
      BY <1>1, <1>4, <2>3, <3>2
      DEF PlaceInv, TypeOK, Advance, Goto, Placed, Connecting, Opening, AtEntry, InLoop, NumConnections,
          ConnFd, OpensMore, Indices
    <3> QED
      BY <3>1, <3>2
  <2> QED
    BY <2>7, <2>8 DEF PlaceInv
<1>5. CASE Goto(t, "close_unconnected") /\ UNCHANGED <<i, connected, connections>>
  <2>1. TypeOK'
    BY <1>1, <1>2, <1>5 DEF PlaceInv, TypeOK, Goto
  <2>2. ASSUME NEW u \in Threads PROVE Placed(u)'
    BY <1>1, <1>3, <1>5
    DEF PlaceInv, TypeOK, Goto, Placed, Connecting, Opening, AtEntry, InLoop, NumConnections,
        ConnFd, OpensMore, Indices
  <2> QED
    BY <2>1, <2>2 DEF PlaceInv
<1> QED
  BY <1>4, <1>5 DEF Connect

(* Writing a label, a loop variable, a flag. *)
Labels == {"socket", "connect", "close_unconnected", "poll", "recv", "close_lost", "send",
           "close_broken", "cleanup", "done", "killed"}

LEMMA Went ==
  ASSUME PlaceInv, NEW t \in Threads, NEW label \in Labels, Goto(t, label)
  PROVE  pc' \in [Threads -> Labels]
BY DEF PlaceInv, TypeOK, Goto, Labels

LEMMA Advanced ==
  ASSUME PlaceInv, NEW t \in Threads, Advance(t)
  PROVE  i' \in [Threads -> Nat \ {0}]
BY DEF PlaceInv, TypeOK, Advance

LEMMA SendingSet ==
  ASSUME PlaceInv, NEW t \in Threads, NEW b \in BOOLEAN, SetSending(t, b),
         i[t] \in 1 .. Len(is_sending[t])
  PROVE  /\ is_sending' \in [Threads -> Seq(BOOLEAN)]
         /\ \A u \in Threads : Len(is_sending'[u]) = Len(is_sending[u])
         /\ \A u \in Threads : u # t => is_sending'[u] = is_sending[u]
         /\ \A n \in 1 .. Len(is_sending[t]) :
              is_sending'[t][n] = IF n = i[t] THEN b ELSE is_sending[t][n]
<1>1. is_sending \in [Threads -> Seq(BOOLEAN)]
  BY DEF PlaceInv, TypeOK
<1> QED
  BY <1>1, EntryWritten DEF SetSending

LEMMA ConstantSeq ==
  ASSUME NEW S, NEW n \in Nat, NEW x \in S
  PROVE  [m \in 1 .. n |-> x] \in Seq(S) /\ Len([m \in 1 .. n |-> x]) = n
OBVIOUS

(* The steps at the beginning and the end. *)
LEMMA CloseUnconnectedKeepsPlace ==
  ASSUME PlaceInv, NEW t \in Threads, CloseUnconnected(t) PROVE PlaceInv'
<1>1. UNCHANGED <<connected, lost, expired, fd, connections, revents, is_sending, passes,
                  unanswered, earlyLoss>>
  BY DEF CloseUnconnected, netVars
<1>2. /\ foreign' \in BOOLEAN
      /\ DOMAIN table' \subseteq Fds /\ \A g \in DOMAIN table' : table'[g] \in Sockets
  BY Closed DEF CloseUnconnected, Close, Uses
<1>3. TypeOK'
  <2>1. i' \in [Threads -> Nat \ {0}] /\ pc' \in [Threads -> Labels]
    BY Advanced, Went DEF CloseUnconnected, Labels
  <2> QED
    BY <1>1, <1>2, <2>1 DEF PlaceInv, TypeOK, Labels
<1>4. ASSUME NEW u \in Threads PROVE Placed(u)'
  BY <1>1
  DEF CloseUnconnected, PlaceInv, TypeOK, Advance, Goto, Placed, Connecting, Opening, AtEntry, InLoop, NumConnections,
        ConnFd, OpensMore, Indices
<1> QED
  BY <1>3, <1>4 DEF PlaceInv

LEMMA SetupKeepsPlace ==
  ASSUME PlaceInv, NEW t \in Threads, Setup(t) PROVE PlaceInv'
<1>1. UNCHANGED <<connected, lost, expired, table, connections, revents, passes, unanswered,
                  foreign, earlyLoss>>
  BY DEF Setup, netVars, historyVars
<1> DEFINE s == [n \in 1 .. NumConnections(t) |-> TRUE]
<1>2. NumConnections(t) \in Nat /\ is_sending' = [is_sending EXCEPT ![t] = s]
  BY LenProperties DEF Setup, NumConnections, PlaceInv, TypeOK
<1>3. s \in Seq(BOOLEAN) /\ Len(s) = NumConnections(t)
  BY <1>2, ConstantSeq
<1> HIDE DEF s
<1>4. is_sending' \in [Threads -> Seq(BOOLEAN)]
  BY <1>2, <1>3 DEF PlaceInv, TypeOK
<1>5. /\ i' = [i EXCEPT ![t] = 1] /\ fd' = [fd EXCEPT ![t] = NoFd]
      /\ Goto(t, "cleanup") \/ Goto(t, "poll")
  BY DEF Setup, TestTime
<1>0. i' \in [Threads -> Nat \ {0}] /\ fd' \in [Threads -> Fds \cup {NoFd}]
  BY <1>5 DEF PlaceInv, TypeOK
<1>6. TypeOK'
  <2>1. pc' \in [Threads -> Labels]
    BY <1>5, Went DEF Labels
  <2> QED
    BY <1>0, <1>1, <1>4, <2>1 DEF PlaceInv, TypeOK, Labels
<1>7. ASSUME NEW u \in Threads PROVE Placed(u)'
  BY <1>1, <1>2, <1>3, <1>5
  DEF PlaceInv, TypeOK, Goto, Placed, Connecting, Opening, AtEntry, InLoop, NumConnections,
        ConnFd, OpensMore, Indices
<1> QED
  BY <1>6, <1>7 DEF PlaceInv

LEMMA PollKeepsPlace ==
  ASSUME PlaceInv, NEW t \in Threads, Poll(t) PROVE PlaceInv'
<1>1. UNCHANGED <<connected, lost, expired, table, i, fd, connections, is_sending, unanswered,
                  foreign, earlyLoss>>
  BY DEF Poll, netVars, historyVars
<1>2. PICK r \in Reported(t) : revents' = [revents EXCEPT ![t] = r]
  BY DEF Poll
<1>3. NumConnections(t) \in Nat
  BY LenProperties DEF NumConnections, PlaceInv, TypeOK
<1>4. r \in Seq(SUBSET {"in", "out"})
  BY <1>2, <1>3 DEF Reported
<1>5. TypeOK'
  <2>1. pc' \in [Threads -> Labels]
    BY Went DEF Poll, Labels
  <2>2. passes' \in [Threads -> Nat]
    BY DEF Poll, PlaceInv, TypeOK
  <2>3. revents' \in [Threads -> Seq(SUBSET {"in", "out"})]
    BY <1>2, <1>4 DEF PlaceInv, TypeOK
  <2> QED
    BY <1>1, <2>1, <2>2, <2>3 DEF PlaceInv, TypeOK, Labels
<1>6. ASSUME NEW u \in Threads PROVE Placed(u)'
  BY <1>1
  DEF Poll, PlaceInv, TypeOK, Goto, Placed, Connecting, Opening, AtEntry, InLoop, NumConnections,
        ConnFd, OpensMore, Indices
<1> QED
  BY <1>5, <1>6 DEF PlaceInv

LEMMA PollFailsKeepsPlace ==
  ASSUME PlaceInv, NEW t \in Threads, PollFails(t) PROVE PlaceInv'
<1>1. UNCHANGED <<connected, lost, expired, table, i, fd, connections, revents, is_sending, passes,
                  unanswered, foreign, earlyLoss>>
  BY DEF PollFails, netVars, localVars, historyVars
<1>2. TypeOK'
  BY <1>1 DEF PlaceInv, TypeOK, Goto, PollFails
<1>3. ASSUME NEW u \in Threads PROVE Placed(u)'
  BY <1>1
  DEF PollFails, PlaceInv, TypeOK, Goto, Placed, Connecting, Opening, AtEntry, InLoop, NumConnections,
        ConnFd, OpensMore, Indices
<1> QED
  BY <1>2, <1>3 DEF PlaceInv

LEMMA EndPassKeepsPlace ==
  ASSUME PlaceInv, NEW t \in Threads, EndPass(t) PROVE PlaceInv'
<1>1. UNCHANGED <<connected, lost, expired, table, connections, is_sending, passes,
                  unanswered, foreign, earlyLoss>>
  BY DEF EndPass, netVars, historyVars
<1>2. Goto(t, "cleanup") \/ Goto(t, "poll")
  BY DEF EndPass, TestTime
<1>3. revents' \in [Threads -> Seq(SUBSET {"in", "out"})]
  BY EmptySeq DEF EndPass, PlaceInv, TypeOK
<1>4. TypeOK'
  <2>1. pc' \in [Threads -> Labels]
    BY <1>2, Went DEF Labels
  <2>2. i' \in [Threads -> Nat \ {0}] /\ fd' \in [Threads -> Fds \cup {NoFd}]
    BY DEF EndPass, PlaceInv, TypeOK
  <2> QED
    BY <1>1, <1>3, <2>1, <2>2 DEF PlaceInv, TypeOK, Labels
<1>5. ASSUME NEW u \in Threads PROVE Placed(u)'
  BY <1>1, <1>2
  DEF EndPass, PlaceInv, TypeOK, Goto, Placed, Connecting, Opening, AtEntry, InLoop, NumConnections,
        ConnFd, OpensMore, Indices
<1> QED
  BY <1>4, <1>5 DEF PlaceInv

(* A thread at a connection of its pass. *)
LEMMA RecvKeepsPlace ==
  ASSUME PlaceInv, NEW t \in Threads, Recv(t) PROVE PlaceInv'
<1>1. UNCHANGED <<connected, lost, expired, table, i, connections, revents, passes, earlyLoss>>
  BY DEF Recv, netVars
<1>2. /\ i[t] \in Indices(t) /\ pc[t] = "recv" /\ fd' = [fd EXCEPT ![t] = ConnFd(t)]
      /\ Goto(t, "send") \/ Goto(t, "close_lost")
      /\ UNCHANGED is_sending \/ SetSending(t, TRUE)
  <2>1. i[t] \in Indices(t)
    <3>1. connections[t] \in Seq(Fds \cup {NoFd}) /\ i[t] \in Nat \ {0}
      BY DEF PlaceInv, TypeOK
    <3>2. Len(connections[t]) \in Nat
      BY <3>1, LenProperties
    <3> QED
      BY <3>1, <3>2 DEF Recv, Indices, NumConnections
  <2> QED
    BY <2>1 DEF Recv
<1>3. ConnFd(t) \in Fds \cup {NoFd}
  <2>1. connections[t] \in Seq(Fds \cup {NoFd})
    BY DEF PlaceInv, TypeOK
  <2> QED
    BY <1>2, <2>1, ElementOfSeq DEF Indices, NumConnections, ConnFd
<1>4. foreign' \in BOOLEAN
  BY DEF Recv, Uses, PlaceInv, TypeOK
<1>5. /\ is_sending' \in [Threads -> Seq(BOOLEAN)]
      /\ \A u \in Threads : Len(is_sending'[u]) = Len(is_sending[u])
  <2>1. i[t] \in 1 .. Len(is_sending[t]) /\ is_sending \in [Threads -> Seq(BOOLEAN)]
    BY <1>2 DEF PlaceInv, TypeOK, Placed, InLoop, Indices
  <2>2. CASE SetSending(t, TRUE)
    BY <2>1, <2>2, SendingSet
  <2> QED
    BY <1>2, <2>1, <2>2
<1>6. unanswered' \in [Sockets -> Nat]
  <2>1. \/ UNCHANGED unanswered
        \/ unanswered' = [unanswered EXCEPT ![table[ConnFd(t)]] = 0]
    BY DEF Recv
  <2> QED
    BY <2>1 DEF PlaceInv, TypeOK
<1>7. TypeOK'
  <2>1. pc' \in [Threads -> Labels]
    BY <1>2, Went DEF Labels
  <2>2. fd' \in [Threads -> Fds \cup {NoFd}]
    BY <1>2, <1>3 DEF PlaceInv, TypeOK
  <2> QED
    BY <1>1, <1>4, <1>5, <1>6, <2>1, <2>2 DEF PlaceInv, TypeOK, Labels
<1>8. ASSUME NEW u \in Threads PROVE Placed(u)'
  <2>1. CASE u = t
    BY <1>1, <1>2, <1>5, <2>1
    DEF PlaceInv, TypeOK, Goto, Placed, Connecting, Opening, AtEntry, InLoop, NumConnections,
        ConnFd, OpensMore, Indices
  <2>2. CASE u # t
    <3>1. pc'[u] = pc[u] /\ fd'[u] = fd[u]
      BY <1>2, <2>2 DEF PlaceInv, TypeOK, Goto
    <3> QED
      BY <1>1, <1>5, <3>1
      DEF PlaceInv, Placed, Connecting, Opening, AtEntry, InLoop, NumConnections, ConnFd, OpensMore, Indices
  <2> QED
    BY <2>1, <2>2
<1> QED
  BY <1>7, <1>8 DEF PlaceInv

LEMMA SendKeepsPlace ==
  ASSUME PlaceInv, NEW t \in Threads, Send(t) PROVE PlaceInv'
<1>1. UNCHANGED <<connected, lost, expired, table, fd, connections, revents, passes, earlyLoss>>
  BY DEF Send, netVars
<1>2. i[t] \in Indices(t) /\ pc[t] = "send"
  BY DEF Send, PlaceInv, Placed, AtEntry
<1>3. \/ NextConnection(t)
      \/ Goto(t, "close_broken") /\ UNCHANGED i
      \/ pc' = [u \in Threads |-> "killed"] /\ UNCHANGED i
  BY DEF Send
<1>4. UNCHANGED is_sending \/ SetSending(t, FALSE)
  BY DEF Send, AwaitPage
<1>5. /\ is_sending' \in [Threads -> Seq(BOOLEAN)]
      /\ \A u \in Threads : Len(is_sending'[u]) = Len(is_sending[u])
  <2>1. i[t] \in 1 .. Len(is_sending[t]) /\ is_sending \in [Threads -> Seq(BOOLEAN)]
    BY <1>2 DEF PlaceInv, TypeOK, Placed, InLoop, Indices
  <2>2. CASE SetSending(t, FALSE)
    BY <2>1, <2>2, SendingSet
  <2> QED
    BY <1>4, <2>1, <2>2
<1>6. unanswered' \in [Sockets -> Nat]
  BY DEF Send, PlaceInv, TypeOK
<1>7. foreign' \in BOOLEAN
  BY DEF Send, Uses, PlaceInv, TypeOK
<1>8. i' \in [Threads -> Nat \ {0}] /\ pc' \in [Threads -> Labels]
  <2>1. CASE NextConnection(t)
    BY <2>1, Advanced, Went DEF NextConnection, Labels
  <2>2. CASE Goto(t, "close_broken") /\ UNCHANGED i
    BY <2>2, Went DEF Labels, PlaceInv, TypeOK
  <2>3. CASE pc' = [u \in Threads |-> "killed"] /\ UNCHANGED i
    BY <2>3 DEF Labels, PlaceInv, TypeOK
  <2> QED
    BY <1>3, <2>1, <2>2, <2>3
<1>9. TypeOK'
  BY <1>1, <1>5, <1>6, <1>7, <1>8 DEF PlaceInv, TypeOK, Labels
<1>10. ASSUME NEW u \in Threads PROVE Placed(u)'
  <2>1. CASE u = t
    BY <1>1, <1>2, <1>3, <1>5, <2>1
    DEF PlaceInv, TypeOK, Goto, NextConnection, Advance, Placed, Connecting, Opening, AtEntry, InLoop,
        NumConnections, ConnFd, OpensMore, Indices
  <2>2. CASE u # t
    <3>1. pc'[u] = "killed" \/ (pc'[u] = pc[u] /\ i'[u] = i[u])
      BY <1>3, <2>2 DEF PlaceInv, TypeOK, Goto, NextConnection, Advance
    <3> QED
      BY <1>1, <1>5, <3>1
      DEF PlaceInv, Placed, Connecting, Opening, AtEntry, InLoop, NumConnections, ConnFd, OpensMore, Indices
  <2> QED
    BY <2>1, <2>2
<1> QED
  BY <1>9, <1>10 DEF PlaceInv

(* The descriptor of the connection is closed and forgotten. *)
LEMMA Forgotten ==
  ASSUME PlaceInv, NEW t \in Threads, i[t] \in Indices(t), Forget(t)
  PROVE  /\ connections' \in [Threads -> Seq(Fds \cup {NoFd})]
         /\ \A u \in Threads : NumConnections(u)' = NumConnections(u)
         /\ \A u \in Threads : u # t => connections'[u] = connections[u]
         /\ \A n \in Indices(t) :
              connections'[t][n] = IF n = i[t] THEN NoFd ELSE connections[t][n]
<1>1. connections \in [Threads -> Seq(Fds \cup {NoFd})] /\ i[t] \in 1 .. Len(connections[t])
  BY DEF PlaceInv, TypeOK, Indices, NumConnections
<1> QED
  BY <1>1, EntryWritten DEF Forget, Indices, NumConnections

LEMMA CloseEntryKeepsPlace ==
  ASSUME PlaceInv, NEW t \in Threads, CloseLost(t) \/ CloseBroken(t) PROVE PlaceInv'
<1>1. /\ UNCHANGED <<connected, lost, expired, fd, revents, is_sending, passes, unanswered>>
      /\ earlyLoss' \in BOOLEAN
      /\ \/ pc[t] = "close_lost" /\ Goto(t, "send") /\ UNCHANGED i
         \/ pc[t] = "close_broken" /\ NextConnection(t)
      /\ Close(t, fd[t]) /\ Forget(t)
  BY DEF CloseLost, CloseBroken, CloseAndForget, netVars, PlaceInv, TypeOK
<1>2. i[t] \in Indices(t)
  BY <1>1 DEF PlaceInv, Placed, AtEntry
<1>3. /\ connections' \in [Threads -> Seq(Fds \cup {NoFd})]
      /\ \A u \in Threads : Len(connections'[u]) = Len(connections[u])
      /\ \A u \in Threads : u # t => connections'[u] = connections[u]
      /\ connections'[t][i[t]] = NoFd
  BY <1>1, <1>2, Forgotten DEF NumConnections
<1>4. /\ foreign' \in BOOLEAN
      /\ DOMAIN table' \subseteq Fds /\ \A g \in DOMAIN table' : table'[g] \in Sockets
  BY <1>1, Closed DEF Close, Uses
<1>5. i' \in [Threads -> Nat \ {0}] /\ pc' \in [Threads -> Labels]
  <2>1. CASE NextConnection(t)
    BY <2>1, Advanced, Went DEF NextConnection, Labels
  <2>2. CASE Goto(t, "send") /\ UNCHANGED i
    BY <2>2, Went DEF Labels, PlaceInv, TypeOK
  <2> QED
    BY <1>1, <2>1, <2>2
<1>6. TypeOK'
  BY <1>1, <1>3, <1>4, <1>5 DEF PlaceInv, TypeOK, Labels
<1>7. ASSUME NEW u \in Threads PROVE Placed(u)'
  <2>1. CASE u = t
    BY <1>1, <1>2, <1>3, <2>1
    DEF PlaceInv, TypeOK, Goto, NextConnection, Advance, Placed, Connecting, Opening, AtEntry, InLoop,
        NumConnections, ConnFd, OpensMore, Indices
  <2>2. CASE u # t
    <3>1. pc'[u] = pc[u] /\ i'[u] = i[u]
      BY <1>1, <2>2 DEF PlaceInv, TypeOK, Goto, NextConnection, Advance
    <3> QED
      BY <1>1, <1>3, <2>2, <3>1
      DEF PlaceInv, Placed, Connecting, Opening, AtEntry, InLoop, NumConnections, ConnFd, OpensMore, Indices
  <2> QED
    BY <2>1, <2>2
<1> QED
  BY <1>6, <1>7 DEF PlaceInv

LEMMA CleanupKeepsPlace ==
  ASSUME PlaceInv, NEW t \in Threads, Cleanup(t) PROVE PlaceInv'
<1>1. /\ UNCHANGED <<connected, lost, expired, fd, connections, revents, is_sending, passes,
                     unanswered, earlyLoss>>
      /\ pc[t] = "cleanup"
      /\ \/ Goto(t, "done") /\ UNCHANGED <<table, i, foreign>>
         \/ Close(t, connections[t][i[t]]) /\ Advance(t) /\ UNCHANGED pc
  BY DEF Cleanup, netVars
<1>2. /\ foreign' \in BOOLEAN
      /\ DOMAIN table' \subseteq Fds /\ \A g \in DOMAIN table' : table'[g] \in Sockets
  BY <1>1, Closed DEF Close, Uses, PlaceInv, TypeOK
<1>3. TypeOK'
  <2>1. CASE Goto(t, "done") /\ UNCHANGED i
    <3>1. pc' \in [Threads -> Labels]
      BY <2>1, Went DEF Labels
    <3> QED
      BY <1>1, <1>2, <2>1, <3>1 DEF PlaceInv, TypeOK, Labels
  <2>2. CASE Advance(t) /\ UNCHANGED pc
    <3>1. i' \in [Threads -> Nat \ {0}]
      BY <2>2, Advanced
    <3> QED
      BY <1>1, <1>2, <2>2, <3>1 DEF PlaceInv, TypeOK
  <2> QED
    BY <1>1, <2>1, <2>2
<1>4. ASSUME NEW u \in Threads PROVE Placed(u)'
  BY <1>1
  DEF PlaceInv, TypeOK, Goto, Advance, Placed, Connecting, Opening, AtEntry, InLoop, NumConnections,
        ConnFd, OpensMore, Indices
<1> QED
  BY <1>3, <1>4 DEF PlaceInv

LEMMA WorldKeepsPlace ==
  ASSUME PlaceInv, ServerCloses \/ Tick \/ UNCHANGED vars PROVE PlaceInv'
<1>1. UNCHANGED <<connected, table, pc, i, fd, connections, revents, is_sending, passes,
                  unanswered, foreign, earlyLoss>>
  BY DEF ServerCloses, Tick, localVars, historyVars, vars
<1>2. lost' \subseteq connected /\ expired' \in BOOLEAN
  BY DEF ServerCloses, Tick, vars, PlaceInv, TypeOK
<1>3. TypeOK'
  BY <1>1, <1>2 DEF PlaceInv, TypeOK
<1>4. ASSUME NEW u \in Threads PROVE Placed(u)'
  BY <1>1 DEF PlaceInv, Placed, Connecting, Opening, AtEntry, InLoop, NumConnections,
        ConnFd, OpensMore, Indices
<1> QED
  BY <1>3, <1>4 DEF PlaceInv

LEMMA NextKeepsPlace == PlaceInv /\ [Next]_vars => PlaceInv'
<1> SUFFICES ASSUME PlaceInv, [Next]_vars PROVE PlaceInv'
  OBVIOUS
<1>1. ASSUME NEW t \in Threads, Thread(t) \/ PollFails(t) PROVE PlaceInv'
  BY <1>1, SocketKeepsPlace, ConnectKeepsPlace, CloseUnconnectedKeepsPlace, SetupKeepsPlace,
     PollKeepsPlace, PollFailsKeepsPlace, EndPassKeepsPlace, RecvKeepsPlace, SendKeepsPlace,
     CloseEntryKeepsPlace, CleanupKeepsPlace
  DEF Thread
<1> QED
  BY <1>1, WorldKeepsPlace DEF Next, Terminated

(***************************************************************************)
(* What a thread holds.                                                    *)
(***************************************************************************)

(* A step of one thread leaves the others where they are, or kills all.    *)
Elsewhere(t) ==
  \A u \in Threads \ {t} :
    /\ pc'[u] = pc[u] /\ i'[u] = i[u] /\ fd'[u] = fd[u]
    /\ connections'[u] = connections[u] /\ is_sending'[u] = is_sending[u]

Killed == pc' = [u \in Threads |-> "killed"]

LEMMA StepIsLocal ==
  ASSUME PlaceInv, NEW t \in Threads, Thread(t) \/ PollFails(t)
  PROVE  Elsewhere(t) \/ (Killed /\ Send(t))
<1> USE DEF PlaceInv, TypeOK, Elsewhere, Goto, Advance
<1>1. CASE Socket(t) \/ Connect(t) \/ CloseUnconnected(t)
  BY <1>1 DEF Socket, Connect, CloseUnconnected
<1>2. CASE Setup(t) \/ Poll(t) \/ PollFails(t) \/ EndPass(t)
  BY <1>2 DEF Setup, Poll, PollFails, EndPass, TestTime, localVars
<1>3. CASE Recv(t)
  BY <1>3 DEF Recv, SetSending
<1>4. CASE CloseLost(t) \/ CloseBroken(t)
  BY <1>4 DEF CloseLost, CloseBroken, CloseAndForget, Forget, NextConnection
<1>5. CASE Send(t)
  <2>1. \/ Advance(t) /\ Goto(t, "recv")
        \/ Goto(t, "close_broken") /\ UNCHANGED i
        \/ Killed
    BY <1>5 DEF Send, NextConnection, Killed
  <2>2. UNCHANGED <<fd, connections>> /\ (UNCHANGED is_sending \/ SetSending(t, FALSE))
    BY <1>5 DEF Send, AwaitPage
  <2>3. \A u \in Threads \ {t} : is_sending'[u] = is_sending[u]
    BY <2>2 DEF SetSending
  <2> QED
    BY <1>5, <2>1, <2>2, <2>3
<1>6. CASE Cleanup(t)
  BY <1>6 DEF Cleanup
<1> QED
  BY <1>1, <1>2, <1>3, <1>4, <1>5, <1>6 DEF Thread

LEMMA HoldsElsewhere ==
  ASSUME PlaceInv, NEW t \in Threads, Elsewhere(t), NEW u \in Threads, u # t, NEW f
  PROVE  Holds(u, f)' = Holds(u, f)
BY DEF Elsewhere, Holds, Opening, ToClose, Indices, NumConnections

LEMMA OwnerIsThread ==
  ASSUME PlaceInv, NEW f \in DOMAIN table PROVE Owner(table[f]) \in Threads /\ f \in Fds /\ f # NoFd
BY PollClientAssumption DEF PlaceInv, TypeOK, Owner, Sockets, NoFd

(* What is left of the table and of the thread's own holdings is held.     *)
LEMMA StillHeld ==
  ASSUME PlaceInv, HeldInv, NEW t \in Threads, Elsewhere(t),
         \A f \in DOMAIN table' : \/ f \in DOMAIN table /\ table'[f] = table[f]
                                  \/ Owner(table'[f]) = t /\ Holds(t, f)',
         \A f \in DOMAIN table' : f \in DOMAIN table /\ Holds(t, f) => Holds(t, f)',
         pc[t] # "killed"
  PROVE  HeldInv'
<1> SUFFICES ASSUME NEW u \in Threads, NEW f \in DOMAIN table', Owner(table'[f]) = u,
                    pc'[u] # "killed"
             PROVE  Holds(u, f)'
  BY DEF HeldInv, Owner
<1>1. CASE Owner(table'[f]) = t /\ Holds(t, f)'
  BY <1>1
<1>2. CASE f \in DOMAIN table /\ table'[f] = table[f] /\ u = t
  BY <1>2 DEF HeldInv
<1>3. CASE f \in DOMAIN table /\ table'[f] = table[f] /\ u # t
  <2>1. pc'[u] = pc[u]
    BY <1>3 DEF Elsewhere
  <2>2. Holds(u, f)
    BY <1>3, <2>1 DEF HeldInv
  <2>3. Holds(u, f)' = Holds(u, f)
    BY <1>3, HoldsElsewhere
  <2> QED
    BY <2>2, <2>3
<1> QED
  BY <1>1, <1>2, <1>3

(* The vector stays, and the thread does not get ahead of its closing. *)
LEMMA MovesOn ==
  ASSUME PlaceInv, HeldInv, NEW t \in Threads, Elsewhere(t), UNCHANGED <<table, connections>>,
         ~Opening(t), pc[t] \notin {"done", "killed"},
         pc'[t] # "done" \/ i[t] > NumConnections(t),
         pc'[t] # "killed", ~Opening(t)',
         pc'[t] = "cleanup" => i'[t] = 1 \/ (pc[t] = "cleanup" /\ i'[t] = i[t]),
         pc'[t] = "done" => pc[t] = "cleanup"
  PROVE  HeldInv'
<1>1. ASSUME NEW f, Holds(t, f)
      PROVE  Holds(t, f)'
  <2>1. PICK n \in ToClose(t) : connections[t][n] = f
    BY <1>1 DEF Holds
  <2>2. n \in Indices(t) /\ n \in Int /\ NumConnections(t) \in Nat
    BY <2>1, LenProperties DEF ToClose, Indices, NumConnections, PlaceInv, TypeOK
  <2>3. pc'[t] # "done"
    BY <2>1, <2>2 DEF ToClose, Indices, PlaceInv, TypeOK
  <2>4. n \in ToClose(t)'
    BY <2>1, <2>2, <2>3 DEF ToClose, Indices, NumConnections
  <2> QED
    BY <2>1, <2>4 DEF Holds
<1> QED
  BY <1>1, StillHeld

(* A number is closed and its place in the vector passed or cleared. *)
LEMMA OneClosed ==
  ASSUME PlaceInv, HeldInv, NEW t \in Threads, Elsewhere(t), NEW f, Close(t, f),
         pc[t] # "killed",
         \A g \in DOMAIN table' : Holds(t, g) => Holds(t, g)'
  PROVE  HeldInv'
<1>1. \A g \in DOMAIN table' : g \in DOMAIN table /\ table'[g] = table[g]
  BY Closed
<1> QED
  BY <1>1, StillHeld

LEMMA SocketKeepsHeld ==
  ASSUME PlaceInv, HeldInv, NEW t \in Threads, Socket(t), Elsewhere(t) PROVE HeldInv'
<1>0. pc[t] = "socket" /\ connections' = connections
  BY DEF Socket
<1>1. CASE /\ Fds \ DOMAIN table # {}
           /\ fd' = [fd EXCEPT ![t] = LowestFree]
           /\ table' = [f \in DOMAIN table \cup {LowestFree} |->
                          IF f = LowestFree THEN <<t, i[t]>> ELSE table[f]]
           /\ Goto(t, "connect") /\ UNCHANGED i
  <2>1. /\ table'[LowestFree] = <<t, i[t]>> /\ DOMAIN table' = DOMAIN table \cup {LowestFree}
        /\ \A f \in DOMAIN table : table'[f] = table[f]
    BY <1>1, Opened DEF Socket
  <2>2. pc'[t] = "connect" /\ fd'[t] = LowestFree
    BY <1>1 DEF Goto, PlaceInv, TypeOK
  <2>3. Owner(table'[LowestFree]) = t
    BY <2>1 DEF Owner
  <2>4. ASSUME NEW f, f = LowestFree PROVE Holds(t, f)'
    BY <2>2, <2>4 DEF Holds, Opening
  <2>5. ASSUME NEW f, Holds(t, f) PROVE Holds(t, f)'
    BY <1>0, <2>2, <2>5 DEF Holds, Opening, ToClose, Indices, NumConnections
  <2> QED
    BY <1>0, <2>1, <2>3, <2>4, <2>5, StillHeld
<1>2. CASE Advance(t) /\ UNCHANGED <<fd, table, pc>>
  BY <1>0, <1>2, MovesOn DEF Opening
<1> QED
  BY <1>1, <1>2 DEF Socket

LEMMA ConnectKeepsHeld ==
  ASSUME PlaceInv, HeldInv, NEW t \in Threads, Connect(t), Elsewhere(t) PROVE HeldInv'
<1>0. pc[t] = "connect" /\ table' = table /\ fd' = fd
  BY DEF Connect
<1>1. CASE /\ connections' = [connections EXCEPT ![t] = Append(@, fd[t])]
           /\ Goto(t, "socket")
  <2>1. connections[t] \in Seq(Fds \cup {NoFd}) /\ fd[t] \in Fds \cup {NoFd}
    BY DEF PlaceInv, TypeOK
  <2>2. /\ connections'[t] = Append(connections[t], fd[t]) /\ pc'[t] = "socket"
        /\ NumConnections(t) \in Nat
        /\ NumConnections(t)' = NumConnections(t) + 1
        /\ \A n \in Indices(t) : connections'[t][n] = connections[t][n]
        /\ connections'[t][NumConnections(t) + 1] = fd[t]
    BY <1>1, <2>1, AppendProperties, LenProperties
    DEF Goto, PlaceInv, TypeOK, NumConnections, Indices
  <2>3. ASSUME NEW f, Holds(t, f) PROVE Holds(t, f)'
    <3>1. CASE f = fd[t]
      <4>1. NumConnections(t) + 1 \in ToClose(t)'
        BY <2>2 DEF ToClose, Indices
      <4> QED
        BY <2>2, <3>1, <4>1 DEF Holds
    <3>2. CASE \E n \in ToClose(t) : connections[t][n] = f
      <4>1. PICK n \in ToClose(t) : connections[t][n] = f
        BY <3>2
      <4>2. n \in Indices(t) /\ connections'[t][n] = f
        BY <2>2, <4>1 DEF ToClose
      <4>3. n \in ToClose(t)'
        BY <2>2, <4>2 DEF ToClose, Indices
      <4> QED
        BY <4>2, <4>3 DEF Holds
    <3> QED
      BY <2>3, <3>1, <3>2 DEF Holds
  <2> QED
    BY <1>0, <2>3, StillHeld
<1>2. CASE Goto(t, "close_unconnected") /\ UNCHANGED <<i, connections>>
  <2>1. pc'[t] = "close_unconnected"
    BY <1>2 DEF Goto, PlaceInv, TypeOK
  <2>2. ASSUME NEW f, Holds(t, f) PROVE Holds(t, f)'
    BY <1>0, <1>2, <2>1, <2>2 DEF Holds, Opening, ToClose, Indices, NumConnections
  <2> QED
    BY <1>0, <2>2, StillHeld
<1> QED
  BY <1>1, <1>2 DEF Connect

LEMMA CloseUnconnectedKeepsHeld ==
  ASSUME PlaceInv, HeldInv, NEW t \in Threads, CloseUnconnected(t), Elsewhere(t) PROVE HeldInv'
<1>1. pc[t] = "close_unconnected" /\ connections' = connections /\ pc'[t] = "socket" /\ Close(t, fd[t])
  BY DEF CloseUnconnected, Goto, PlaceInv, TypeOK
<1>2. ASSUME NEW g \in DOMAIN table', Holds(t, g) PROVE Holds(t, g)'
  <2>1. g # fd[t]
    BY <1>1, Closed
  <2> QED
    BY <1>1, <1>2, <2>1 DEF Holds, Opening, ToClose, Indices, NumConnections
<1> QED
  BY <1>1, <1>2, OneClosed

LEMMA CloseEntryKeepsHeld ==
  ASSUME PlaceInv, HeldInv, NEW t \in Threads, CloseLost(t) \/ CloseBroken(t), Elsewhere(t)
  PROVE  HeldInv'
<1>1. /\ AtEntry(t) /\ i[t] \in Indices(t) /\ Forget(t) /\ Close(t, fd[t])
      /\ ConnFd(t) \in {fd[t], NoFd}
      /\ pc'[t] \in {"send", "recv"}
  BY DEF CloseLost, CloseBroken, CloseAndForget, NextConnection, Goto, AtEntry, PlaceInv, Placed, TypeOK
<1>2. /\ NumConnections(t)' = NumConnections(t)
      /\ \A n \in Indices(t) :
           connections'[t][n] = IF n = i[t] THEN NoFd ELSE connections[t][n]
  BY <1>1, Forgotten
<1>3. ASSUME NEW g \in DOMAIN table', Holds(t, g) PROVE Holds(t, g)'
  <2>1. g # fd[t] /\ g \in DOMAIN table
    <3>1. Close(t, fd[t])
      BY <1>1
    <3>2. DOMAIN table' = DOMAIN table \ {fd[t]}
      BY <3>1 DEF Close
    <3> QED
      BY <1>3, <3>2
  <2>2. g # NoFd
    BY <2>1, OwnerIsThread
  <2>3. PICK n \in ToClose(t) : connections[t][n] = g
    BY <1>1, <1>3 DEF Holds, AtEntry, Opening
  <2>4. n # i[t]
    BY <1>1, <2>1, <2>2, <2>3 DEF ConnFd
  <2>5. n \in ToClose(t)' /\ connections'[t][n] = g
    BY <1>1, <1>2, <2>3, <2>4 DEF ToClose, Indices
  <2> QED
    BY <2>5 DEF Holds
<1>4. pc[t] # "killed"
  BY <1>1 DEF AtEntry
<1> QED
  BY <1>1, <1>3, <1>4, OneClosed

LEMMA CleanupKeepsHeld ==
  ASSUME PlaceInv, HeldInv, NEW t \in Threads, Cleanup(t), Elsewhere(t) PROVE HeldInv'
<1>1. pc[t] = "cleanup" /\ connections' = connections
  BY DEF Cleanup
<1>2. CASE i[t] > NumConnections(t)
  <2>1. pc'[t] = "done" /\ table' = table
    BY <1>2 DEF Cleanup, Goto, PlaceInv, TypeOK
  <2> QED
    BY <1>1, <1>2, <2>1, MovesOn DEF Opening
<1>3. CASE ~(i[t] > NumConnections(t))
  <2>1. Close(t, connections[t][i[t]]) /\ i'[t] = i[t] + 1 /\ pc' = pc
    BY <1>3 DEF Cleanup, Advance, PlaceInv, TypeOK
  <2>2. ASSUME NEW g \in DOMAIN table', Holds(t, g) PROVE Holds(t, g)'
    <3>1. g # connections[t][i[t]]
      BY <2>1 DEF Close
    <3>2. PICK n \in ToClose(t) : connections[t][n] = g
      BY <1>1, <2>2 DEF Holds, Opening
    <3>3. n # i[t] /\ n >= i[t] /\ n \in Indices(t) /\ i[t] \in Nat
      BY <1>1, <3>1, <3>2 DEF ToClose, PlaceInv, TypeOK
    <3>4. NumConnections(t) \in Nat
      BY LenProperties DEF NumConnections, PlaceInv, TypeOK
    <3>5. n \in ToClose(t)'
      BY <1>1, <2>1, <3>3, <3>4 DEF ToClose, Indices, NumConnections
    <3> QED
      BY <1>1, <3>2, <3>5 DEF Holds
  <2> QED
    BY <1>1, <2>1, <2>2, OneClosed
<1> QED
  BY <1>2, <1>3

LEMMA NextKeepsHeld == PlaceInv /\ HeldInv /\ [Next]_vars => HeldInv'
<1> SUFFICES ASSUME PlaceInv, HeldInv, [Next]_vars PROVE HeldInv'
  OBVIOUS
<1>1. ASSUME NEW t \in Threads, Thread(t) \/ PollFails(t), Elsewhere(t) PROVE HeldInv'
  <2>1. CASE Setup(t) \/ Poll(t) \/ PollFails(t) \/ EndPass(t) \/ Recv(t)
    <3>1. UNCHANGED <<table, connections>>
      BY <2>1 DEF Setup, Poll, PollFails, EndPass, Recv, localVars
    <3>2. /\ pc[t] \in {"socket", "poll", "recv"}
          /\ pc'[t] \in {"poll", "recv", "send", "close_lost", "cleanup"}
      BY <2>1 DEF Setup, Poll, PollFails, EndPass, Recv, TestTime, Goto, PlaceInv, TypeOK
    <3>3. pc'[t] = "cleanup" => i'[t] = 1
      BY <2>1 DEF Setup, Poll, PollFails, EndPass, Recv, TestTime, Goto, PlaceInv, TypeOK, Placed,
                  localVars
    <3> QED
      BY <1>1, <3>1, <3>2, <3>3, MovesOn DEF Opening
  <2>2. CASE Send(t)
    <3>1. UNCHANGED <<table, connections>> /\ pc[t] = "send"
      BY <2>2 DEF Send
    <3>2. CASE Killed
      BY <3>2 DEF Killed, HeldInv
    <3>3. CASE pc'[t] \in {"recv", "close_broken"}
      BY <1>1, <3>1, <3>3, MovesOn DEF Opening
    <3> QED
      BY <2>2, <3>2, <3>3 DEF Send, NextConnection, Goto, Killed, PlaceInv, TypeOK
  <2> QED
    BY <1>1, <2>1, <2>2, SocketKeepsHeld, ConnectKeepsHeld, CloseUnconnectedKeepsHeld,
       CloseEntryKeepsHeld, CleanupKeepsHeld
    DEF Thread
<1>2. ASSUME Killed PROVE HeldInv'
  BY <1>2 DEF Killed, HeldInv
<1>3. CASE ServerCloses \/ Tick \/ UNCHANGED vars
  <2>1. UNCHANGED <<table, pc, i, fd, connections>>
    BY <1>3 DEF ServerCloses, Tick, localVars, vars
  <2>2. \A t \in Threads : \A f : Holds(t, f)' = Holds(t, f)
    BY <2>1 DEF Holds, Opening, ToClose, Indices, NumConnections
  <2> QED
    BY <2>1, <2>2 DEF HeldInv
<1> QED
  BY <1>1, <1>2, <1>3, StepIsLocal DEF Next, Terminated

(***************************************************************************)
(* Whose sockets the numbers denote.                                       *)
(***************************************************************************)

(* A socket has one number at most, and a thread opens its sockets in      *)
(* order.                                                                  *)
UniqueInv ==
  /\ \A f, g \in DOMAIN table : table[f] = table[g] => f = g
  /\ \A t \in Threads, f \in DOMAIN table : Owner(table[f]) = t =>
       /\ pc[t] = "socket" => table[f][2] < i[t]
       /\ Opening(t) => table[f][2] <= i[t]

(* What a thread holds is its own, each in one place; and the number it    *)
(* kept of a connection it has closed is not its own any more.             *)
OwnHeld(t) ==
  /\ \A n \in ToClose(t) : connections[t][n] \in Own(t) \cup {NoFd}
  /\ \A n, m \in ToClose(t) :
       connections[t][n] = connections[t][m] /\ connections[t][n] # NoFd => n = m
  /\ Opening(t) => fd[t] \in Own(t) /\ \A n \in ToClose(t) : connections[t][n] # fd[t]
  /\ AtEntry(t) /\ fd[t] \in Own(t) => ConnFd(t) = fd[t]

OwnInv == ~foreign => \A t \in Threads : OwnHeld(t)

LEMMA NextKeepsUnique == PlaceInv /\ UniqueInv /\ [Next]_vars => UniqueInv'
<1> SUFFICES ASSUME PlaceInv, UniqueInv, [Next]_vars PROVE UniqueInv'
  OBVIOUS
(* Only names go, and the threads only advance. *)
<1>1. ASSUME \A f \in DOMAIN table' : f \in DOMAIN table /\ table'[f] = table[f],
             \A t \in Threads : /\ pc'[t] = "socket" => \/ pc[t] = "socket" /\ i'[t] >= i[t]
                                                        \/ Opening(t) /\ i'[t] = i[t] + 1
                                /\ Opening(t)' => Opening(t) /\ i'[t] = i[t]
      PROVE  UniqueInv'
  <2>1. ASSUME NEW t \in Threads, NEW f \in DOMAIN table', Owner(table'[f]) = t
        PROVE  /\ pc'[t] = "socket" => table'[f][2] < i'[t]
               /\ Opening(t)' => table'[f][2] <= i'[t]
    <3>1. f \in DOMAIN table /\ table'[f] = table[f] /\ Owner(table[f]) = t
      BY <1>1, <2>1
    <3>2. table[f][2] \in Nat /\ i[t] \in Nat
      BY <3>1, PollClientAssumption DEF PlaceInv, TypeOK, Sockets
    <3>3. /\ pc[t] = "socket" => table[f][2] < i[t]
          /\ Opening(t) => table[f][2] <= i[t]
      BY <3>1 DEF UniqueInv
    <3>4. i'[t] \in Nat
      BY NextKeepsPlace DEF PlaceInv, TypeOK
    <3> QED
      BY <1>1, <3>1, <3>2, <3>3, <3>4
  <2>2. \A f, g \in DOMAIN table' : table'[f] = table'[g] => f = g
    BY <1>1 DEF UniqueInv
  <2> QED
    BY <2>1, <2>2 DEF UniqueInv, Owner
<1>2. ASSUME NEW t \in Threads, Socket(t) PROVE UniqueInv'
  <2>0. pc[t] = "socket" /\ OpensMore(t)
    BY <1>2 DEF Socket
  <2>1. CASE Advance(t) /\ UNCHANGED <<fd, table, pc>>
    <3>1. ASSUME NEW u \in Threads
          PROVE  /\ pc'[u] = "socket" => pc[u] = "socket" /\ i'[u] >= i[u]
                 /\ Opening(u)' => Opening(u) /\ i'[u] = i[u]
      BY <2>0, <2>1 DEF Advance, Opening, PlaceInv, TypeOK
    <3>2. \A f \in DOMAIN table' : f \in DOMAIN table /\ table'[f] = table[f]
      BY <2>1
    <3> QED
      BY <1>1, <3>1, <3>2
  <2>2. CASE /\ Fds \ DOMAIN table # {}
             /\ table' = [f \in DOMAIN table \cup {LowestFree} |->
                            IF f = LowestFree THEN <<t, i[t]>> ELSE table[f]]
             /\ Goto(t, "connect") /\ UNCHANGED i
    <3>1. /\ table'[LowestFree] = <<t, i[t]>> /\ DOMAIN table' = DOMAIN table \cup {LowestFree}
          /\ LowestFree \notin DOMAIN table
          /\ \A f \in DOMAIN table : table'[f] = table[f]
      BY <2>0, <2>2, Opened
    <3>2. /\ pc'[t] = "connect" /\ i' = i /\ i[t] \in Nat
          /\ \A u \in Threads : u # t => pc'[u] = pc[u]
      BY <2>2 DEF Goto, PlaceInv, TypeOK
    <3>3. ASSUME NEW f \in DOMAIN table PROVE table[f] # <<t, i[t]>>
      <4>1. Owner(table[f]) = t => table[f][2] < i[t]
        BY <2>0 DEF UniqueInv
      <4> QED
        BY <3>2, <4>1 DEF Owner
    <3>4. \A f, g \in DOMAIN table' : table'[f] = table'[g] => f = g
      BY <3>1, <3>3 DEF UniqueInv
    <3>5. ASSUME NEW u \in Threads, NEW f \in DOMAIN table', Owner(table'[f]) = u
          PROVE  /\ pc'[u] = "socket" => table'[f][2] < i'[u]
                 /\ Opening(u)' => table'[f][2] <= i'[u]
      <4>1. CASE u = t /\ f = LowestFree
        BY <3>1, <3>2, <4>1
      <4>2. CASE u = t /\ f # LowestFree
        <5>1. f \in DOMAIN table /\ table'[f] = table[f] /\ table[f][2] < i[t]
          BY <2>0, <3>1, <3>5, <4>2 DEF UniqueInv
        <5>2. table[f][2] \in Nat
          <6>1. table[f] \in Sockets
            BY <5>1 DEF PlaceInv, TypeOK
          <6> QED
            BY <6>1, PollClientAssumption DEF Sockets
        <5> QED
          BY <3>2, <4>2, <5>1, <5>2
      <4>3. CASE u # t
        <5>1. f \in DOMAIN table /\ table'[f] = table[f]
          BY <3>1, <3>5, <4>3 DEF Owner
        <5> QED
          BY <3>2, <3>5, <4>3, <5>1 DEF UniqueInv, Opening
      <4> QED
        BY <4>1, <4>2, <4>3
    <3> QED
      BY <3>4, <3>5 DEF UniqueInv, Owner
  <2> QED
    BY <1>2, <2>1, <2>2 DEF Socket
<1>3. ASSUME NEW t \in Threads, Connect(t) PROVE UniqueInv'
  <2>1. table' = table
    BY <1>3 DEF Connect
  <2>2. ASSUME NEW u \in Threads
        PROVE  /\ pc'[u] = "socket" => (pc[u] = "socket" /\ i'[u] = i[u]) \/ (Opening(u) /\ i'[u] > i[u])
               /\ Opening(u)' => Opening(u) /\ i'[u] = i[u]
    <3>1. CASE Advance(t) /\ Goto(t, "socket")
      BY <1>3, <3>1 DEF Connect, Advance, Goto, Opening, PlaceInv, TypeOK
    <3>2. CASE Goto(t, "close_unconnected") /\ UNCHANGED i
      BY <1>3, <3>2 DEF Connect, Goto, Opening, PlaceInv, TypeOK
    <3> QED
      BY <1>3, <3>1, <3>2 DEF Connect
  <2>3. \A f, g \in DOMAIN table' : table'[f] = table'[g] => f = g
    BY <2>1 DEF UniqueInv
  <2>4. ASSUME NEW u \in Threads, NEW f \in DOMAIN table', Owner(table'[f]) = u
        PROVE  /\ pc'[u] = "socket" => table'[f][2] < i'[u]
               /\ Opening(u)' => table'[f][2] <= i'[u]
    <3>1. f \in DOMAIN table /\ table'[f] = table[f] /\ Owner(table[f]) = u
      BY <2>1, <2>4
    <3>2. table[f][2] \in Nat /\ i[u] \in Nat /\ i'[u] \in Nat
      <4>1. table[f] \in Sockets /\ i[u] \in Nat
        BY <3>1 DEF PlaceInv, TypeOK
      <4>2. i' \in [Threads -> Nat \ {0}]
        BY NextKeepsPlace DEF PlaceInv, TypeOK
      <4> QED
        BY <4>1, <4>2, PollClientAssumption DEF Sockets
    <3>3. (pc[u] = "socket" => table[f][2] < i[u]) /\ (Opening(u) => table[f][2] <= i[u])
      BY <3>1 DEF UniqueInv
    <3> QED
      BY <2>2, <3>1, <3>2, <3>3
  <2> QED
    BY <2>3, <2>4 DEF UniqueInv, Owner
<1>4. ASSUME NEW t \in Threads, CloseUnconnected(t) PROVE UniqueInv'
  <2>1. \A f \in DOMAIN table' : f \in DOMAIN table /\ table'[f] = table[f]
    BY <1>4, Closed DEF CloseUnconnected
  <2> QED
    BY <1>1, <1>4, <2>1 DEF CloseUnconnected, Advance, Goto, Opening, PlaceInv, TypeOK
<1>5. ASSUME NEW t \in Threads,
             \/ Setup(t) \/ Poll(t) \/ PollFails(t) \/ EndPass(t) \/ Recv(t) \/ CloseLost(t)
             \/ Send(t) \/ CloseBroken(t) \/ Cleanup(t)
      PROVE  UniqueInv'
  <2>1. \A f \in DOMAIN table' : f \in DOMAIN table /\ table'[f] = table[f]
    <3>1. UNCHANGED table \/ \E f : Close(t, f)
      BY <1>5 DEF Setup, Poll, PollFails, EndPass, Recv, CloseLost, Send, CloseBroken, Cleanup,
                  CloseAndForget
    <3> QED
      BY <3>1, Closed
  <2>2. Elsewhere(t) \/ Killed
    BY <1>5, StepIsLocal DEF Thread
  <2>3. /\ ~Opening(t)' /\ pc'[t] # "socket"
        /\ Elsewhere(t) \/ Killed
    BY <1>5, <2>2 DEF Setup, Poll, PollFails, EndPass, Recv, CloseLost, Send, CloseBroken, Cleanup,
                  TestTime, NextConnection, Goto, Opening, PlaceInv, TypeOK
  <2>4. ASSUME NEW u \in Threads
        PROVE  /\ pc'[u] = "socket" => pc[u] = "socket" /\ i'[u] >= i[u]
               /\ Opening(u)' => Opening(u) /\ i'[u] = i[u]
    BY <2>3 DEF Elsewhere, Killed, Opening, PlaceInv, TypeOK
  <2> QED
    BY <1>1, <2>1, <2>4
<1>6. CASE ServerCloses \/ Tick \/ UNCHANGED vars
  <2>1. UNCHANGED <<table, pc, i>>
    BY <1>6 DEF ServerCloses, Tick, localVars, vars
  <2> QED
    BY <2>1 DEF UniqueInv, Opening
<1> QED
  BY <1>2, <1>3, <1>4, <1>5, <1>6 DEF Next, Thread, Terminated

(* A step changes nothing of what the other threads own, unless it is      *)
(* foreign.                                                                *)
LEMMA OthersOwn ==
  ASSUME PlaceInv, NEW t \in Threads, Thread(t) \/ PollFails(t), ~foreign',
         NEW u \in Threads, u # t
  PROVE  Own(u)' = Own(u) /\ \A f \in Own(u) : table'[f] = table[f]
<1>1. CASE \E f : Close(t, f)
  <2>1. PICK f : Close(t, f)
    BY <1>1
  <2>2. ~(Open(f) /\ Owner(table[f]) # t)
    BY <2>1 DEF Close, Uses
  <2>3. /\ DOMAIN table' = DOMAIN table \ {f}
        /\ \A h \in DOMAIN table' : table'[h] = table[h]
    BY <2>1, Closed
  <2> QED
    BY <2>2, <2>3 DEF Own, Open
<1>2. CASE table' = table
  BY <1>2 DEF Own
<1>3. CASE Socket(t) /\ Fds \ DOMAIN table # {} /\
           table' = [f \in DOMAIN table \cup {LowestFree} |->
                       IF f = LowestFree THEN <<t, i[t]>> ELSE table[f]]
  <2>1. /\ LowestFree \notin DOMAIN table
        /\ DOMAIN table' = DOMAIN table \cup {LowestFree}
        /\ table'[LowestFree] = <<t, i[t]>>
        /\ \A f \in DOMAIN table : table'[f] = table[f]
    BY <1>3, Opened DEF Socket
  <2>2. Owner(table'[LowestFree]) = t
    BY <2>1 DEF Owner
  <2> QED
    BY <2>1, <2>2 DEF Own
<1> QED
  BY <1>1, <1>2, <1>3
  DEF Thread, Socket, Connect, CloseUnconnected, Setup, Poll, PollFails, EndPass, Recv, CloseLost,
      Send, CloseBroken, Cleanup, CloseAndForget

LEMMA OthersHeld ==
  ASSUME PlaceInv, NEW t \in Threads, Elsewhere(t), NEW u \in Threads, u # t,
         Own(u)' = Own(u), OwnHeld(u)
  PROVE  OwnHeld(u)'
<1>1. /\ pc'[u] = pc[u] /\ i'[u] = i[u] /\ fd'[u] = fd[u] /\ connections'[u] = connections[u]
  BY DEF Elsewhere
<1>2. /\ ToClose(u)' = ToClose(u) /\ Opening(u)' = Opening(u) /\ AtEntry(u)' = AtEntry(u)
      /\ ConnFd(u)' = ConnFd(u)
  BY <1>1 DEF NumConnections, Indices, ToClose, Opening, AtEntry, ConnFd
<1> QED
  BY <1>1, <1>2 DEF OwnHeld

LEMMA ForeignStays ==
  ASSUME PlaceInv, [Next]_vars, ~foreign' PROVE ~foreign
<1>1. ASSUME NEW t \in Threads, Thread(t) \/ PollFails(t) PROVE ~foreign
  <2>1. CASE Socket(t) \/ Setup(t) \/ Poll(t) \/ PollFails(t) \/ EndPass(t)
    BY <2>1 DEF Socket, Setup, Poll, PollFails, EndPass, historyVars
  <2>2. CASE Connect(t) \/ CloseUnconnected(t) \/ Cleanup(t)
    BY <2>2 DEF Connect, CloseUnconnected, Cleanup, Close, Uses
  <2>3. CASE Recv(t) \/ Send(t)
    BY <2>3 DEF Recv, Send, Uses
  <2>4. CASE CloseLost(t) \/ CloseBroken(t)
    BY <2>4 DEF CloseLost, CloseBroken, CloseAndForget, Close, Uses
  <2> QED
    BY <1>1, <2>1, <2>2, <2>3, <2>4 DEF Thread
<1>2. CASE ServerCloses \/ Tick \/ UNCHANGED vars
  BY <1>2 DEF ServerCloses, Tick, historyVars, vars
<1> QED
  BY <1>1, <1>2 DEF Next, Terminated

(* A thread that only moves on in its vector keeps what it owns. *)
LEMMA MovesOnOwn ==
  ASSUME PlaceInv, NEW t \in Threads, OwnHeld(t), UNCHANGED table, connections'[t] = connections[t],
         ToClose(t)' \subseteq ToClose(t), ~Opening(t)',
         AtEntry(t)' /\ fd'[t] \in Own(t)' => ConnFd(t)' = fd'[t]
  PROVE  OwnHeld(t)'
<1>1. Own(t)' = Own(t)
  BY DEF Own
<1> QED
  BY <1>1 DEF OwnHeld

LEMMA OwnClosed ==
  ASSUME PlaceInv, NEW t, NEW f, Close(t, f) PROVE Own(t)' = Own(t) \ {f}
<1>1. /\ DOMAIN table' = DOMAIN table \ {f}
      /\ \A g \in DOMAIN table' : table'[g] = table[g]
  BY Closed
<1> QED
  BY <1>1 DEF Own

LEMMA OwnIsOpen ==
  ASSUME PlaceInv, NEW t PROVE Own(t) \subseteq DOMAIN table /\ NoFd \notin Own(t)
BY OwnerIsThread DEF Own

LEMMA SocketKeepsOwn ==
  ASSUME PlaceInv, NEW t \in Threads, OwnHeld(t), Socket(t) PROVE OwnHeld(t)'
<1>0. pc[t] = "socket" /\ connections' = connections
  BY DEF Socket
<1>1. CASE /\ Fds \ DOMAIN table # {}
           /\ fd' = [fd EXCEPT ![t] = LowestFree]
           /\ table' = [f \in DOMAIN table \cup {LowestFree} |->
                          IF f = LowestFree THEN <<t, i[t]>> ELSE table[f]]
           /\ Goto(t, "connect") /\ UNCHANGED i
  <2>1. /\ LowestFree \in Fds /\ LowestFree \notin DOMAIN table
        /\ table'[LowestFree] = <<t, i[t]>> /\ DOMAIN table' = DOMAIN table \cup {LowestFree}
        /\ \A f \in DOMAIN table : table'[f] = table[f]
    BY <1>1, Opened DEF Socket
  <2>2. pc'[t] = "connect" /\ fd'[t] = LowestFree
    BY <1>1, <2>1 DEF Goto, PlaceInv, TypeOK
  <2>3. Owner(table'[LowestFree]) = t
    BY <2>1 DEF Owner
  <2>4. Own(t)' = Own(t) \cup {LowestFree}
    BY <2>1, <2>3 DEF Own
  <2>5. ToClose(t)' = ToClose(t) /\ Opening(t)' /\ ~AtEntry(t)'
    BY <1>0, <2>2 DEF ToClose, Indices, NumConnections, Opening, AtEntry
  <2>6. LowestFree # NoFd /\ LowestFree \notin Own(t)
    BY <2>1, PollClientAssumption DEF NoFd, Own
  <2> QED
    BY <1>0, <2>2, <2>4, <2>5, <2>6 DEF OwnHeld
<1>2. CASE Advance(t) /\ UNCHANGED <<fd, table, pc>>
  <2>1. ToClose(t)' = ToClose(t) /\ ~Opening(t)' /\ ~AtEntry(t)'
    BY <1>0, <1>2 DEF ToClose, Indices, NumConnections, Opening, AtEntry
  <2> QED
    BY <1>0, <1>2, <2>1, MovesOnOwn
<1> QED
  BY <1>1, <1>2 DEF Socket

LEMMA ConnectKeepsOwn ==
  ASSUME PlaceInv, NEW t \in Threads, OwnHeld(t), Connect(t) PROVE OwnHeld(t)'
<1>0. /\ pc[t] = "connect" /\ table' = table /\ fd' = fd /\ Opening(t)
      /\ Own(t)' = Own(t)
  BY DEF Connect, Opening, Own
<1>1. CASE /\ connections' = [connections EXCEPT ![t] = Append(@, fd[t])]
           /\ Goto(t, "socket")
  <2>1. connections[t] \in Seq(Fds \cup {NoFd}) /\ fd[t] \in Fds \cup {NoFd}
    BY DEF PlaceInv, TypeOK
  <2>2. /\ connections'[t] = Append(connections[t], fd[t]) /\ pc'[t] = "socket"
        /\ NumConnections(t) \in Nat
        /\ NumConnections(t)' = NumConnections(t) + 1
        /\ \A n \in Indices(t) : connections'[t][n] = connections[t][n]
        /\ connections'[t][NumConnections(t) + 1] = fd[t]
    BY <1>1, <2>1, AppendProperties, LenProperties
    DEF Goto, PlaceInv, TypeOK, NumConnections, Indices
  <2>3. /\ ToClose(t)' = ToClose(t) \cup {NumConnections(t) + 1} /\ ToClose(t) \subseteq Indices(t)
        /\ NumConnections(t) + 1 \notin ToClose(t)
        /\ ~Opening(t)' /\ ~AtEntry(t)'
    BY <1>0, <2>2 DEF ToClose, Indices, Opening, AtEntry
  <2>4. fd[t] \in Own(t) /\ \A n \in ToClose(t) : connections[t][n] # fd[t]
    BY <1>0 DEF OwnHeld
  <2>5. \A n \in ToClose(t)' : connections'[t][n] \in Own(t)' \cup {NoFd}
    BY <1>0, <2>2, <2>3, <2>4 DEF OwnHeld
  <2>6. ASSUME NEW n \in ToClose(t)', NEW m \in ToClose(t)',
               connections'[t][n] = connections'[t][m], connections'[t][n] # NoFd
        PROVE  n = m
    BY <2>2, <2>3, <2>4, <2>6 DEF OwnHeld
  <2> QED
    BY <2>3, <2>5, <2>6 DEF OwnHeld
<1>2. CASE Goto(t, "close_unconnected") /\ UNCHANGED <<i, connections>>
  <2>1. pc'[t] = "close_unconnected"
    BY <1>2 DEF Goto, PlaceInv, TypeOK
  <2>2. ToClose(t)' = ToClose(t) /\ ~AtEntry(t)'
    BY <1>0, <1>2, <2>1 DEF ToClose, Indices, NumConnections, AtEntry
  <2> QED
    BY <1>0, <1>2, <2>2 DEF OwnHeld
<1> QED
  BY <1>1, <1>2 DEF Connect

LEMMA CloseUnconnectedKeepsOwn ==
  ASSUME PlaceInv, NEW t \in Threads, OwnHeld(t), CloseUnconnected(t) PROVE OwnHeld(t)'
<1>1. /\ pc[t] = "close_unconnected" /\ connections' = connections /\ pc'[t] = "socket"
      /\ Opening(t) /\ Close(t, fd[t])
  BY DEF CloseUnconnected, Goto, PlaceInv, TypeOK, Opening
<1>2. ToClose(t)' = ToClose(t) /\ ~AtEntry(t)' /\ ~Opening(t)'
  BY <1>1 DEF ToClose, Indices, NumConnections, AtEntry, Opening
<1>3. Own(t)' = Own(t) \ {fd[t]}
  BY <1>1, OwnClosed
<1> QED
  BY <1>1, <1>2, <1>3 DEF OwnHeld

(* The number closed is that of the entry forgotten, if it is the thread's *)
(* own at all.                                                             *)
LEMMA CloseEntryKeepsOwn ==
  ASSUME PlaceInv, NEW t \in Threads, OwnHeld(t), CloseLost(t) \/ CloseBroken(t) PROVE OwnHeld(t)'
<1>1. /\ AtEntry(t) /\ i[t] \in Indices(t) /\ Forget(t) /\ Close(t, fd[t])
      /\ fd' = fd /\ pc'[t] \in {"send", "recv"}
  BY DEF CloseLost, CloseBroken, CloseAndForget, NextConnection, Goto, AtEntry, PlaceInv, Placed, TypeOK
<1>2. /\ NumConnections(t)' = NumConnections(t)
      /\ \A n \in Indices(t) :
           connections'[t][n] = IF n = i[t] THEN NoFd ELSE connections[t][n]
  BY <1>1, Forgotten
<1>3. /\ ToClose(t)' = ToClose(t) /\ ToClose(t) \subseteq Indices(t) /\ i[t] \in ToClose(t)
      /\ ~Opening(t)'
  BY <1>1, <1>2 DEF ToClose, Indices, AtEntry, Opening
<1>4. Own(t)' = Own(t) \ {fd[t]}
  BY <1>1, OwnClosed
<1>5. \A n \in ToClose(t) : n # i[t] /\ fd[t] \in Own(t) => connections[t][n] # fd[t]
  BY <1>1, <1>3, OwnIsOpen DEF OwnHeld, ConnFd
<1>6. \A n \in ToClose(t)' : connections'[t][n] \in Own(t)' \cup {NoFd}
  BY <1>2, <1>3, <1>4, <1>5 DEF OwnHeld
<1>7. \A n, m \in ToClose(t)' :
        connections'[t][n] = connections'[t][m] /\ connections'[t][n] # NoFd => n = m
  BY <1>2, <1>3 DEF OwnHeld
<1> QED
  BY <1>1, <1>3, <1>4, <1>6, <1>7 DEF OwnHeld

LEMMA CleanupKeepsOwn ==
  ASSUME PlaceInv, NEW t \in Threads, OwnHeld(t), Cleanup(t) PROVE OwnHeld(t)'
<1>1. pc[t] = "cleanup" /\ connections' = connections
  BY DEF Cleanup
<1>2. CASE i[t] > NumConnections(t)
  <2>1. pc'[t] = "done" /\ table' = table
    BY <1>2 DEF Cleanup, Goto, PlaceInv, TypeOK
  <2>2. ToClose(t)' = {} /\ ~Opening(t)' /\ ~AtEntry(t)'
    BY <2>1 DEF ToClose, Opening, AtEntry
  <2> QED
    BY <1>1, <2>1, <2>2, MovesOnOwn
<1>3. CASE ~(i[t] > NumConnections(t))
  <2>1. Close(t, connections[t][i[t]]) /\ i'[t] = i[t] + 1 /\ pc' = pc
    BY <1>3 DEF Cleanup, Advance, PlaceInv, TypeOK
  <2>2. NumConnections(t) \in Nat /\ i[t] \in Nat \ {0}
    BY LenProperties DEF NumConnections, PlaceInv, TypeOK
  <2>3. i[t] \in ToClose(t)
    BY <1>1, <1>3, <2>2 DEF ToClose, Indices
  <2>4. ToClose(t)' = ToClose(t) \ {i[t]}
    BY <1>1, <2>1, <2>2 DEF ToClose, Indices, NumConnections
  <2>5. Own(t)' = Own(t) \ {connections[t][i[t]]}
    BY <2>1, OwnClosed
  <2>6. ~Opening(t)' /\ ~AtEntry(t)'
    BY <1>1, <2>1 DEF Opening, AtEntry
  <2>7. \A n \in ToClose(t)' : connections'[t][n] \in Own(t)' \cup {NoFd}
    BY <1>1, <2>3, <2>4, <2>5 DEF OwnHeld
  <2> QED
    BY <1>1, <2>4, <2>6, <2>7 DEF OwnHeld
<1> QED
  BY <1>2, <1>3

LEMMA NextKeepsOwn == PlaceInv /\ OwnInv /\ [Next]_vars => OwnInv'
<1> SUFFICES ASSUME PlaceInv, OwnInv, [Next]_vars, ~foreign' PROVE \A u \in Threads : OwnHeld(u)'
  BY DEF OwnInv
<1>1. \A u \in Threads : OwnHeld(u)
  BY ForeignStays DEF OwnInv
<1>2. ASSUME NEW t \in Threads, Thread(t) \/ PollFails(t), Elsewhere(t) PROVE OwnHeld(t)'
  <2>1. CASE Setup(t) \/ Poll(t) \/ PollFails(t) \/ EndPass(t) \/ Recv(t)
    <3>1. UNCHANGED <<table, connections>>
      BY <2>1 DEF Setup, Poll, PollFails, EndPass, Recv, localVars
    <3>2. /\ pc[t] \in {"socket", "poll", "recv"}
          /\ pc'[t] \in {"poll", "recv", "send", "close_lost", "cleanup"}
          /\ AtEntry(t)' => Recv(t)
      BY <2>1 DEF Setup, Poll, PollFails, EndPass, Recv, TestTime, Goto, PlaceInv, TypeOK, AtEntry
    <3>3. ASSUME Recv(t) PROVE ConnFd(t)' = fd'[t]
      BY <3>3 DEF Recv, ConnFd, PlaceInv, TypeOK
    <3>4. ToClose(t)' \subseteq ToClose(t) /\ ~Opening(t)'
      BY <3>1, <3>2 DEF ToClose, Indices, NumConnections, Opening
    <3> QED
      BY <1>1, <3>1, <3>2, <3>3, <3>4, MovesOnOwn
  <2>2. CASE Send(t)
    <3>1. UNCHANGED <<table, connections, fd>> /\ pc[t] = "send" /\ AtEntry(t)
      BY <2>2 DEF Send, AtEntry
    <3>2. \/ pc'[t] \in {"recv", "killed"}
          \/ pc'[t] = "close_broken" /\ i' = i
      BY <2>2 DEF Send, NextConnection, Goto, PlaceInv, TypeOK
    <3>3. ToClose(t)' \subseteq ToClose(t) /\ ~Opening(t)' /\ Own(t)' = Own(t)
      BY <3>1, <3>2 DEF ToClose, Indices, NumConnections, Opening, Own
    <3>4. AtEntry(t)' => ConnFd(t)' = ConnFd(t)
      BY <3>1, <3>2 DEF AtEntry, ConnFd
    <3>5. fd[t] \in Own(t) => ConnFd(t) = fd[t]
      BY <1>1, <3>1 DEF OwnHeld
    <3> QED
      BY <1>1, <3>1, <3>3, <3>4, <3>5, MovesOnOwn
  <2> QED
    BY <1>1, <1>2, <2>1, <2>2, SocketKeepsOwn, ConnectKeepsOwn, CloseUnconnectedKeepsOwn,
       CloseEntryKeepsOwn, CleanupKeepsOwn
    DEF Thread
<1>3. ASSUME NEW t \in Threads, Thread(t) \/ PollFails(t), Elsewhere(t),
             NEW u \in Threads
      PROVE  OwnHeld(u)'
  <2>1. CASE u = t
    BY <1>2, <1>3, <2>1
  <2>2. CASE u # t
    <3>1. Own(u)' = Own(u)
      BY <1>3, <2>2, OthersOwn
    <3> QED
      BY <1>1, <1>3, <2>2, <3>1, OthersHeld
  <2> QED
    BY <2>1, <2>2
<1>4. ASSUME Killed, NEW u \in Threads PROVE OwnHeld(u)'
  BY <1>4 DEF Killed, OwnHeld, ToClose, Opening, AtEntry
<1>5. CASE ServerCloses \/ Tick \/ UNCHANGED vars
  <2>1. UNCHANGED <<table, pc, i, fd, connections>>
    BY <1>5 DEF ServerCloses, Tick, localVars, vars
  <2> QED
    BY <1>1, <2>1 DEF OwnHeld, Own, Opening, AtEntry, ToClose, Indices, NumConnections, ConnFd
<1> QED
  BY <1>3, <1>4, <1>5, StepIsLocal DEF Next, Terminated

(***************************************************************************)
(* The closed loop.                                                        *)
(***************************************************************************)

(* Nothing has been sent while connecting; and where a request may be      *)
(* sent, none is unanswered.                                               *)
LoopOwn(t) ==
  /\ Connecting(t) => \A s \in Sockets : Owner(s) = t => unanswered[s] = 0
  /\ InLoop(t) => \A n \in ToClose(t) :
       connections[t][n] \in Own(t) /\ is_sending[t][n] => unanswered[table[connections[t][n]]] = 0

LoopInv == ~foreign => ClosedLoop /\ \A t \in Threads : LoopOwn(t)

(* What is sent or received on a number that is nobody else's.             *)
LEMMA OwnUsed ==
  ASSUME PlaceInv, NEW t \in Threads, NEW f, Uses(t, f), ~foreign', Open(f)
  PROVE  f \in Own(t) /\ table[f] \in Sockets /\ Owner(table[f]) = t
BY DEF Uses, Open, Own, PlaceInv, TypeOK

LEMMA OthersLoop ==
  ASSUME PlaceInv, NEW t \in Threads, Elsewhere(t), NEW u \in Threads, u # t,
         Own(u)' = Own(u), \A f \in Own(u) : table'[f] = table[f],
         \A s \in Sockets : Owner(s) = u => unanswered'[s] = unanswered[s],
         LoopOwn(u)
  PROVE  LoopOwn(u)'
<1>1. /\ pc'[u] = pc[u] /\ i'[u] = i[u] /\ connections'[u] = connections[u]
      /\ is_sending'[u] = is_sending[u]
  BY DEF Elsewhere
<1>2. /\ ToClose(u)' = ToClose(u) /\ Connecting(u)' = Connecting(u) /\ InLoop(u)' = InLoop(u)
  BY <1>1 DEF NumConnections, Indices, ToClose, Connecting, InLoop
<1>3. \A f \in Own(u) : table[f] \in Sockets /\ Owner(table[f]) = u
  BY DEF Own, PlaceInv, TypeOK
<1> QED
  BY <1>1, <1>2, <1>3 DEF LoopOwn

(* Closing and moving on lose permissions and numbers, nothing else. *)
LEMMA MovesOnLoop ==
  ASSUME PlaceInv, NEW t \in Threads, LoopOwn(t), UNCHANGED unanswered, Connecting(t)' => Connecting(t),
         InLoop(t)' => /\ InLoop(t)
                       /\ ToClose(t)' \subseteq ToClose(t)
                       /\ Own(t)' \subseteq Own(t)
                       /\ \A f \in Own(t)' : table'[f] = table[f]
                       /\ \A n \in ToClose(t)' : connections'[t][n] \in {connections[t][n], NoFd}
                       /\ \A n \in ToClose(t)' : is_sending'[t][n] = is_sending[t][n],
         NoFd \notin Own(t)'
  PROVE  LoopOwn(t)'
<1>1. CASE InLoop(t)'
  BY <1>1 DEF LoopOwn
<1>2. CASE ~InLoop(t)'
  BY <1>2 DEF LoopOwn
<1> QED
  BY <1>1, <1>2

LEMMA SendKeepsLoop ==
  ASSUME PlaceInv, UniqueInv, NEW t \in Threads, OwnHeld(t), LoopOwn(t), ClosedLoop, ~foreign,
         Send(t), ~foreign', pc'[t] # "killed", NoFd \notin Own(t)'
  PROVE  LoopOwn(t)' /\ ClosedLoop'
         /\ \A s \in Sockets : Owner(s) # t => unanswered'[s] = unanswered[s]
<1>0. /\ UNCHANGED <<table, fd, connections>> /\ pc[t] = "send" /\ AtEntry(t) /\ InLoop(t)
      /\ i[t] \in Indices(t)
  BY DEF Send, AtEntry, InLoop, PlaceInv, Placed
<1>1. ToClose(t)' = ToClose(t) /\ ToClose(t) = Indices(t) /\ Own(t)' = Own(t) /\ ~Connecting(t)'
  <2>1. pc'[t] \in {"recv", "close_broken"}
    BY DEF Send, NextConnection, Goto, PlaceInv, TypeOK
  <2> QED
    BY <1>0, <2>1 DEF ToClose, Indices, NumConnections, Own, Connecting
<1>2. CASE UNCHANGED <<is_sending, unanswered>>
  <2>1. LoopOwn(t)'
    BY <1>0, <1>1, <1>2, MovesOnLoop
  <2> QED
    BY <1>2, <2>1, ForeignStays DEF ClosedLoop
<1>3. CASE /\ Uses(t, fd[t]) /\ Connected(fd[t]) /\ MaySend(t) /\ AwaitPage(t)
           /\ unanswered' = [unanswered EXCEPT ![table[fd[t]]] = @ + 1]
  <2> DEFINE S == table[fd[t]]
  <2>1. fd[t] \in Own(t) /\ S \in Sockets /\ Owner(S) = t /\ ConnFd(t) = fd[t]
    BY <1>0, <1>3, OwnUsed DEF Connected, OwnHeld
  <2>2. i[t] \in ToClose(t) /\ connections[t][i[t]] = fd[t] /\ is_sending[t][i[t]]
    BY <1>0, <1>1, <1>3, <2>1 DEF ConnFd, MaySend
  <2>3. unanswered[S] = 0
    BY <1>0, <2>1, <2>2 DEF LoopOwn
  <2>4. /\ unanswered' = [unanswered EXCEPT ![S] = @ + 1]
        /\ unanswered \in [Sockets -> Nat]
    BY <1>3 DEF PlaceInv, TypeOK
  <2> HIDE DEF S
  <2>5. /\ \A s \in Sockets : unanswered'[s] = IF s = S THEN 1 ELSE unanswered[s]
    BY <2>1, <2>3, <2>4
  <2>6. ClosedLoop'
    BY <2>5 DEF ClosedLoop
  <2>7. i[t] \in 1 .. Len(is_sending[t]) /\ Indices(t) = 1 .. Len(is_sending[t])
    BY <1>0 DEF PlaceInv, Placed, Indices
  <2>8. \A n \in Indices(t) : is_sending'[t][n] = IF n = i[t] THEN FALSE ELSE is_sending[t][n]
    BY <1>3, <2>7, SendingSet DEF AwaitPage
  <2>9. ASSUME NEW n \in ToClose(t), connections[t][n] \in Own(t), is_sending'[t][n]
        PROVE  unanswered'[table[connections[t][n]]] = 0
    <3>1. n # i[t] /\ is_sending[t][n]
      BY <1>1, <2>8, <2>9
    <3>2. connections[t][n] # fd[t]
      BY <2>2, <2>9, <3>1, OwnIsOpen DEF OwnHeld
    <3>3. table[connections[t][n]] # S /\ table[connections[t][n]] \in Sockets
      BY <2>1, <2>9, <3>2 DEF S, UniqueInv, Own, PlaceInv, TypeOK
    <3> QED
      BY <1>0, <2>5, <2>9, <3>1, <3>3 DEF LoopOwn
  <2>10. LoopOwn(t)'
    BY <1>0, <1>1, <2>9 DEF LoopOwn
  <2> QED
    BY <2>1, <2>5, <2>6, <2>10
<1> QED
  BY <1>2, <1>3 DEF Send

LEMMA RecvKeepsLoop ==
  ASSUME PlaceInv, NEW t \in Threads, LoopOwn(t), ClosedLoop, ~foreign,
         Recv(t), ~foreign', NoFd \notin Own(t)'
  PROVE  LoopOwn(t)' /\ ClosedLoop'
         /\ \A s \in Sockets : Owner(s) # t => unanswered'[s] = unanswered[s]
<1>0. /\ UNCHANGED <<table, i, connections>> /\ pc[t] = "recv" /\ InLoop(t)
      /\ pc'[t] \in {"send", "close_lost"}
  BY DEF Recv, InLoop, Goto, PlaceInv, TypeOK
<1>1. ToClose(t)' = ToClose(t) /\ ToClose(t) = Indices(t) /\ Own(t)' = Own(t) /\ ~Connecting(t)'
  BY <1>0 DEF ToClose, Indices, NumConnections, Own, Connecting
<1>2. CASE UNCHANGED <<is_sending, unanswered>>
  <2>1. LoopOwn(t)'
    BY <1>0, <1>1, <1>2, MovesOnLoop
  <2> QED
    BY <1>2, <2>1 DEF ClosedLoop
<1>3. CASE /\ Uses(t, ConnFd(t)) /\ Connected(ConnFd(t)) /\ SetSending(t, TRUE)
           /\ unanswered' = [unanswered EXCEPT ![table[ConnFd(t)]] = 0]
  <2> DEFINE S == table[ConnFd(t)]
  <2>1. S \in Sockets /\ Owner(S) = t
    BY <1>3, OwnUsed DEF Connected
  <2>2. /\ unanswered' = [unanswered EXCEPT ![S] = 0]
        /\ unanswered \in [Sockets -> Nat]
        /\ S = table[connections[t][i[t]]]
    BY <1>3 DEF PlaceInv, TypeOK, ConnFd
  <2> HIDE DEF S
  <2>3. \A s \in Sockets : unanswered'[s] = IF s = S THEN 0 ELSE unanswered[s]
    BY <2>2
  <2>4. ClosedLoop'
    BY <2>3 DEF ClosedLoop
  <2>5. Indices(t) = 1 .. Len(is_sending[t]) /\ NumConnections(t) \in Nat /\ i[t] \in Nat \ {0}
    BY <1>0, LenProperties DEF PlaceInv, TypeOK, Placed, Indices, NumConnections
  <2>6. i[t] \in 1 .. Len(is_sending[t])
    BY <2>5 DEF Recv, Indices
  <2>7. \A n \in Indices(t) : is_sending'[t][n] = IF n = i[t] THEN TRUE ELSE is_sending[t][n]
    <3>1. \A n \in 1 .. Len(is_sending[t]) :
            is_sending'[t][n] = IF n = i[t] THEN TRUE ELSE is_sending[t][n]
      BY <1>3, <2>6, SendingSet
    <3> QED
      BY <2>5, <3>1
  <2>8. ASSUME NEW n \in ToClose(t), connections[t][n] \in Own(t), is_sending'[t][n]
        PROVE  unanswered'[table[connections[t][n]]] = 0
    <3>1. table[connections[t][n]] \in Sockets
      BY <2>8 DEF Own, PlaceInv, TypeOK
    <3>2. CASE n = i[t]
      BY <2>2, <2>3, <3>1, <3>2
    <3>3. CASE n # i[t]
      <4>1. is_sending[t][n]
        BY <1>1, <2>7, <2>8, <3>3
      <4>2. unanswered[table[connections[t][n]]] = 0
        BY <1>0, <2>8, <4>1 DEF LoopOwn
      <4> QED
        BY <2>3, <3>1, <4>2
    <3> QED
      BY <3>2, <3>3
  <2>9. LoopOwn(t)'
    BY <1>0, <1>1, <2>8 DEF LoopOwn
  <2> QED
    BY <2>1, <2>3, <2>4, <2>9
<1> QED
  BY <1>2, <1>3 DEF Recv

LEMMA ClosingKeepsLoop ==
  ASSUME PlaceInv, NEW t \in Threads, LoopOwn(t), CloseLost(t) \/ CloseBroken(t), NoFd \notin Own(t)'
  PROVE  LoopOwn(t)'
<1>1. /\ AtEntry(t) /\ i[t] \in Indices(t) /\ Forget(t) /\ Close(t, fd[t])
      /\ UNCHANGED <<is_sending, unanswered>> /\ pc'[t] \in {"send", "recv"}
  BY DEF CloseLost, CloseBroken, CloseAndForget, NextConnection, Goto, AtEntry, PlaceInv, Placed, TypeOK
<1>2. /\ NumConnections(t)' = NumConnections(t)
      /\ \A n \in Indices(t) :
           connections'[t][n] = IF n = i[t] THEN NoFd ELSE connections[t][n]
  BY <1>1, Forgotten
<1>3. /\ ToClose(t)' = ToClose(t) /\ ToClose(t) \subseteq Indices(t) /\ InLoop(t) /\ ~Connecting(t)'
  BY <1>1, <1>2 DEF ToClose, Indices, AtEntry, InLoop, Connecting
<1>4. Own(t)' \subseteq Own(t) /\ \A f \in Own(t)' : table'[f] = table[f]
  <2>1. Close(t, fd[t])
    BY <1>1
  <2>2. Own(t)' = Own(t) \ {fd[t]}
    BY <2>1, OwnClosed
  <2>3. \A f \in DOMAIN table' : table'[f] = table[f]
    BY <2>1, Closed
  <2>4. Own(t)' \subseteq DOMAIN table'
    BY DEF Own
  <2> QED
    BY <2>2, <2>3, <2>4
<1> QED
  BY <1>1, <1>2, <1>3, <1>4, MovesOnLoop

(* The vector is not used before setup_buffers, nor after the loop. *)
LEMMA SetupKeepsLoop ==
  ASSUME PlaceInv, NEW t \in Threads, LoopOwn(t), Setup(t)
  PROVE  LoopOwn(t)'
<1>1. /\ UNCHANGED <<table, unanswered>> /\ Connecting(t) /\ ~Connecting(t)'
  BY DEF Setup, TestTime, Goto, PlaceInv, TypeOK, Connecting, historyVars
<1>2. \A f \in Own(t)' : table'[f] \in Sockets /\ Owner(table'[f]) = t
  BY <1>1 DEF Own, PlaceInv, TypeOK
<1> QED
  BY <1>1, <1>2 DEF LoopOwn

LEMMA NextKeepsLoop == PlaceInv /\ UniqueInv /\ OwnInv /\ LoopInv /\ [Next]_vars => LoopInv'
<1> SUFFICES ASSUME PlaceInv, UniqueInv, OwnInv, LoopInv, [Next]_vars, ~foreign'
             PROVE  ClosedLoop' /\ \A u \in Threads : LoopOwn(u)'
  BY DEF LoopInv
<1>1. ~foreign /\ ClosedLoop /\ \A u \in Threads : OwnHeld(u) /\ LoopOwn(u)
  BY ForeignStays DEF OwnInv, LoopInv
<1>2. ASSUME NEW u \in Threads PROVE NoFd \notin Own(u)'
  <2>1. DOMAIN table' \subseteq Fds
    BY NextKeepsPlace DEF PlaceInv, TypeOK
  <2>2. NoFd \notin Fds
    BY PollClientAssumption DEF NoFd
  <2> QED
    BY <2>1, <2>2 DEF Own
<1>3. ASSUME NEW t \in Threads, Thread(t) \/ PollFails(t), Elsewhere(t), pc'[t] # "killed"
      PROVE  LoopOwn(t)' /\ ClosedLoop'
             /\ \A s \in Sockets : Owner(s) # t => unanswered'[s] = unanswered[s]
  <2>1. CASE Send(t)
    BY <1>1, <1>2, <1>3, <2>1, SendKeepsLoop
  <2>2. CASE Recv(t)
    BY <1>1, <1>2, <2>2, RecvKeepsLoop
  <2>3. CASE ~Send(t) /\ ~Recv(t)
    <3>1. UNCHANGED unanswered
      BY <1>3, <2>3
      DEF Thread, Socket, Connect, CloseUnconnected, Setup, Poll, PollFails, EndPass, CloseLost,
          CloseBroken, Cleanup, historyVars
    <3>2. ASSUME CloseLost(t) \/ CloseBroken(t) PROVE LoopOwn(t)'
      BY <1>1, <1>2, <3>2, ClosingKeepsLoop
    <3>3. ASSUME Setup(t) PROVE LoopOwn(t)'
      BY <1>1, <3>3, SetupKeepsLoop
    <3>4. ASSUME Socket(t) \/ Connect(t) \/ CloseUnconnected(t) PROVE LoopOwn(t)'
      <4>1. Connecting(t) /\ ~InLoop(t)'
        BY <3>4 DEF Socket, Connect, CloseUnconnected, Goto, Connecting, InLoop, PlaceInv, TypeOK
      <4> QED
        BY <1>1, <1>2, <3>1, <4>1, MovesOnLoop
    <3>5. ASSUME Poll(t) \/ PollFails(t) \/ EndPass(t) PROVE LoopOwn(t)'
      <4>1. UNCHANGED <<table, connections, is_sending>> /\ InLoop(t) /\ ~Connecting(t)'
        BY <3>5 DEF Poll, PollFails, EndPass, TestTime, Goto, Connecting, InLoop, PlaceInv, TypeOK,
                    localVars
      <4>2. ToClose(t)' \subseteq ToClose(t)
        BY <4>1 DEF ToClose, Indices, NumConnections, InLoop
      <4>3. Own(t)' = Own(t) /\ Own(t) \subseteq DOMAIN table
        BY <4>1 DEF Own
      <4> QED
        BY <1>1, <1>2, <3>1, <4>1, <4>2, <4>3, MovesOnLoop
    <3>6. ASSUME Cleanup(t) PROVE LoopOwn(t)'
      <4>1. ~Connecting(t)' /\ ~InLoop(t)'
        BY <3>6 DEF Cleanup, Goto, Connecting, InLoop, PlaceInv, TypeOK
      <4> QED
        BY <4>1 DEF LoopOwn
    <3>7. LoopOwn(t)'
      BY <1>3, <2>3, <3>2, <3>3, <3>4, <3>5, <3>6 DEF Thread
    <3> QED
      BY <1>1, <3>1, <3>7 DEF ClosedLoop
  <2> QED
    BY <2>1, <2>2, <2>3
<1>4. ASSUME NEW t \in Threads, Thread(t) \/ PollFails(t), Elsewhere(t), pc'[t] # "killed"
      PROVE  ClosedLoop' /\ \A u \in Threads : LoopOwn(u)'
  <2>1. LoopOwn(t)' /\ ClosedLoop'
        /\ \A s \in Sockets : Owner(s) # t => unanswered'[s] = unanswered[s]
    BY <1>3, <1>4
  <2>2. ASSUME NEW u \in Threads, u # t PROVE LoopOwn(u)'
    <3>1. Own(u)' = Own(u) /\ \A f \in Own(u) : table'[f] = table[f]
      BY <1>4, <2>2, OthersOwn
    <3> QED
      BY <1>1, <1>4, <2>1, <2>2, <3>1, OthersLoop
  <2> QED
    BY <2>1, <2>2
<1>5. ASSUME NEW t \in Threads, Killed, Send(t)
      PROVE  ClosedLoop' /\ \A u \in Threads : LoopOwn(u)'
  <2>1. UNCHANGED unanswered
    BY <1>5 DEF Killed, Send, NextConnection, Goto, PlaceInv, TypeOK
  <2>2. \A u \in Threads : ~Connecting(u)' /\ ~InLoop(u)'
    BY <1>5 DEF Killed, Connecting, InLoop
  <2> QED
    BY <1>1, <2>1, <2>2 DEF LoopOwn, ClosedLoop
<1>6. CASE ServerCloses \/ Tick \/ UNCHANGED vars
  <2>1. UNCHANGED <<table, pc, i, connections, is_sending, unanswered>>
    BY <1>6 DEF ServerCloses, Tick, localVars, historyVars, vars
  <2> QED
    BY <1>1, <2>1 DEF LoopOwn, ClosedLoop, Own, Connecting, InLoop, ToClose, Indices, NumConnections
<1>7. ASSUME NEW t \in Threads, Thread(t) \/ PollFails(t)
      PROVE  (Killed /\ Send(t)) \/ (Elsewhere(t) /\ pc'[t] # "killed")
  <2>1. Elsewhere(t) \/ (Killed /\ Send(t))
    BY <1>7, StepIsLocal
  <2>2. ~Killed => pc'[t] # "killed"
    BY <1>7
    DEF Thread, Socket, Connect, CloseUnconnected, Setup, Poll, PollFails, EndPass, Recv, CloseLost,
        Send, CloseBroken, Cleanup, Killed, TestTime, NextConnection, Goto, PlaceInv, TypeOK
  <2>3. Killed => Send(t) \/ pc'[t] # "killed"
    BY <1>7
    DEF Thread, Socket, Connect, CloseUnconnected, Setup, Poll, PollFails, EndPass, Recv, CloseLost,
        CloseBroken, Cleanup, TestTime, NextConnection, Goto, PlaceInv, TypeOK
  <2> QED
    BY <2>1, <2>2, <2>3
<1> QED
  BY <1>4, <1>5, <1>6, <1>7 DEF Next, Terminated

(***************************************************************************)
(* Early losses.                                                           *)
(***************************************************************************)

(* A thread that still uses the number of a connection it has closed uses  *)
(* one that is free and stays so.                                          *)
StaleOwn(t) ==
  AtEntry(t) /\ ConnFd(t) # fd[t] => ~Open(fd[t]) /\ \A u \in Threads : ~Connecting(u)

StaleInv == ~earlyLoss => ~foreign /\ \A t \in Threads : StaleOwn(t)

LEMMA NumbersUsed ==
  ASSUME PlaceInv, NEW t \in Threads, OwnHeld(t), StaleOwn(t), ~foreign,
         Thread(t) \/ PollFails(t)
  PROVE  ~foreign'
<1>1. ASSUME NEW f \in Own(t) \cup {NoFd}, Uses(t, f) PROVE ~foreign'
  BY <1>1, OwnerIsThread DEF Uses, Own, Open
<1>2. ASSUME i[t] \in ToClose(t) PROVE ConnFd(t) \in Own(t) \cup {NoFd}
  BY <1>2 DEF OwnHeld, ConnFd
<1>3. ASSUME Opening(t) PROVE fd[t] \in Own(t)
  BY <1>3 DEF OwnHeld
<1>4. ASSUME AtEntry(t), Uses(t, fd[t]) PROVE ~foreign'
  <2>1. i[t] \in ToClose(t)
    BY <1>4 DEF PlaceInv, Placed, ToClose, AtEntry
  <2>2. CASE ConnFd(t) = fd[t]
    BY <1>1, <1>2, <1>4, <2>1, <2>2
  <2>3. CASE ConnFd(t) # fd[t]
    BY <1>4, <2>3 DEF StaleOwn, Uses
  <2> QED
    BY <2>2, <2>3
<1>5. ASSUME pc[t] \in {"recv", "cleanup"}, i[t] <= NumConnections(t) PROVE i[t] \in ToClose(t)
  <2>1. i[t] \in Nat \ {0} /\ NumConnections(t) \in Nat
    BY LenProperties DEF PlaceInv, TypeOK, NumConnections
  <2> QED
    BY <1>5, <2>1 DEF ToClose, Indices
<1>6. CASE Connect(t) \/ CloseUnconnected(t)
  BY <1>1, <1>3, <1>6 DEF Connect, CloseUnconnected, Opening, Close
<1>7. CASE Recv(t)
  BY <1>1, <1>2, <1>5, <1>7 DEF Recv
<1>8. CASE CloseLost(t) \/ CloseBroken(t) \/ Send(t)
  BY <1>4, <1>8 DEF CloseLost, CloseBroken, CloseAndForget, Close, Send, AtEntry
<1>9. CASE Cleanup(t)
  <2>1. NumConnections(t) \in Nat /\ i[t] \in Nat
    BY LenProperties DEF PlaceInv, TypeOK, NumConnections
  <2> QED
    BY <1>1, <1>2, <1>5, <1>9, <2>1 DEF Cleanup, Close, ConnFd
<1>10. CASE Socket(t) \/ Setup(t) \/ Poll(t) \/ PollFails(t) \/ EndPass(t)
  BY <1>10 DEF Socket, Setup, Poll, PollFails, EndPass, historyVars
<1> QED
  BY <1>6, <1>7, <1>8, <1>9, <1>10 DEF Thread

LEMMA NextKeepsStale == PlaceInv /\ OwnInv /\ StaleInv /\ [Next]_vars => StaleInv'
<1> SUFFICES ASSUME PlaceInv, OwnInv, StaleInv, [Next]_vars, ~earlyLoss'
             PROVE  ~foreign' /\ \A u \in Threads : StaleOwn(u)'
  BY DEF StaleInv
<1>1. ~earlyLoss
  <2>1. ASSUME NEW t \in Threads, Thread(t) \/ PollFails(t) PROVE ~earlyLoss
    <3>1. CASE Socket(t) \/ Setup(t) \/ Poll(t) \/ PollFails(t) \/ EndPass(t)
      BY <3>1 DEF Socket, Setup, Poll, PollFails, EndPass, historyVars
    <3>2. CASE Connect(t) \/ CloseUnconnected(t) \/ Cleanup(t) \/ Recv(t)
      BY <3>2 DEF Connect, CloseUnconnected, Cleanup, Recv
    <3>3. CASE Send(t) \/ CloseLost(t) \/ CloseBroken(t)
      BY <3>3 DEF Send, CloseLost, CloseBroken
    <3> QED
      BY <2>1, <3>1, <3>2, <3>3 DEF Thread
  <2>2. CASE ServerCloses \/ Tick \/ UNCHANGED vars
    BY <2>2 DEF ServerCloses, Tick, historyVars, vars
  <2> QED
    BY <2>1, <2>2 DEF Next, Terminated
<1>2. ~foreign /\ \A u \in Threads : OwnHeld(u) /\ StaleOwn(u)
  BY <1>1 DEF StaleInv, OwnInv
(* Nobody begins to connect; and while nobody connects, nothing is opened. *)
<1>3. ASSUME NEW u \in Threads, ~Connecting(u) PROVE ~Connecting(u)'
  <2>1. ASSUME NEW t \in Threads, Thread(t) \/ PollFails(t) PROVE ~Connecting(u)'
    <3>1. CASE Elsewhere(t) /\ u # t
      BY <1>3, <3>1 DEF Elsewhere, Connecting
    <3>2. CASE u = t
      <4>1. CASE Socket(t) \/ Connect(t) \/ CloseUnconnected(t)
        BY <1>3, <3>2, <4>1 DEF Socket, Connect, CloseUnconnected, Connecting
      <4>2. CASE Setup(t) \/ Poll(t) \/ PollFails(t) \/ EndPass(t)
        BY <1>3, <3>2, <4>2
        DEF Setup, Poll, PollFails, EndPass, Connecting, Goto, TestTime, PlaceInv, TypeOK
      <4>3. CASE Recv(t) \/ CloseLost(t)
        BY <3>2, <4>3 DEF Recv, CloseLost, Connecting, Goto, PlaceInv, TypeOK
      <4>4. CASE Send(t)
        BY <3>2, <4>4 DEF Send, NextConnection, Connecting, Goto, PlaceInv, TypeOK
      <4>5. CASE CloseBroken(t) \/ Cleanup(t)
        BY <3>2, <4>5 DEF CloseBroken, NextConnection, Cleanup, Connecting, Goto, PlaceInv, TypeOK
      <4> QED
        BY <2>1, <4>1, <4>2, <4>3, <4>4, <4>5 DEF Thread
    <3>3. CASE Killed
      BY <3>3 DEF Killed, Connecting
    <3> QED
      BY <2>1, <3>1, <3>2, <3>3, StepIsLocal
  <2>2. CASE ServerCloses \/ Tick \/ UNCHANGED vars
    BY <1>3, <2>2 DEF ServerCloses, Tick, vars, Connecting
  <2> QED
    BY <2>1, <2>2 DEF Next, Terminated
<1>4. ASSUME \A u \in Threads : ~Connecting(u) PROVE DOMAIN table' \subseteq DOMAIN table
  <2>1. ASSUME NEW t \in Threads, Thread(t) \/ PollFails(t) PROVE DOMAIN table' \subseteq DOMAIN table
    <3>1. CASE Socket(t) \/ Connect(t) \/ CloseUnconnected(t)
      BY <1>4, <3>1 DEF Socket, Connect, CloseUnconnected, Connecting
    <3>2. CASE Setup(t) \/ Poll(t) \/ PollFails(t) \/ EndPass(t) \/ Recv(t) \/ Send(t)
      BY <3>2 DEF Setup, Poll, PollFails, EndPass, Recv, Send
    <3>3. CASE CloseLost(t) \/ CloseBroken(t) \/ Cleanup(t)
      BY <3>3 DEF CloseLost, CloseBroken, CloseAndForget, Cleanup, Close
    <3> QED
      BY <2>1, <3>1, <3>2, <3>3 DEF Thread
  <2>2. CASE ServerCloses \/ Tick \/ UNCHANGED vars
    BY <2>2 DEF ServerCloses, Tick, vars
  <2> QED
    BY <2>1, <2>2 DEF Next, Terminated
<1>5. ASSUME NEW u \in Threads, pc'[u] = pc[u], i'[u] = i[u], fd'[u] = fd[u],
             connections'[u] = connections[u]
      PROVE  StaleOwn(u)'
  BY <1>2, <1>3, <1>4, <1>5 DEF StaleOwn, AtEntry, ConnFd, Open
<1>6. ASSUME NEW t \in Threads, Thread(t) \/ PollFails(t), Elsewhere(t) PROVE StaleOwn(t)'
  <2>1. CASE Recv(t)
    BY <2>1 DEF Recv, StaleOwn, ConnFd, PlaceInv, TypeOK
  <2>2. CASE Send(t)
    <3>1. /\ UNCHANGED <<connections, fd, table>> /\ AtEntry(t)
          /\ pc'[t] \in {"recv", "killed"} \/ UNCHANGED i
      BY <2>2 DEF Send, AtEntry, NextConnection, Goto, PlaceInv, TypeOK
    <3>2. CASE pc'[t] \in {"recv", "killed"}
      BY <3>2 DEF StaleOwn, AtEntry
    <3>3. CASE UNCHANGED i
      BY <1>2, <1>3, <3>1, <3>3 DEF StaleOwn, ConnFd, Open
    <3> QED
      BY <3>1, <3>2, <3>3
  <2>3. CASE CloseLost(t)
    <3>1. /\ Close(t, fd[t]) /\ pc'[t] = "send"
          /\ \A u \in Threads \ {t} : ~Connecting(u)
      BY <2>3 DEF CloseLost, CloseAndForget, Goto, PlaceInv, TypeOK
    <3>2. fd'[t] = fd[t] /\ ~Connecting(t)'
      BY <2>3, <3>1 DEF CloseLost, Connecting
    <3> QED
      BY <1>3, <3>1, <3>2 DEF StaleOwn, Open, Close
  <2>4. CASE ~Recv(t) /\ ~Send(t) /\ ~CloseLost(t)
    <3>1. pc'[t] \notin {"close_lost", "send", "close_broken"}
      BY <1>6, <2>4
      DEF Thread, Socket, Connect, CloseUnconnected, Setup, Poll, PollFails, EndPass,
          CloseBroken, Cleanup, TestTime, NextConnection, Goto, PlaceInv, TypeOK
    <3> QED
      BY <3>1 DEF StaleOwn, AtEntry
  <2> QED
    BY <2>1, <2>2, <2>3, <2>4
<1>7. ASSUME NEW t \in Threads, Thread(t) \/ PollFails(t)
      PROVE  ~foreign' /\ \A u \in Threads : StaleOwn(u)'
  <2>1. ~foreign'
    BY <1>2, <1>7, NumbersUsed
  <2>2. CASE Killed
    BY <2>1, <2>2 DEF Killed, StaleOwn, AtEntry
  <2>3. CASE Elsewhere(t)
    BY <1>5, <1>6, <1>7, <2>1, <2>3 DEF Elsewhere
  <2> QED
    BY <1>7, <2>2, <2>3, StepIsLocal
<1>8. CASE ServerCloses \/ Tick \/ UNCHANGED vars
  <2>1. UNCHANGED <<pc, i, fd, connections, foreign>>
    BY <1>8 DEF ServerCloses, Tick, localVars, historyVars, vars
  <2> QED
    BY <1>2, <1>5, <2>1
<1> QED
  BY <1>7, <1>8 DEF Next, Terminated

(***************************************************************************)
(* The theorems.                                                           *)
(***************************************************************************)

IInv == PlaceInv /\ HeldInv /\ UniqueInv /\ OwnInv /\ LoopInv /\ StaleInv

LEMMA InitIInv == Init => IInv
<1> SUFFICES ASSUME Init PROVE IInv
  OBVIOUS
<1>1. PlaceInv
  BY InitPlace
<1>2. /\ DOMAIN table = {}
      /\ \A t \in Threads : Len(connections[t]) = 0 /\ pc[t] = "socket" /\ i[t] = 1
  <2>1. Len(<<>>) = 0 /\ DOMAIN <<>> = {}
    OBVIOUS
  <2> QED
    BY <2>1 DEF Init
<1>3. ASSUME NEW t \in Threads PROVE ToClose(t) = {} /\ ~Opening(t) /\ ~AtEntry(t) /\ ~InLoop(t)
  <2>1. NumConnections(t) = 0 /\ pc[t] = "socket"
    BY <1>2 DEF NumConnections
  <2> QED
    BY <2>1 DEF ToClose, Indices, Opening, AtEntry, InLoop
<1>4. \A s \in Sockets : unanswered[s] = 0
  BY DEF Init
<1> QED
  BY <1>1, <1>2, <1>3, <1>4
  DEF IInv, HeldInv, UniqueInv, OwnInv, OwnHeld, LoopInv, LoopOwn, ClosedLoop, StaleInv, StaleOwn, Init

(* The inductive invariant of the poll client: the numbers its threads     *)
(* hold, whose sockets they denote, and what is unanswered on them.        *)
THEOREM HoldingsInvariant == Spec => []IInv
<1>1. IInv /\ [Next]_vars => IInv'
  BY NextKeepsPlace, NextKeepsHeld, NextKeepsUnique, NextKeepsOwn, NextKeepsLoop, NextKeepsStale DEF IInv
<1> QED
  BY <1>1, InitIInv, PTL DEF Spec

(* However many threads and connections there are, whatever fails and      *)
(* whoever closes whose numbers: a thread that has ended has left none of  *)
(* its sockets open (client_s.cpp:137, 152, 275).                          *)
THEOREM NothingLeaksAlways == Spec => []NothingLeaks
<1>1. IInv => NothingLeaks
  <2> SUFFICES ASSUME IInv PROVE NothingLeaks
    OBVIOUS
  <2>1. ASSUME NEW t \in Threads, pc[t] = "done" PROVE \A f : ~Holds(t, f)
    BY <2>1 DEF Holds, Opening, ToClose
  <2> QED
    BY <2>1 DEF IInv, PlaceInv, HeldInv, NothingLeaks
<1> QED
  BY <1>1, HoldingsInvariant, PTL

(* No thread gets at a socket of another before a connection is lost while *)
(* others are connecting (client_s.cpp:137, 152).                          *)
THEOREM ForeignOnlyAfterEarlyLossAlways == Spec => []ForeignOnlyAfterEarlyLoss
<1>1. IInv => ForeignOnlyAfterEarlyLoss
  BY DEF IInv, StaleInv, ForeignOnlyAfterEarlyLoss
<1> QED
  BY <1>1, HoldingsInvariant, PTL

(* On no connection are two requests unanswered, as long as every thread   *)
(* keeps to its sockets (client_s.cpp:134, 143, 149).                      *)
THEOREM ClosedLoopAlways == Spec => []ClosedLoop
<1>1. IInv => ClosedLoop
  BY DEF IInv, LoopInv, ClosedLoop
<1> QED
  BY <1>1, HoldingsInvariant, PTL
=============================================================================
