-------------------------- MODULE UringServerProofs -------------------------
(***************************************************************************)
(* What UringServer promises for every number of connections, buffers,     *)
(* ring entries and calls of handle_connection, and in every scenario.     *)
(***************************************************************************)
EXTENDS UringServer, CountLemmas

(* A completion with result 0 that is true to its meaning.                 *)
TrueCqes == {cqe \in Cqes : cqe.res = "none" => cqe.notif \/ cqe.data.fd \in closed}

(* The message about a closed connection is about the first completion.    *)
ClosedIsFirst == lastExit = "closed" => cq # <<>> /\ Head(cq).res = "none"

(* What the total reported counts while handle_connection has been called  *)
(* once at most.                                                           *)
FirstReport ==
  /\ passes = 0 => sent = 0 /\ message_count = 0 /\ result_total = 0
                   /\ pc \in {"outer", "exited"}
  /\ passes = 1 => /\ message_count = sent
                   /\ pc \in {"outer", "exited"} => result_total = sent

ServerInv == TypeOK /\ cq \in Seq(TrueCqes) /\ ClosedIsFirst /\ FirstReport

(* Taking element i out of a sequence keeps its type (io_uring).           *)
LEMMA RemoveAtType ==
  ASSUME NEW S, NEW s \in Seq(S), NEW i \in DOMAIN s
  PROVE  RemoveAt(s, i) \in Seq(S)
<1>1. Len(s) \in Nat /\ i \in 1 .. Len(s)
  BY LenProperties
<1>2. SubSeq(s, 1, i - 1) \in Seq(S) /\ SubSeq(s, i + 1, Len(s)) \in Seq(S)
  BY <1>1, SubSeqProperties
<1> QED
  BY <1>2, ConcatProperties DEF RemoveAt

(* A submit moves entries of the ring's type.                              *)
LEMMA SubmitType ==
  ASSUME NEW pending \in Seq(Ops), kernel \in Seq(Ops),
         NEW k \in Accepted(pending), Submit(pending, k)
  PROVE  sq' \in Seq(Ops) /\ kernel' \in Seq(Ops)
<1>1. Len(pending) \in Nat
  BY LenProperties
<1>2. k \in 0 .. Len(pending)
  BY <1>1 DEF Accepted
<1>3. SubSeq(pending, 1, k) \in Seq(Ops) /\ SubSeq(pending, k + 1, Len(pending)) \in Seq(Ops)
  BY <1>1, <1>2, SubSeqProperties
<1> QED
  BY <1>3, ConcatProperties DEF Submit

(* An iteration takes the first completion out of the ring, puts entries   *)
(* in, and goes on or breaks (server.cpp:558-575).                         *)
LEMMA EndIterationType ==
  ASSUME NEW prepared \in Seq(Ops), NEW n \in Int, NEW S,
         sq \in Seq(Ops), kernel \in Seq(Ops), cq \in Seq(S), cq # <<>>,
         EndIteration(prepared, n)
  PROVE  /\ sq' \in Seq(Ops) /\ kernel' \in Seq(Ops) /\ cq' \in Seq(S)
         /\ inflight' = n
         /\ \/ pc' = "top" /\ lastExit' = lastExit
            \/ pc' = "leave" /\ lastExit' \in {"drained", "submit"}
<1>1. cq' \in Seq(S) /\ inflight' = n
  BY HeadTailProperties DEF EndIteration
<1>2. CASE prepared = <<>>
  BY <1>1, <1>2 DEF EndIteration, Break
<1>3. CASE prepared # <<>>
  <2>1. PICK k \in Accepted(sq \o prepared) :
          /\ Submit(sq \o prepared, k)
          /\ \/ pc' = "top" /\ lastExit' = lastExit
             \/ pc' = "leave" /\ lastExit' \in {"drained", "submit"}
    BY <1>3 DEF EndIteration, Break
  <2>2. sq \o prepared \in Seq(Ops)
    BY ConcatProperties
  <2> QED
    BY <1>1, <2>1, <2>2, SubmitType
<1> QED
  BY <1>2, <1>3

(* What a step does to the counters of the report. *)
CountsOn == message_count' = message_count + 1 /\ sent' = sent + 1
CountsKept == UNCHANGED <<message_count, sent>>

(* A handler that goes on: the completion at hand is not the end of a      *)
(* stream, so the message cannot have been about it.                       *)
LEMMA GoesOn ==
  ASSUME ServerInv, Handling, Cqe.res # "none",
         NEW prepared \in Seq(Ops), NEW n \in Int, EndIteration(prepared, n),
         UNCHANGED <<worldVars, result_total, passes>>,
         CountsOn \/ CountsKept, received' \in Nat, refusals' \in Nat
  PROVE  ServerInv'
<1>1. /\ TypeOK /\ cq \in Seq(TrueCqes) /\ cq # <<>>
      /\ sq \in Seq(Ops) /\ kernel \in Seq(Ops) /\ cq \in Seq(Cqes)
  BY DEF ServerInv, TypeOK, Handling
<1>2. /\ sq' \in Seq(Ops) /\ kernel' \in Seq(Ops) /\ cq' \in Seq(Cqes)
      /\ inflight' = n
      /\ \/ pc' = "top" /\ lastExit' = lastExit
         \/ pc' = "leave" /\ lastExit' \in {"drained", "submit"}
  BY <1>1, EndIterationType
<1>3. cq' \in Seq(TrueCqes)
  BY <1>1, EndIterationType
<1>4. TrueCqes' = TrueCqes
  BY DEF TrueCqes, worldVars
<1>5. message_count \in Nat /\ sent \in Nat /\ message_count' \in Nat /\ sent' \in Nat
  BY <1>1 DEF TypeOK, CountsOn, CountsKept
<1>6. TypeOK'
  BY <1>1, <1>2, <1>5 DEF TypeOK, worldVars
<1>7. ClosedIsFirst'
  BY <1>2 DEF ServerInv, ClosedIsFirst, Cqe
<1>8. FirstReport'
  <2>1. pc = "blocked" /\ passes' = passes
    BY DEF Handling
  <2>2. passes # 0
    BY <2>1 DEF ServerInv, FirstReport
  <2>3. passes = 1 => message_count' = sent'
    BY <1>5 DEF ServerInv, FirstReport, CountsOn, CountsKept
  <2> QED
    BY <1>2, <2>1, <2>2, <2>3 DEF FirstReport
<1> QED
  BY <1>3, <1>4, <1>6, <1>7, <1>8 DEF ServerInv

(* Whatever breaks out of the loop leaves the completion where it is.      *)
LEMMA BreaksOff ==
  ASSUME ServerInv, pc \in {"top", "blocked"},
         NEW why \in {"sqe", "deadline", "wait", "error", "closed"}, Break(why),
         why = "closed" => cq # <<>> /\ Head(cq).res = "none",
         UNCHANGED <<worldVars, cq, result_total, passes>>, CountsKept,
         sq' \in Seq(Ops), kernel' \in Seq(Ops), inflight' \in Int,
         received' \in Nat, refusals' \in Nat
  PROVE  ServerInv'
<1>1. TypeOK
  BY DEF ServerInv
<1>2. TrueCqes' = TrueCqes
  BY DEF TrueCqes, worldVars
<1>3. pc' = "leave" /\ lastExit' = why
  BY DEF Break
<1>4. TypeOK'
  BY <1>1, <1>3 DEF TypeOK, worldVars, CountsKept
<1>5. ClosedIsFirst'
  BY <1>3 DEF ClosedIsFirst
<1>6. FirstReport'
  BY <1>3 DEF ServerInv, FirstReport, CountsKept
<1> QED
  BY <1>2, <1>4, <1>5, <1>6 DEF ServerInv

(* The operations a handler prepares are of the ring's type.               *)
LEMMA PreparedOps ==
  ASSUME NEW d \in UserData
  PROVE  /\ Recv(d.buffer_idx, d.fd) \in Ops
         /\ Send(d.buffer_idx, d.fd) \in Ops
         /\ SendZc(d.buffer_idx, d.fd) \in Ops
<1>1. d.buffer_idx \in Buffers /\ d.fd \in Uint16 /\ d.fd % 65536 = d.fd
  BY DEF UserData, Uint16
<1> QED
  BY <1>1 DEF Recv, Send, SendZc, UserDataOf, UserData, Ops, Kinds

LEMMA HandleKeepsInv ==
  ASSUME ServerInv, Handle
  PROVE  ServerInv'
<1>1. /\ Handling /\ TypeOK /\ cq # <<>> /\ pc = "blocked"
      /\ sq \in Seq(Ops) /\ kernel \in Seq(Ops) /\ inflight \in Int
      /\ received \in Nat /\ refusals \in Nat
  BY DEF ServerInv, TypeOK, Handle, Resubmit, OperationError, ClosedByClient, SendDone,
         RecvDone, Handling
<1>2. Cqe \in Cqes
  BY <1>1, HeadTailProperties DEF TypeOK, Cqe
<1> DEFINE d == Cqe.data
<1>3. /\ d \in UserData /\ Cqe.data = d
      /\ Recv(d.buffer_idx, d.fd) \in Ops /\ Send(d.buffer_idx, d.fd) \in Ops
      /\ SendZc(d.buffer_idx, d.fd) \in Ops
  BY <1>2, PreparedOps DEF Cqes
<1> HIDE DEF d
<1>4. CASE Resubmit
  <2>1. CASE SqeAvailable
    <3>1. <<Again(d)>> \in Seq(Ops)
      BY <1>3 DEF Again
    <3>2. EndIteration(<<Again(d)>>, inflight) /\ Cqe.res # "none"
      BY <1>3, <1>4, <2>1 DEF Resubmit
    <3>3. UNCHANGED <<worldVars, message_count, result_total, passes, historyVars>>
      BY <1>4 DEF Resubmit
    <3> QED
      BY <1>1, <3>1, <3>2, <3>3, GoesOn DEF CountsKept, historyVars
  <2>2. CASE ~SqeAvailable
    BY <1>1, <1>4, <2>2, BreaksOff DEF Resubmit, BreakUnseen, CountsKept, historyVars, ringVars
  <2> QED
    BY <2>1, <2>2
<1>5. CASE OperationError
  BY <1>1, <1>5, BreaksOff DEF OperationError, BreakUnseen, CountsKept, historyVars, ringVars
<1>6. CASE ClosedByClient
  BY <1>1, <1>6, BreaksOff
  DEF ClosedByClient, BreakUnseen, CountsKept, historyVars, ringVars, Cqe
<1>7. CASE SendDone
  <2>1. Cqe.res # "none" /\ UNCHANGED <<worldVars, result_total, passes, received, refusals>>
    BY <1>7 DEF SendDone
  <2>2. CASE ~half_duplex_mode
    <3>1. <<>> \in Seq(Ops) /\ inflight - 1 \in Int
      BY <1>1
    <3>2. EndIteration(<<>>, inflight - 1) /\ CountsOn
      BY <1>7, <2>2 DEF SendDone, Counted, CountsOn
    <3> QED
      BY <1>1, <2>1, <3>1, <3>2, GoesOn
  <2>3. CASE half_duplex_mode /\ SqeAvailable
    <3>1. <<Send(d.buffer_idx, d.fd)>> \in Seq(Ops)
      BY <1>3
    <3>2. EndIteration(<<Send(d.buffer_idx, d.fd)>>, inflight) /\ CountsOn
      BY <1>3, <1>7, <2>3 DEF SendDone, Counted, CountsOn
    <3> QED
      BY <1>1, <2>1, <3>1, <3>2, GoesOn
  <2>4. CASE half_duplex_mode /\ ~SqeAvailable
    BY <1>1, <1>7, <2>1, <2>4, BreaksOff DEF SendDone, BreakUnseen, CountsKept, ringVars
  <2> QED
    BY <2>2, <2>3, <2>4
<1>8. CASE RecvDone
  <2>1. /\ Cqe.res # "none" /\ received' = received + 1
        /\ UNCHANGED <<worldVars, message_count, result_total, passes, sent, refusals>>
    BY <1>8 DEF RecvDone
  <2>2. received' \in Nat /\ CountsKept
    BY <1>1, <2>1 DEF CountsKept
  <2> DEFINE recv == Recv(d.buffer_idx, d.fd)
             send == Send(d.buffer_idx, d.fd)
  <2>3. /\ <<recv>> \in Seq(Ops) /\ <<send, recv>> \in Seq(Ops)
        /\ Append(sq, send) \in Seq(Ops)
    BY <1>1, <1>3, AppendProperties
  <2>4. \/ EndIteration(<<recv>>, inflight)
        \/ EndIteration(<<send, recv>>, ReceivedInFlight)
        \/ /\ Break("sqe") /\ sq' = Append(sq, send)
           /\ inflight' = inflight + 1 /\ UNCHANGED <<kernel, cq>>
        \/ BreakUnseen("sqe")
    BY <1>3, <1>8 DEF RecvDone
  <2> HIDE DEF recv, send
  <2>5. ReceivedInFlight \in Int /\ inflight + 1 \in Int
    BY <1>1 DEF ReceivedInFlight
  <2>6. CASE EndIteration(<<recv>>, inflight)
    BY <1>1, <2>1, <2>2, <2>3, <2>6, GoesOn
  <2>7. CASE EndIteration(<<send, recv>>, ReceivedInFlight)
    BY <1>1, <2>1, <2>2, <2>3, <2>5, <2>7, GoesOn
  <2>8. CASE /\ Break("sqe") /\ sq' = Append(sq, send)
             /\ inflight' = inflight + 1 /\ UNCHANGED <<kernel, cq>>
    BY <1>1, <2>1, <2>2, <2>3, <2>5, <2>8, BreaksOff
  <2>9. CASE BreakUnseen("sqe")
    BY <1>1, <2>1, <2>2, <2>9, BreaksOff DEF BreakUnseen, ringVars
  <2> QED
    BY <2>4, <2>6, <2>7, <2>8, <2>9
<1> QED
  BY <1>4, <1>5, <1>6, <1>7, <1>8 DEF Handle

LEMMA InitInv == Init => ServerInv
<1> SUFFICES ASSUME Init PROVE ServerInv
  OBVIOUS
<1>1. /\ sq \in Seq(Ops) /\ kernel \in Seq(Ops) /\ cq \in Seq(Cqes)
      /\ cq \in Seq(TrueCqes)
  BY EmptySeq DEF Init
<1>2. scenario \in ScenarioType /\ half_duplex_mode \in BOOLEAN
  BY ServerAssumption DEF Init
<1>3. TypeOK
  <2>1. accepting_connections \in BOOLEAN /\ expired \in BOOLEAN
    BY ZenonT(30) DEF Init
  <2>2. closed \subseteq Uint16
    BY DEF Init
  <2>3. /\ inflight \in Int /\ message_count \in Nat /\ result_total \in Nat /\ passes \in Nat
        /\ sent \in Nat /\ received \in Nat /\ refusals \in Nat
    BY DEF Init
  <2>4. /\ pc \in {"outer", "top", "blocked", "leave", "exited"}
        /\ lastExit \in {"none", "sqe", "submit", "deadline", "wait", "drained", "error", "closed"}
    BY DEF Init
  <2> QED
    BY <1>1, <1>2, <2>1, <2>2, <2>3, <2>4 DEF TypeOK
<1>4. ClosedIsFirst /\ FirstReport
  BY DEF Init, ClosedIsFirst, FirstReport
<1> QED
  BY <1>1, <1>3, <1>4 DEF ServerInv

(* The first operations of a call are of the ring's type. *)
LEMMA FirstOps ==
  ASSUME NEW n \in Int, n <= InflightOps
  PROVE  [i \in 1 .. n |-> FirstOp(i - 1)] \in Seq(Ops)
<1>1. InflightOps \in Nat /\ ConnectionFds \in Seq(Uint16) /\ NumConnections \in Nat \ {0}
  BY ServerAssumption, LenProperties, EmptySeq DEF NumConnections
<1>2. ASSUME NEW i \in 1 .. n
      PROVE  FirstOp(i - 1) \in Ops
  <2>1. i - 1 \in Buffers /\ i - 1 \in Nat
    BY <1>1 DEF Buffers
  <2> DEFINE fd == FdOf(i - 1)
  <2>2. (i - 1) % NumConnections \in 0 .. NumConnections - 1
    BY <1>1, <2>1
  <2>3. ((i - 1) % NumConnections) + 1 \in 1 .. NumConnections
    BY <1>1, <2>2
  <2>4. fd \in Uint16
    BY <1>1, <2>3, ElementOfSeq DEF FdOf, NumConnections
  <2> DEFINE d == [buffer_idx |-> i - 1, is_send |-> TRUE, fd |-> fd]
  <2> HIDE DEF fd
  <2>5. d \in UserData /\ d.buffer_idx = i - 1 /\ d.fd = fd
    BY <2>1, <2>4 DEF UserData
  <2>6. Recv(i - 1, fd) \in Ops /\ SendZc(i - 1, fd) \in Ops
    BY <2>5, PreparedOps
  <2> QED
    BY <2>6 DEF FirstOp, fd
<1> DEFINE m == IF n < 0 THEN 0 ELSE n
<1>3. m \in Nat /\ 1 .. n = 1 .. m
  OBVIOUS
<1> QED
  BY <1>2, <1>3

LEMMA EnterKeepsInv ==
  ASSUME ServerInv, EnterHandleConnection
  PROVE  ServerInv'
<1> DEFINE first == [i \in 1 .. FirstCount |-> FirstOp(i - 1)]
<1>1. /\ TypeOK /\ sq \in Seq(Ops) /\ kernel \in Seq(Ops)
      /\ passes \in Nat /\ Len(sq) \in Nat
  BY LenProperties DEF ServerInv, TypeOK
<1>2. FirstCount \in Int /\ FirstCount <= InflightOps
  BY <1>1, ServerAssumption DEF FirstCount, Free
<1>3. first \in Seq(Ops)
  BY <1>2, FirstOps
<1> HIDE DEF first
<1>4. /\ sq' \in Seq(Ops) /\ kernel' \in Seq(Ops)
      /\ pc' \in {"top", "leave"} /\ lastExit' \in {lastExit, "sqe", "submit"}
  <2>1. CASE first = <<>>
    BY <1>1, <2>1 DEF EnterHandleConnection, first
  <2>2. CASE first # <<>>
    <3>1. PICK k \in Accepted(sq \o first) :
            /\ Submit(sq \o first, k)
            /\ IF k = 0 THEN pc' = "leave" /\ lastExit' = "submit"
               ELSE IF FirstCount < InflightOps THEN pc' = "leave" /\ lastExit' = "sqe"
               ELSE pc' = "top" /\ UNCHANGED lastExit
      BY <2>2 DEF EnterHandleConnection, first
    <3>2. sq \o first \in Seq(Ops)
      BY <1>1, <1>3, ConcatProperties
    <3> QED
      BY <1>1, <3>1, <3>2, SubmitType
  <2> QED
    BY <2>1, <2>2
<1>5. /\ UNCHANGED <<worldVars, cq, result_total, historyVars>>
      /\ passes' = passes + 1 /\ message_count' = 0 /\ inflight' = FirstCount
  BY DEF EnterHandleConnection
<1>6. TypeOK'
  BY <1>1, <1>2, <1>4, <1>5 DEF TypeOK, worldVars, historyVars
<1>7. (cq \in Seq(TrueCqes))'
  BY <1>5 DEF ServerInv, TrueCqes, worldVars
<1>8. ClosedIsFirst'
  BY <1>4, <1>5 DEF ServerInv, ClosedIsFirst
<1>9. FirstReport'
  BY <1>1, <1>4, <1>5 DEF ServerInv, FirstReport, historyVars
<1> QED
  BY <1>6, <1>7, <1>8, <1>9 DEF ServerInv

(* The steps of the worker that touch no operation.                        *)
LEMMA OtherStepsKeepInv ==
  ASSUME ServerInv, StopWorking \/ LoopTop \/ WaitTimesOut \/ WaitFails \/ Leave
  PROVE  ServerInv'
<1>1. TypeOK
  BY DEF ServerInv
<1>2. UNCHANGED <<worldVars, ringVars, inflight, message_count, passes, historyVars>>
  BY DEF StopWorking, LoopTop, WaitTimesOut, WaitFails, Leave
<1>3. /\ result_total' \in {result_total, message_count}
      /\ pc' \in {"outer", "top", "blocked", "leave", "exited"}
      /\ lastExit' \in {lastExit, "deadline", "wait"}
  BY DEF StopWorking, LoopTop, WaitTimesOut, WaitFails, Leave, Break
<1>4. TypeOK'
  BY <1>1, <1>2, <1>3 DEF TypeOK, worldVars, ringVars, historyVars
<1>5. (cq \in Seq(TrueCqes))' /\ ClosedIsFirst'
  BY <1>2, <1>3 DEF ServerInv, ClosedIsFirst, TrueCqes, worldVars, ringVars
<1>6. FirstReport'
  <2>1. CASE StopWorking
    BY <1>2, <2>1 DEF ServerInv, FirstReport, StopWorking, historyVars
  <2>2. CASE LoopTop \/ WaitTimesOut \/ WaitFails
    BY <1>2, <2>2
    DEF ServerInv, FirstReport, LoopTop, WaitTimesOut, WaitFails, Break, historyVars
  <2>3. CASE Leave
    BY <1>2, <2>3 DEF ServerInv, FirstReport, Leave, historyVars
  <2> QED
    BY <2>1, <2>2, <2>3
<1> QED
  BY <1>4, <1>5, <1>6 DEF ServerInv

(* A completion with result 0 is the notification of a send_zc or tells of *)
(* a connection whose client has closed it (external: io_uring).           *)
LEMMA CompleteKeepsInv ==
  ASSUME ServerInv, NEW i \in DOMAIN kernel, NEW res \in Results, Complete(i, res)
  PROVE  ServerInv'
<1> DEFINE op == kernel[i]
           cqe == [data |-> op.data, res |-> res, notif |-> op.kind = "notif"]
<1>1. TypeOK /\ cq \in Seq(TrueCqes) /\ kernel \in Seq(Ops)
  BY DEF ServerInv, TypeOK
<1>2. op \in Ops
  BY <1>1, ElementOfSeq, LenProperties
<1>3. cqe \in Cqes
  BY <1>2 DEF Ops, Cqes
<1>4. cqe \in TrueCqes
  <2>1. SUFFICES ASSUME res = "none", op.kind # "notif" PROVE op.data.fd \in closed
    BY <1>3 DEF TrueCqes
  <2>2. res \in Outcomes(op) /\ "none" \notin Refused /\ "none" \notin {"error"}
    BY DEF Complete, Refused
  <2>3. op.kind = "recv" \/ op.kind \in {"send", "send_zc"}
    BY <1>2, <2>1 DEF Ops, Kinds
  <2> QED
    BY <2>1, <2>2, <2>3 DEF Outcomes
<1>5. kernel' \in Seq(Ops)
  <2>1. [op EXCEPT !.kind = "notif"] \in Ops
    BY <1>2 DEF Ops, Kinds
  <2>2. [kernel EXCEPT ![i] = [op EXCEPT !.kind = "notif"]] \in Seq(Ops)
    BY <1>1, <2>1, ExceptSeq
  <2>3. RemoveAt(kernel, i) \in Seq(Ops)
    BY <1>1, RemoveAtType
  <2>4. \/ kernel' = [kernel EXCEPT ![i].kind = "notif"]
        \/ kernel' = RemoveAt(kernel, i)
    BY DEF Complete
  <2> QED
    BY <2>2, <2>3, <2>4
<1>6. /\ cq' = Append(cq, cqe) /\ pc = "blocked"
      /\ refusals' \in {refusals, refusals + 1}
      /\ UNCHANGED <<worldVars, pc, sq, inflight, message_count, result_total, lastExit, passes,
                     sent, received>>
  BY DEF Complete
<1> HIDE DEF op, cqe
<1>7. cq' \in Seq(TrueCqes) /\ cq' \in Seq(Cqes) /\ cq' # <<>>
      /\ (cq # <<>> => Head(cq') = Head(cq))
  BY <1>1, <1>3, <1>4, <1>6, AppendProperties DEF TypeOK
<1>8. TypeOK'
  BY <1>1, <1>5, <1>6, <1>7 DEF TypeOK, worldVars
<1>9. (cq \in Seq(TrueCqes))' /\ ClosedIsFirst'
  BY <1>6, <1>7 DEF ServerInv, ClosedIsFirst, TrueCqes, worldVars
<1>10. FirstReport'
  BY <1>6 DEF ServerInv, FirstReport
<1> QED
  BY <1>8, <1>9, <1>10 DEF ServerInv

(* Clients close, time passes and the acceptor stops beside the worker; a  *)
(* completion that is true stays so when more connections are closed.      *)
LEMMA WorldKeepsInv ==
  ASSUME ServerInv, ClientCloses \/ Tick \/ AcceptorStops
  PROVE  ServerInv'
<1>1. TypeOK
  BY DEF ServerInv
<1>2. /\ UNCHANGED <<scenario, half_duplex_mode, pc, ringVars, inflight, message_count,
                     result_total, lastExit, passes, historyVars>>
      /\ closed \subseteq closed'
      /\ accepting_connections' \in BOOLEAN /\ expired' \in BOOLEAN
  BY <1>1 DEF ClientCloses, Tick, AcceptorStops, TypeOK
<1>3. closed' \subseteq Uint16
  BY <1>1 DEF ClientCloses, Tick, AcceptorStops, TypeOK, ScenarioType
<1>4. TypeOK'
  BY <1>1, <1>2, <1>3 DEF TypeOK, ringVars, historyVars
<1>5. TrueCqes \subseteq TrueCqes'
  BY <1>2 DEF TrueCqes
<1>6. cq' \in Seq(TrueCqes')
  <2>1. Seq(TrueCqes) \subseteq Seq(TrueCqes')
    BY <1>5, SeqMonotonic
  <2> QED
    BY <1>2, <2>1 DEF ServerInv, ringVars
<1>7. ClosedIsFirst' /\ FirstReport'
  BY <1>2 DEF ServerInv, ClosedIsFirst, FirstReport, ringVars, historyVars
<1> QED
  BY <1>4, <1>6, <1>7 DEF ServerInv

LEMMA StutterKeepsInv ==
  ASSUME ServerInv, UNCHANGED vars
  PROVE  ServerInv'
BY DEF ServerInv, TypeOK, TrueCqes, ClosedIsFirst, FirstReport, vars

LEMMA NextKeepsInv == ServerInv /\ [Next]_vars => ServerInv'
<1> SUFFICES ASSUME ServerInv, [Next]_vars PROVE ServerInv'
  OBVIOUS
<1>1. CASE EnterHandleConnection
  BY <1>1, EnterKeepsInv
<1>2. CASE StopWorking \/ LoopTop \/ WaitTimesOut \/ WaitFails \/ Leave
  BY <1>2, OtherStepsKeepInv
<1>3. CASE Handle
  BY <1>3, HandleKeepsInv
<1>4. ASSUME NEW i \in DOMAIN kernel, NEW res \in Results, Complete(i, res)
      PROVE  ServerInv'
  BY <1>4, CompleteKeepsInv
<1>5. CASE ClientCloses \/ Tick \/ AcceptorStops
  BY <1>5, WorldKeepsInv
<1>6. CASE UNCHANGED vars
  BY <1>6, StutterKeepsInv
<1> QED
  BY <1>1, <1>2, <1>3, <1>4, <1>5, <1>6 DEF Next, Worker, Kernel, Environment, Terminated

(***************************************************************************)
(* What the ring holds.                                                    *)
(***************************************************************************)

(* Receives do not carry the mark of a send, the other operations do; and  *)
(* only the kernel makes an operation a notification, whose result is 0.   *)
KernelOps == {op \in Ops : op.kind = "recv" <=> ~op.data.is_send}
SqOps == {op \in KernelOps : op.kind # "notif"}
RingCqes == {cqe \in Cqes : cqe.notif => cqe.res = "none" /\ cqe.data.is_send}

(* All receives, whatever their buffer. *)
RecvOps == {op \in Ops : op.kind = "recv"}
RecvCqes == {cqe \in Cqes : ~cqe.data.is_send}

(* In full duplex the first call always waits for some request: so it is   *)
(* never without an operation, and inflight never 0.                       *)
ReceivesWhileFirst ==
  InLoop /\ passes = 1 /\ ~half_duplex_mode => InRing(RecvOps, RecvCqes) >= 1

RingTyped == sq \in Seq(SqOps) /\ kernel \in Seq(KernelOps) /\ cq \in Seq(RingCqes)

RingInv ==
  /\ RingTyped
  /\ passes = 0 => sq = <<>> /\ kernel = <<>> /\ cq = <<>> /\ received = 0
  /\ OneReceivePerBuffer
  /\ InflightWhileFirst
  /\ ReceivesWhileFirst
  /\ lastExit = "drained" => passes > 1

(* These sets are the same in every state. *)
LEMMA RigidSets ==
  /\ LiveOps' = LiveOps /\ LiveCqes' = LiveCqes
  /\ RecvOps' = RecvOps /\ RecvCqes' = RecvCqes
  /\ \A b : ReceiveOps(b)' = ReceiveOps(b) /\ ReceiveCqes(b)' = ReceiveCqes(b)
  /\ SqOps' = SqOps /\ KernelOps' = KernelOps /\ RingCqes' = RingCqes
  /\ Buffers' = Buffers
BY DEF LiveOps, LiveCqes, RecvOps, RecvCqes, ReceiveOps, ReceiveCqes, SqOps, KernelOps, RingCqes,
       Ops, Cqes, Kinds, Results, UserData, Buffers

LEMMA InRingType ==
  /\ RingTyped => \A T, C : InRing(T, C) \in Nat
  /\ RingTyped' => \A T, C : InRing(T, C)' \in Nat
<1>1. ASSUME NEW s \in Seq(SqOps), NEW k \in Seq(KernelOps), NEW c \in Seq(RingCqes), NEW T, NEW C
      PROVE  Count(s, T) + Count(k, T) + Count(c, C) \in Nat
  <2>1. Count(s, T) \in Nat /\ Count(k, T) \in Nat /\ Count(c, C) \in Nat
    BY CountType
  <2> QED
    BY <2>1
<1>2. RingTyped' => sq' \in Seq(SqOps) /\ kernel' \in Seq(KernelOps) /\ cq' \in Seq(RingCqes)
  BY RigidSets DEF RingTyped
<1> QED
  BY <1>1, <1>2 DEF RingTyped, InRing

(* There are at least as many live operations as receives. *)
LEMMA ReceivesAreLive ==
  RingTyped' => InRing(RecvOps, RecvCqes)' <= Live'
<1> SUFFICES ASSUME RingTyped' PROVE InRing(RecvOps, RecvCqes)' <= Live'
  OBVIOUS
<1>1. sq' \in Seq(SqOps) /\ kernel' \in Seq(KernelOps) /\ cq' \in Seq(RingCqes)
  BY RigidSets DEF RingTyped
<1>2. \A op \in KernelOps : op \in RecvOps => op \in LiveOps
  BY DEF KernelOps, RecvOps, LiveOps
<1>3. \A cqe \in RingCqes : cqe \in RecvCqes => cqe \in LiveCqes
  BY DEF RingCqes, RecvCqes, LiveCqes
<1>4. \A op \in SqOps : op \in RecvOps => op \in LiveOps
  BY <1>2 DEF SqOps
<1>5. /\ Count(sq', RecvOps) <= Count(sq', LiveOps)
      /\ Count(kernel', RecvOps) <= Count(kernel', LiveOps)
      /\ Count(cq', RecvCqes) <= Count(cq', LiveCqes)
  BY <1>1, <1>2, <1>3, <1>4, CountMonotonic
<1>6. /\ Count(sq', RecvOps) \in Nat /\ Count(sq', LiveOps) \in Nat
      /\ Count(kernel', RecvOps) \in Nat /\ Count(kernel', LiveOps) \in Nat
      /\ Count(cq', RecvCqes) \in Nat /\ Count(cq', LiveCqes) \in Nat
  BY <1>1, CountType
<1>7. /\ InRing(RecvOps, RecvCqes)' = Count(sq', RecvOps) + Count(kernel', RecvOps) + Count(cq', RecvCqes)
      /\ Live' = Count(sq', LiveOps) + Count(kernel', LiveOps) + Count(cq', LiveCqes)
  BY RigidSets DEF InRing, Live
<1> QED
  BY <1>5, <1>6, <1>7

(* A submit only moves operations from one queue to the next.              *)
LEMMA SubmitCounts ==
  ASSUME NEW T, NEW pending \in Seq(SqOps), kernel \in Seq(KernelOps),
         NEW k \in Accepted(pending), Submit(pending, k)
  PROVE  /\ sq' \in Seq(SqOps) /\ kernel' \in Seq(KernelOps)
         /\ Count(sq', T) + Count(kernel', T) = Count(pending, T) + Count(kernel, T)
<1> DEFINE x == SubSeq(pending, 1, k)
           y == SubSeq(pending, k + 1, Len(pending))
<1>1. k \in 0 .. Len(pending)
  BY LenProperties DEF Accepted
<1>2. /\ x \in Seq(SqOps) /\ y \in Seq(SqOps)
      /\ Count(pending, T) = Count(x, T) + Count(y, T)
  BY <1>1, CountSplit
<1>3. sq' = y /\ kernel' = kernel \o x
  BY DEF Submit
<1> HIDE DEF x, y
<1>4. x \in Seq(KernelOps)
  BY <1>2, SeqMonotonic DEF SqOps
<1>5. kernel \o x \in Seq(KernelOps) /\ Count(kernel \o x, T) = Count(kernel, T) + Count(x, T)
  BY <1>4, ConcatProperties, CountConcat
<1>6. Count(x, T) \in Nat /\ Count(y, T) \in Nat /\ Count(kernel, T) \in Nat
  BY <1>2, CountType
<1> QED
  BY <1>2, <1>3, <1>5, <1>6

(* An iteration takes the first completion out of the ring and puts in     *)
(* what it has prepared (server.cpp:558-575).                              *)
LEMMA IterationCounts ==
  ASSUME RingTyped, cq # <<>>, NEW prepared \in Seq(SqOps), NEW n, EndIteration(prepared, n)
  PROVE  /\ RingTyped'
         /\ \A T, C : InRing(T, C)' + One(Cqe, C) = InRing(T, C) + Count(prepared, T)
<1>1. sq \in Seq(SqOps) /\ kernel \in Seq(KernelOps) /\ cq \in Seq(RingCqes)
  BY DEF RingTyped
<1>2. cq' = Tail(cq) /\ cq' \in Seq(RingCqes)
  BY <1>1, HeadTailProperties DEF EndIteration
<1>3. ASSUME NEW T
      PROVE  /\ sq' \in Seq(SqOps) /\ kernel' \in Seq(KernelOps)
             /\ Count(sq', T) + Count(kernel', T)
                  = Count(sq, T) + Count(kernel, T) + Count(prepared, T)
  <2>1. Count(sq, T) \in Nat /\ Count(kernel, T) \in Nat /\ Count(prepared, T) \in Nat
    BY <1>1, CountType
  <2>2. CASE prepared = <<>>
    BY <1>1, <2>1, <2>2, CountEmpty DEF EndIteration
  <2>3. CASE prepared # <<>>
    <3>1. PICK k \in Accepted(sq \o prepared) : Submit(sq \o prepared, k)
      BY <2>3 DEF EndIteration
    <3>2. /\ sq \o prepared \in Seq(SqOps)
          /\ Count(sq \o prepared, T) = Count(sq, T) + Count(prepared, T)
      BY <1>1, ConcatProperties, CountConcat
    <3>3. /\ sq' \in Seq(SqOps) /\ kernel' \in Seq(KernelOps)
          /\ Count(sq', T) + Count(kernel', T) = Count(sq \o prepared, T) + Count(kernel, T)
      BY <1>1, <3>1, <3>2, SubmitCounts
    <3> QED
      BY <2>1, <3>2, <3>3
  <2> QED
    BY <2>2, <2>3
<1>4. RingTyped'
  BY <1>2, <1>3, RigidSets DEF RingTyped
<1>5. ASSUME NEW T, NEW C
      PROVE  InRing(T, C)' + One(Cqe, C) = InRing(T, C) + Count(prepared, T)
  <2>1. Count(cq, C) = One(Head(cq), C) + Count(Tail(cq), C)
    BY <1>1, CountTail
  <2>2. InRing(T, C)' = Count(sq', T) + Count(kernel', T) + Count(Tail(cq), C)
    BY <1>2 DEF InRing
  <2>3. /\ Count(sq, T) \in Nat /\ Count(kernel, T) \in Nat /\ Count(prepared, T) \in Nat
        /\ Count(sq', T) \in Nat /\ Count(kernel', T) \in Nat /\ Count(Tail(cq), C) \in Nat
    BY <1>1, <1>2, <1>3, CountType
  <2>4. One(Cqe, C) \in Nat /\ Head(cq) = Cqe
    BY DEF One, Cqe
  <2> QED
    <3>1. InRing(T, C) = Count(sq, T) + Count(kernel, T) + Count(cq, C)
      BY DEF InRing
    <3>2. Count(sq', T) + Count(kernel', T) = Count(sq, T) + Count(kernel, T) + Count(prepared, T)
      BY <1>3
    <3> DEFINE a == Count(sq, T) + Count(kernel, T)
               b == Count(sq', T) + Count(kernel', T)
               p == Count(prepared, T)
               c == Count(Tail(cq), C)
               d == One(Cqe, C)
    <3>3. a \in Nat /\ b \in Nat /\ p \in Nat /\ c \in Nat /\ d \in Nat
      BY <2>3, <2>4
    <3>4. b = a + p
      BY <3>2
    <3>5. InRing(T, C) = a + (d + c) /\ InRing(T, C)' = b + c
      BY <2>1, <2>2, <2>4, <3>1
    <3> HIDE DEF a, b, c, d, p
    <3>6. (b + c) + d = (a + (d + c)) + p
      BY <3>3, <3>4
    <3>7. InRing(T, C)' + d = InRing(T, C) + p
      BY <3>5, <3>6
    <3> QED
      BY <3>7 DEF d, p
<1> QED
  BY <1>4, <1>5

(* A handler that goes on keeps the ring right if what it prepares waits   *)
(* for no more requests than its completion did, and for at least one if   *)
(* that was a request, and if inflight moves along.                        *)
LEMMA GoesOnKeepsRing ==
  ASSUME ServerInv, RingInv, Handling,
         NEW prepared \in Seq(SqOps), NEW n \in Int, EndIteration(prepared, n),
         UNCHANGED <<worldVars, passes>>, received' \in Nat,
         \A b \in Buffers : Count(prepared, ReceiveOps(b)) <= One(Cqe, ReceiveCqes(b)),
         Count(prepared, RecvOps) >= One(Cqe, RecvCqes),
         n = inflight + Count(prepared, LiveOps) - One(Cqe, LiveCqes)
               + (IF half_duplex_mode THEN 0 ELSE received' - received)
  PROVE  RingInv'
<1>1. /\ RingTyped /\ cq # <<>> /\ InLoop /\ pc = "blocked" /\ passes \in Nat /\ passes # 0
      /\ received \in Nat /\ inflight \in Int /\ half_duplex_mode' = half_duplex_mode
      /\ passes' = passes
  BY DEF ServerInv, RingInv, TypeOK, FirstReport, Handling, InLoop, worldVars
<1>2. RingTyped' /\ \A T, C : InRing(T, C)' + One(Cqe, C) = InRing(T, C) + Count(prepared, T)
  BY <1>1, IterationCounts
<1>3. \A T, C : InRing(T, C) \in Nat /\ InRing(T, C)' \in Nat /\ One(Cqe, C) \in Nat
  BY <1>1, <1>2, InRingType DEF One
<1>4. \A T : Count(prepared, T) \in Nat
  BY CountType
<1>5. OneReceivePerBuffer'
  <2> SUFFICES ASSUME passes = 1, NEW b \in Buffers
               PROVE  InRing(ReceiveOps(b), ReceiveCqes(b))' <= 1
    BY <1>1, RigidSets DEF OneReceivePerBuffer
  <2> DEFINE T == ReceiveOps(b)
             C == ReceiveCqes(b)
  <2>1. InRing(ReceiveOps(b), ReceiveCqes(b))' = InRing(T, C)'
    OBVIOUS
  <2>2. InRing(T, C) <= 1
    BY DEF RingInv, OneReceivePerBuffer
  <2>3. Count(prepared, T) <= One(Cqe, C)
    OBVIOUS
  <2> QED
    BY <1>2, <1>3, <1>4, <2>2, <2>3
<1>6. /\ InRing(LiveOps, LiveCqes)' + One(Cqe, LiveCqes) = Live + Count(prepared, LiveOps)
      /\ Live' = InRing(LiveOps, LiveCqes)' /\ Live \in Nat /\ Live' \in Nat
  BY <1>2, <1>3, RigidSets DEF Live
<1>7. passes = 1 => inflight' = IF half_duplex_mode THEN Live' ELSE Live' + received'
  <2>1. inflight' = n
    BY DEF EndIteration
  <2>2. passes = 1 => inflight = IF half_duplex_mode THEN Live ELSE Live + received
    BY <1>1 DEF RingInv, InflightWhileFirst
  <2>3. Count(prepared, LiveOps) \in Nat /\ One(Cqe, LiveCqes) \in Nat
    BY <1>3, <1>4
  <2> QED
    <3> DEFINE live == InRing(LiveOps, LiveCqes)'
               p == Count(prepared, LiveOps)
               d == One(Cqe, LiveCqes)
    <3>1. p \in Nat /\ d \in Nat
      BY <2>3
    <3>2. live + d = Live + p /\ Live' = live /\ Live \in Nat /\ live \in Nat
      BY <1>6
    <3> DEFINE m == IF half_duplex_mode THEN 0 ELSE received' - received
    <3>3. n = inflight + p - d + m
      OBVIOUS
    <3>7. (half_duplex_mode => m = 0) /\ (~half_duplex_mode => m = received' - received)
      OBVIOUS
    <3> HIDE DEF live, p, d, m
    <3>4. /\ n \in Int /\ inflight \in Int /\ received \in Nat /\ received' \in Nat
          /\ half_duplex_mode' = half_duplex_mode
      BY <1>1
    <3>5. CASE half_duplex_mode
      <4>1. n = inflight + p - d
        BY ONLY <3>1, <3>3, <3>4, <3>5, <3>7
      <4>2. inflight = Live => n = live
        BY ONLY <3>1, <3>2, <3>4, <4>1
      <4> QED
        BY ONLY <2>1, <2>2, <3>2, <3>4, <3>5, <4>2
    <3>6. CASE ~half_duplex_mode
      <4>1. n = inflight + p - d + (received' - received)
        BY ONLY <3>3, <3>6, <3>7
      <4>2. inflight = Live + received => n = live + received'
        BY ONLY <3>1, <3>2, <3>4, <4>1
      <4> QED
        BY ONLY <2>1, <2>2, <3>2, <3>4, <3>6, <4>2
    <3> QED
      BY <3>5, <3>6
<1>8. passes = 1 /\ ~half_duplex_mode => InRing(RecvOps, RecvCqes)' >= 1
  <2>1. InRing(RecvOps, RecvCqes)' + One(Cqe, RecvCqes)
          = InRing(RecvOps, RecvCqes) + Count(prepared, RecvOps)
    BY <1>2
  <2>2. passes = 1 /\ ~half_duplex_mode => InRing(RecvOps, RecvCqes) >= 1
    BY <1>1 DEF RingInv, ReceivesWhileFirst
  <2>3. /\ InRing(RecvOps, RecvCqes) \in Nat /\ InRing(RecvOps, RecvCqes)' \in Nat
        /\ One(Cqe, RecvCqes) \in Nat /\ Count(prepared, RecvOps) \in Nat
    BY <1>3, <1>4
  <2> QED
    BY <2>1, <2>2, <2>3
<1>9. lastExit' = "drained" => passes' > 1
  <2> SUFFICES ASSUME lastExit' = "drained", passes = 1 PROVE FALSE
    BY <1>1
  <2>1. lastExit # "drained"
    BY <1>1 DEF RingInv
  <2>2. n = 0 /\ ~half_duplex_mode
    BY <2>1 DEF EndIteration, Break
  <2>3. inflight' = 0
    BY <2>2 DEF EndIteration
  <2>4. Live' >= 1
    BY <1>2, <1>3, <1>6, <1>8, <2>2, ReceivesAreLive
  <2> QED
    BY <1>6, <1>7, <2>2, <2>3, <2>4
<1> QED
  BY <1>1, <1>2, <1>5, <1>7, <1>8, <1>9
  DEF RingInv, InflightWhileFirst, ReceivesWhileFirst

(* A handler that breaks out of the loop may leave a send behind.          *)
LEMMA BreaksOffKeepsRing ==
  ASSUME ServerInv, RingInv, InLoop,
         pc' = "leave", lastExit' # "drained", UNCHANGED <<kernel, cq, passes>>,
         sq' = sq \/ \E op \in SqOps : op \notin RecvOps /\ sq' = Append(sq, op)
  PROVE  RingInv'
<1>1. RingTyped /\ passes # 0 /\ ~InLoop'
  BY DEF RingInv, ServerInv, FirstReport, InLoop
<1>2. sq \in Seq(SqOps) /\ kernel \in Seq(KernelOps) /\ cq \in Seq(RingCqes)
  BY <1>1 DEF RingTyped
<1>3. sq' \in Seq(SqOps)
  BY <1>2, AppendProperties
<1>4. RingTyped'
  BY <1>2, <1>3, RigidSets DEF RingTyped
<1>5. ASSUME NEW b \in Buffers
      PROVE  Count(sq', ReceiveOps(b)) = Count(sq, ReceiveOps(b))
  <2>1. ASSUME NEW op \in SqOps, op \notin RecvOps, sq' = Append(sq, op)
        PROVE  Count(sq', ReceiveOps(b)) = Count(sq, ReceiveOps(b))
    <3>1. One(op, ReceiveOps(b)) = 0
      BY <2>1 DEF One, ReceiveOps, RecvOps
    <3>2. Count(sq', ReceiveOps(b)) = Count(sq, ReceiveOps(b)) + One(op, ReceiveOps(b))
      BY <1>2, <2>1, CountAppend
    <3>3. Count(sq, ReceiveOps(b)) \in Nat
      BY <1>2, CountType
    <3> QED
      BY <3>1, <3>2, <3>3
  <2> QED
    BY <2>1
<1>6. OneReceivePerBuffer'
  BY <1>5, RigidSets DEF RingInv, OneReceivePerBuffer, InRing
<1> QED
  BY <1>1, <1>4, <1>6 DEF RingInv, InflightWhileFirst, ReceivesWhileFirst

(* How the operations that the handlers prepare are counted. *)
LEMMA PreparedCounts ==
  ASSUME NEW d \in UserData, NEW send \in {Send(d.buffer_idx, d.fd), SendZc(d.buffer_idx, d.fd)}
  PROVE  LET recv == Recv(d.buffer_idx, d.fd)
         IN  /\ recv \in SqOps /\ send \in SqOps /\ send \notin RecvOps
             /\ One(recv, LiveOps) = 1 /\ One(send, LiveOps) = 1
             /\ One(recv, RecvOps) = 1 /\ One(send, RecvOps) = 0
             /\ \A b \in Buffers : /\ One(recv, ReceiveOps(b)) = IF b = d.buffer_idx THEN 1 ELSE 0
                                   /\ One(send, ReceiveOps(b)) = 0
<1>1. /\ Recv(d.buffer_idx, d.fd) \in Ops /\ Send(d.buffer_idx, d.fd) \in Ops
      /\ SendZc(d.buffer_idx, d.fd) \in Ops
  BY PreparedOps
<1>2. send \in Ops /\ send.kind \in {"send", "send_zc"} /\ send.data.is_send
  <2>1. CASE send = Send(d.buffer_idx, d.fd)
    BY <1>1, <2>1 DEF Send, UserDataOf
  <2>2. CASE send = SendZc(d.buffer_idx, d.fd)
    BY <1>1, <2>2 DEF SendZc, UserDataOf
  <2> QED
    BY <2>1, <2>2
<1> DEFINE recv == Recv(d.buffer_idx, d.fd)
<1>3. recv \in Ops /\ recv.kind = "recv" /\ ~recv.data.is_send /\ recv.data.buffer_idx = d.buffer_idx
  BY <1>1 DEF Recv, UserDataOf
<1> HIDE DEF recv
<1>4. /\ recv \in SqOps /\ send \in SqOps /\ send \notin RecvOps /\ recv \in RecvOps
      /\ recv \in LiveOps /\ send \in LiveOps
  BY <1>2, <1>3 DEF SqOps, KernelOps, RecvOps, LiveOps
<1>5. \A b \in Buffers : (recv \in ReceiveOps(b) <=> b = d.buffer_idx) /\ send \notin ReceiveOps(b)
  BY <1>2, <1>3 DEF ReceiveOps
<1> QED
  BY <1>4, <1>5 DEF One, recv

(* How a completion that is not an end of stream is counted. *)
LEMMA CqeCounts ==
  ASSUME RingInv, Handling, Cqe.res # "none"
  PROVE  /\ Cqe.data \in UserData
         /\ One(Cqe, LiveCqes) = 1
         /\ One(Cqe, RecvCqes) = IF Cqe.data.is_send THEN 0 ELSE 1
         /\ \A b \in Buffers : One(Cqe, ReceiveCqes(b)) =
              IF ~Cqe.data.is_send /\ b = Cqe.data.buffer_idx THEN 1 ELSE 0
<1>1. Cqe \in RingCqes
  BY HeadTailProperties DEF RingInv, RingTyped, Handling, Cqe
<1>2. Cqe \in Cqes /\ Cqe.data \in UserData /\ ~Cqe.notif
  BY <1>1 DEF RingCqes, Cqes
<1> QED
  BY <1>2 DEF One, LiveCqes, RecvCqes, ReceiveCqes

LEMMA HandleKeepsRing ==
  ASSUME ServerInv, RingInv, Handle
  PROVE  RingInv'
<1> DEFINE d == Cqe.data
           recv == Recv(d.buffer_idx, d.fd)
           send == Send(d.buffer_idx, d.fd)
<1>1. /\ Handling /\ InLoop /\ pc = "blocked" /\ inflight \in Int /\ received \in Nat
      /\ half_duplex_mode \in BOOLEAN
  BY DEF ServerInv, TypeOK, Handle, Resubmit, OperationError, ClosedByClient, SendDone,
         RecvDone, Handling, InLoop
<1>2. ASSUME NEW why, why # "drained", BreakUnseen(why), UNCHANGED passes
      PROVE  RingInv'
  BY <1>1, <1>2, BreaksOffKeepsRing DEF BreakUnseen, Break, ringVars
<1>3. CASE OperationError
  BY <1>2, <1>3 DEF OperationError
<1>4. CASE ClosedByClient
  BY <1>2, <1>4 DEF ClosedByClient
<1> SUFFICES ASSUME Resubmit \/ SendDone \/ RecvDone PROVE RingInv'
  BY <1>3, <1>4 DEF Handle
<1>5. Cqe.res # "none" /\ UNCHANGED <<worldVars, passes>>
  BY DEF Resubmit, SendDone, RecvDone
<1>6. /\ d \in UserData
      /\ One(Cqe, LiveCqes) = 1
      /\ One(Cqe, RecvCqes) = IF d.is_send THEN 0 ELSE 1
      /\ \A b \in Buffers : One(Cqe, ReceiveCqes(b)) =
           IF ~d.is_send /\ b = d.buffer_idx THEN 1 ELSE 0
  BY <1>1, <1>5, CqeCounts
<1>7. ASSUME NEW s \in {send, SendZc(d.buffer_idx, d.fd)}
      PROVE  /\ recv \in SqOps /\ s \in SqOps /\ s \notin RecvOps
             /\ One(recv, LiveOps) = 1 /\ One(s, LiveOps) = 1
             /\ One(recv, RecvOps) = 1 /\ One(s, RecvOps) = 0
             /\ \A b \in Buffers : /\ One(recv, ReceiveOps(b)) = IF b = d.buffer_idx THEN 1 ELSE 0
                                   /\ One(s, ReceiveOps(b)) = 0
  BY <1>6, <1>7, PreparedCounts
<1>8. ASSUME NEW op \in SqOps, op = recv \/ op \in {send, SendZc(d.buffer_idx, d.fd)},
             op = recv <=> ~d.is_send, NEW n \in Int, EndIteration(<<op>>, n), received' \in Nat,
             n = inflight + (IF half_duplex_mode THEN 0 ELSE received' - received)
      PROVE  RingInv'
  <2> DEFINE prepared == <<op>>
  <2>1. prepared \in Seq(SqOps) /\ \A T : Count(prepared, T) = One(op, T)
    BY CountSingleton
  <2>2. One(op, LiveOps) = 1 /\ One(op, RecvOps) = One(Cqe, RecvCqes)
    BY <1>6, <1>7, <1>8
  <2>3. \A b \in Buffers : One(op, ReceiveOps(b)) = One(Cqe, ReceiveCqes(b))
    BY <1>6, <1>7, <1>8
  <2>4. \A T : One(op, T) \in Nat
    BY DEF One
  <2> HIDE DEF prepared
  <2>5. EndIteration(prepared, n)
    BY <1>8 DEF prepared
  <2>6. \A b \in Buffers : Count(prepared, ReceiveOps(b)) <= One(Cqe, ReceiveCqes(b))
    BY <2>1, <2>3, <2>4
  <2>7. Count(prepared, RecvOps) >= One(Cqe, RecvCqes)
    BY <2>1, <2>2, <2>4
  <2>8. n = inflight + Count(prepared, LiveOps) - One(Cqe, LiveCqes)
              + (IF half_duplex_mode THEN 0 ELSE received' - received)
    BY <1>1, <1>6, <1>8, <2>1, <2>2
  <2> QED
    BY <1>1, <1>5, <1>8, <2>1, <2>5, <2>6, <2>7, <2>8, GoesOnKeepsRing
<1>9. CASE Resubmit
  <2>1. received' = received
    BY <1>9 DEF Resubmit, historyVars
  <2>2. CASE ~SqeAvailable
    BY <1>2, <1>5, <1>9, <2>2 DEF Resubmit
  <2>3. CASE SqeAvailable
    <3> DEFINE op == Again(d)
    <3>1. EndIteration(<<op>>, inflight)
      BY <1>9, <2>3 DEF Resubmit
    <3>2. /\ op \in SqOps /\ (op = recv \/ op \in {send, SendZc(d.buffer_idx, d.fd)})
          /\ (op = recv <=> ~d.is_send)
      <4>1. recv # SendZc(d.buffer_idx, d.fd)
        BY DEF Recv, SendZc
      <4> QED
        BY <1>7, <4>1 DEF Again
    <3> HIDE DEF op
    <3> QED
      BY <1>1, <1>8, <2>1, <3>1, <3>2
  <2> QED
    BY <2>2, <2>3
<1>10. CASE SendDone
  <2>1. d.is_send /\ received' = received
    BY <1>10 DEF SendDone
  <2>2. CASE ~half_duplex_mode
    <3> DEFINE prepared == <<>>
    <3>1. prepared \in Seq(SqOps) /\ \A T : Count(prepared, T) = 0
      BY EmptySeq, CountEmpty
    <3>2. EndIteration(prepared, inflight - 1)
      BY <1>10, <2>2 DEF SendDone
    <3> HIDE DEF prepared
    <3>3. \A b \in Buffers : Count(prepared, ReceiveOps(b)) <= One(Cqe, ReceiveCqes(b))
      BY <1>6, <2>1, <3>1
    <3>4. Count(prepared, RecvOps) >= One(Cqe, RecvCqes)
      BY <1>6, <2>1, <3>1
    <3>5. /\ inflight - 1 \in Int /\ received' \in Nat
          /\ inflight - 1 = inflight + Count(prepared, LiveOps) - One(Cqe, LiveCqes)
                             + (IF half_duplex_mode THEN 0 ELSE received' - received)
      BY <1>1, <1>6, <2>1, <2>2, <3>1
    <3> QED
      BY <1>1, <1>5, <3>1, <3>2, <3>3, <3>4, <3>5, GoesOnKeepsRing
  <2>3. CASE half_duplex_mode /\ SqeAvailable
    <3>1. EndIteration(<<send>>, inflight)
      BY <1>10, <2>3 DEF SendDone
    <3>2. send \in SqOps /\ send # recv
      BY <1>7 DEF Send, Recv
    <3> HIDE DEF send, recv
    <3> QED
      BY <1>1, <1>8, <2>1, <2>3, <3>1, <3>2
  <2>4. CASE half_duplex_mode /\ ~SqeAvailable
    BY <1>2, <1>5, <1>10, <2>4 DEF SendDone
  <2> QED
    BY <2>2, <2>3, <2>4
<1>11. CASE RecvDone
  <2>1. ~d.is_send /\ received' = received + 1 /\ received' \in Nat
    BY <1>1, <1>11 DEF RecvDone
  <2>2. \/ half_duplex_mode /\ EndIteration(<<recv>>, inflight)
        \/ ~half_duplex_mode /\ EndIteration(<<send, recv>>, ReceivedInFlight)
        \/ Break("sqe") /\ sq' = Append(sq, send) /\ UNCHANGED <<kernel, cq>>
        \/ BreakUnseen("sqe")
    BY <1>11 DEF RecvDone
  <2>3. CASE half_duplex_mode /\ EndIteration(<<recv>>, inflight)
    <3>1. recv \in SqOps
      BY <1>7
    <3> HIDE DEF recv
    <3> QED
      BY <1>1, <1>8, <2>1, <2>3, <3>1
  <2>4. CASE ~half_duplex_mode /\ EndIteration(<<send, recv>>, ReceivedInFlight)
    <3> DEFINE prepared == <<send, recv>>
    <3>1. /\ recv \in SqOps /\ send \in SqOps
          /\ One(recv, LiveOps) = 1 /\ One(send, LiveOps) = 1
          /\ One(recv, RecvOps) = 1 /\ One(send, RecvOps) = 0
          /\ \A b \in Buffers : /\ One(recv, ReceiveOps(b)) = IF b = d.buffer_idx THEN 1 ELSE 0
                                /\ One(send, ReceiveOps(b)) = 0
      BY <1>7
    <3> HIDE DEF send, recv
    <3>2. prepared \in Seq(SqOps)
      BY <3>1
    <3>3. ASSUME NEW T PROVE Count(prepared, T) = One(send, T) + One(recv, T)
      <4> DEFINE first == <<send>>
      <4>1. first \in Seq(SqOps) /\ Count(first, T) = One(send, T) /\ prepared = Append(first, recv)
        BY <3>1, CountSingleton
      <4> HIDE DEF first, prepared
      <4> QED
        BY <3>1, <4>1, CountAppend
    <3>4. EndIteration(prepared, ReceivedInFlight)
      BY <2>4
    <3> HIDE DEF prepared
    <3>5. \A b \in Buffers : Count(prepared, ReceiveOps(b)) <= One(Cqe, ReceiveCqes(b))
      BY <1>6, <2>1, <3>1, <3>3
    <3>6. Count(prepared, RecvOps) >= One(Cqe, RecvCqes)
      BY <1>6, <2>1, <3>1, <3>3
    <3>7. /\ ReceivedInFlight \in Int
          /\ ReceivedInFlight = inflight + Count(prepared, LiveOps) - One(Cqe, LiveCqes)
                                 + (IF half_duplex_mode THEN 0 ELSE received' - received)
      BY <1>1, <1>6, <2>1, <2>4, <3>1, <3>3 DEF ReceivedInFlight
    <3> QED
      BY <1>1, <1>5, <2>1, <3>2, <3>4, <3>5, <3>6, <3>7, GoesOnKeepsRing
  <2>5. CASE Break("sqe") /\ sq' = Append(sq, send) /\ UNCHANGED <<kernel, cq>>
    <3>1. send \in SqOps /\ send \notin RecvOps
      BY <1>7
    <3> HIDE DEF send
    <3> QED
      BY <1>1, <1>5, <2>5, <3>1, BreaksOffKeepsRing DEF Break
  <2>6. CASE BreakUnseen("sqe")
    BY <1>2, <1>5, <2>6
  <2> QED
    BY <2>2, <2>3, <2>4, <2>5, <2>6
<1> QED
  BY <1>9, <1>10, <1>11

(* A call of handle_connection begins: the first call finds the ring empty *)
(* and puts in one operation for each buffer (server.cpp:305-362).         *)
LEMMA EnterKeepsRing ==
  ASSUME ServerInv, ServerInv', RingInv, EnterHandleConnection
  PROVE  RingInv'
<1> DEFINE first == [i \in 1 .. FirstCount |-> FirstOp(i - 1)]
<1>1. /\ TypeOK /\ passes \in Nat /\ half_duplex_mode \in BOOLEAN
      /\ sq \in Seq(SqOps) /\ kernel \in Seq(KernelOps) /\ cq \in Seq(RingCqes)
  BY DEF ServerInv, TypeOK, RingInv, RingTyped
<1>2. /\ UNCHANGED <<worldVars, cq, historyVars>> /\ passes' = passes + 1 /\ inflight' = FirstCount
      /\ half_duplex_mode' = half_duplex_mode /\ received' = received
  BY DEF EnterHandleConnection, worldVars, historyVars
<1>3. FirstCount \in Int /\ FirstCount <= InflightOps
  BY <1>1, ServerAssumption, LenProperties DEF FirstCount, Free
<1>4. first \in Seq(Ops) /\ Len(first) = IF FirstCount < 0 THEN 0 ELSE FirstCount
  <2>1. first \in Seq(Ops)
    BY <1>3, FirstOps
  <2>2. DOMAIN first = 1 .. FirstCount /\ DOMAIN first = 1 .. Len(first) /\ Len(first) \in Nat
    BY <2>1, LenProperties
  <2> HIDE DEF first
  <2> QED
    BY <1>3, <2>1, <2>2
<1>5. ASSUME NEW i \in 1 .. FirstCount
      PROVE  /\ first[i] \in Ops /\ first[i].data.buffer_idx = i - 1
             /\ first[i].kind = IF half_duplex_mode THEN "send_zc" ELSE "recv"
             /\ first[i].data.is_send = half_duplex_mode
  <2>1. first[i] = FirstOp(i - 1) /\ i \in 1 .. Len(first)
    BY <1>3, <1>4
  <2>2. first[i] \in Ops
    BY <1>4, <2>1, ElementOfSeq
  <2>3. CASE half_duplex_mode
    <3> DEFINE op == SendZc(i - 1, FdOf(i - 1))
    <3>1. first[i] = op
      BY <2>1, <2>3 DEF FirstOp
    <3>2. op.kind = "send_zc" /\ op.data.buffer_idx = i - 1 /\ op.data.is_send = TRUE
      BY DEF SendZc, UserDataOf
    <3> HIDE DEF op
    <3> QED
      BY <2>2, <2>3, <3>1, <3>2
  <2>4. CASE ~half_duplex_mode
    <3> DEFINE op == Recv(i - 1, FdOf(i - 1))
    <3>1. first[i] = op
      BY <2>1, <2>4 DEF FirstOp
    <3>2. op.kind = "recv" /\ op.data.buffer_idx = i - 1 /\ op.data.is_send = FALSE
      BY DEF Recv, UserDataOf
    <3> HIDE DEF op
    <3>3. half_duplex_mode = FALSE
      BY <1>1, <2>4
    <3> QED
      BY <2>2, <3>1, <3>2, <3>3
  <2> QED
    BY <2>3, <2>4
<1>6. DOMAIN first = 1 .. FirstCount
  OBVIOUS
<1> HIDE DEF first
<1>7. ASSUME NEW i \in 1 .. FirstCount
      PROVE  /\ first[i] \in SqOps /\ first[i] \in LiveOps
             /\ ~half_duplex_mode => first[i] \in RecvOps
  BY <1>5, <1>1 DEF SqOps, KernelOps, LiveOps, RecvOps
<1>8. first \in Seq(SqOps) /\ first \in Seq(SqOps \cap LiveOps)
      /\ (~half_duplex_mode => first \in Seq(RecvOps))
  <2>1. Len(first) \in Nat /\ first \in [1 .. Len(first) -> Ops] /\ 1 .. Len(first) = 1 .. FirstCount
    BY <1>4, <1>6, LenProperties
  <2>2. first \in [1 .. Len(first) -> SqOps] /\ first \in [1 .. Len(first) -> SqOps \cap LiveOps]
    BY <1>7, <2>1
  <2>3. ~half_duplex_mode => first \in [1 .. Len(first) -> RecvOps]
    BY <1>7, <2>1
  <2> QED
    BY <2>1, <2>2, <2>3
<1>9. \/ /\ first = <<>> /\ sq' = sq /\ kernel' = kernel /\ pc' = "leave" /\ lastExit' = "sqe"
      \/ /\ \E k \in Accepted(sq \o first) : Submit(sq \o first, k)
         /\ \/ pc' = "leave" /\ lastExit' \in {"submit", "sqe"}
            \/ pc' = "top" /\ lastExit' = lastExit /\ FirstCount >= InflightOps
  <2>1. CASE first = <<>>
    BY <2>1 DEF EnterHandleConnection, first
  <2>2. CASE first # <<>>
    <3>1. PICK k \in Accepted(sq \o first) :
            /\ Submit(sq \o first, k)
            /\ IF k = 0 THEN pc' = "leave" /\ lastExit' = "submit"
               ELSE IF FirstCount < InflightOps THEN pc' = "leave" /\ lastExit' = "sqe"
               ELSE pc' = "top" /\ UNCHANGED lastExit
      BY <2>2 DEF EnterHandleConnection, first
    <3>2. \/ pc' = "leave" /\ lastExit' \in {"submit", "sqe"}
          \/ pc' = "top" /\ lastExit' = lastExit /\ ~(FirstCount < InflightOps)
      BY <3>1
    <3>3. InflightOps \in Int
      BY ServerAssumption
    <3> QED
      BY <1>3, <3>1, <3>2, <3>3
  <2> QED
    BY <2>1, <2>2
<1>10. /\ RingTyped'
       /\ \A T : Count(sq', T) + Count(kernel', T) = Count(sq, T) + Count(kernel, T) + Count(first, T)
  <2>0. \A T : Count(sq, T) \in Nat /\ Count(kernel, T) \in Nat
    BY <1>1, CountType
  <2>1. CASE first = <<>> /\ sq' = sq /\ kernel' = kernel
    BY <1>1, <1>2, <2>0, <2>1, CountEmpty, RigidSets DEF RingTyped
  <2>2. ASSUME NEW k \in Accepted(sq \o first), Submit(sq \o first, k)
        PROVE  /\ RingTyped'
               /\ \A T : Count(sq', T) + Count(kernel', T)
                           = Count(sq, T) + Count(kernel, T) + Count(first, T)
    <3>1. sq \o first \in Seq(SqOps)
      BY <1>1, <1>8, ConcatProperties
    <3>2. \A T : Count(sq \o first, T) = Count(sq, T) + Count(first, T)
      BY <1>1, <1>8, CountConcat
    <3>3. sq' \in Seq(SqOps) /\ kernel' \in Seq(KernelOps)
      BY <1>1, <2>2, <3>1, SubmitCounts
    <3>4. \A T : Count(sq', T) + Count(kernel', T) = Count(sq \o first, T) + Count(kernel, T)
      BY <1>1, <2>2, <3>1, SubmitCounts
    <3>5. \A T : Count(first, T) \in Nat
      BY <1>8, CountType
    <3>6. RingTyped'
      BY <1>1, <1>2, <3>3, RigidSets DEF RingTyped
    <3>7. ASSUME NEW T
          PROVE  Count(sq', T) + Count(kernel', T)
                   = Count(sq, T) + Count(kernel, T) + Count(first, T)
      BY <2>0, <3>2, <3>4, <3>5
    <3> QED
      BY <3>6, <3>7
  <2> QED
    BY <1>9, <2>1, <2>2
<1>11. pc' = "top" => lastExit' = lastExit
  BY <1>9
<1>12. lastExit' = "drained" => passes' > 1
  BY <1>1, <1>2, <1>9 DEF RingInv
<1>13. CASE passes # 0
  <2>1. passes' # 0 /\ passes' # 1
    BY <1>1, <1>2, <1>13
  <2> QED
    BY <1>10, <1>12, <2>1
    DEF RingInv, OneReceivePerBuffer, InflightWhileFirst, ReceivesWhileFirst
<1>14. CASE passes = 0
  <2>1. /\ sq = <<>> /\ kernel = <<>> /\ cq' = <<>> /\ received' = 0 /\ passes' = 1
    BY <1>2, <1>14 DEF RingInv
  <2>2. ASSUME NEW T, NEW C
        PROVE  InRing(T, C)' = Count(first, T)
    <3>1. Count(sq, T) = 0 /\ Count(kernel, T) = 0 /\ Count(cq', C) = 0
      BY <2>1, CountEmpty
    <3>2. Count(first, T) \in Nat
      BY <1>8, CountType
    <3>3. Count(sq', T) + Count(kernel', T) = Count(first, T)
      BY <1>10, <3>1, <3>2
    <3> QED
      BY <3>1, <3>2, <3>3 DEF InRing
  <2>3. ASSUME NEW b \in Buffers
        PROVE  InRing(ReceiveOps(b), ReceiveCqes(b))' <= 1
    <3> DEFINE T == ReceiveOps(b)
    <3>1. \A i, j \in DOMAIN first : first[i] \in T /\ first[j] \in T => i = j
      <4>1. \A i \in DOMAIN first : first[i] \in T => b = i - 1
        BY <1>5, <1>6 DEF ReceiveOps
      <4> QED
        BY <1>3, <1>6, <4>1
    <3>2. InRing(ReceiveOps(b), ReceiveCqes(b))' = InRing(T, ReceiveCqes(b))'
      OBVIOUS
    <3> HIDE DEF T
    <3>3. Count(first, T) <= 1
      BY <1>8, <3>1, CountAtMostOne
    <3>4. InRing(ReceiveOps(b), ReceiveCqes(b))' = Count(first, T)
      BY <2>2 DEF T
    <3> QED
      BY <3>3, <3>4
  <2>4. OneReceivePerBuffer'
    BY <2>3, RigidSets DEF OneReceivePerBuffer
  <2>5. ASSUME pc' = "top"
        PROVE  FirstCount = InflightOps /\ InflightOps \in Nat \ {0} /\ Len(first) = InflightOps
    BY <1>3, <1>4, <1>9, <2>5, ServerAssumption
  <2>6. Live' = Len(first)
    <3>1. Live' = InRing(LiveOps, LiveCqes)'
      BY DEF Live
    <3>2. Count(first, LiveOps) = Len(first)
      BY <1>8, CountAll
    <3> QED
      BY <2>2, <3>1, <3>2
  <2>7. ~half_duplex_mode => InRing(RecvOps, RecvCqes)' = Len(first)
    <3>1. ~half_duplex_mode => Count(first, RecvOps) = Len(first)
      BY <1>8, CountAll
    <3> QED
      BY <2>2, <3>1
  <2>8. InLoop' => pc' = "top"
    BY <1>9 DEF InLoop
  <2>9. InflightWhileFirst' /\ ReceivesWhileFirst'
    BY <1>2, <2>1, <2>5, <2>6, <2>7, <2>8 DEF InflightWhileFirst, ReceivesWhileFirst
  <2> QED
    BY <1>10, <1>12, <2>1, <2>4, <2>9 DEF RingInv
<1> QED
  BY <1>13, <1>14

(* A completion moves an operation to the completions; a send_zc that went *)
(* through stays in the kernel as the notification that follows.           *)
LEMMA CompleteKeepsRing ==
  ASSUME ServerInv, RingInv, NEW i \in DOMAIN kernel, NEW res \in Results, Complete(i, res)
  PROVE  RingInv'
<1> DEFINE op == kernel[i]
           rest == [op EXCEPT !.kind = "notif"]
           cqe == [data |-> op.data, res |-> res, notif |-> op.kind = "notif"]
<1>1. sq \in Seq(SqOps) /\ kernel \in Seq(KernelOps) /\ cq \in Seq(RingCqes)
  BY DEF RingInv, RingTyped
<1>2. op \in KernelOps /\ op \in Ops
  BY <1>1, ElementOfSeq, LenProperties DEF KernelOps
<1>3. /\ cqe \in Cqes /\ cqe.data = op.data /\ cqe.res = res
      /\ cqe.notif = (op.kind = "notif")
  BY <1>2 DEF Ops, Cqes
<1>4. /\ cq' = Append(cq, cqe) /\ pc' = pc /\ pc = "blocked" /\ passes' = passes /\ sq' = sq
      /\ received' = received /\ inflight' = inflight /\ lastExit' = lastExit
      /\ half_duplex_mode' = half_duplex_mode
      /\ res \in Outcomes(op)
  BY DEF Complete, worldVars
<1>5. \/ kernel' = RemoveAt(kernel, i)
      \/ op.kind = "send_zc" /\ kernel' = [kernel EXCEPT ![i].kind = "notif"]
  <2>1. PICK more \in NotificationFollows(op, res) :
          kernel' = IF more THEN [kernel EXCEPT ![i].kind = "notif"] ELSE RemoveAt(kernel, i)
    BY DEF Complete
  <2>2. op.kind # "send_zc" => ~more
    BY DEF NotificationFollows
  <2> QED
    BY <2>1, <2>2
<1>6. cqe \in RingCqes
  <2>1. op.kind = "notif" => res = "none"
    BY <1>4 DEF Outcomes
  <2>2. op.kind = "notif" => op.data.is_send
    BY <1>2 DEF KernelOps, Ops, UserData
  <2> QED
    BY <1>3, <2>1, <2>2 DEF RingCqes
<1>7. op.kind = "send_zc" => /\ rest \in KernelOps /\ rest \notin LiveOps /\ rest \notin RecvOps
                             /\ \A b \in Buffers : rest \notin ReceiveOps(b)
  <2> SUFFICES ASSUME op.kind = "send_zc"
               PROVE  /\ rest \in KernelOps /\ rest \notin LiveOps /\ rest \notin RecvOps
                      /\ \A b \in Buffers : rest \notin ReceiveOps(b)
    OBVIOUS
  <2>1. op.data.is_send
    BY <1>2 DEF KernelOps
  <2>2. rest \in Ops /\ rest.kind = "notif" /\ rest.data = op.data
    BY <1>2 DEF Ops, Kinds
  <2> HIDE DEF rest
  <2> QED
    BY <2>1, <2>2 DEF KernelOps, LiveOps, RecvOps, ReceiveOps
<1>8. /\ cqe \in LiveCqes <=> op \in LiveOps
      /\ cqe \in RecvCqes <=> op \in RecvOps
      /\ \A b \in Buffers : cqe \in ReceiveCqes(b) <=> op \in ReceiveOps(b)
  BY <1>2, <1>3 DEF LiveCqes, LiveOps, RecvCqes, RecvOps, ReceiveCqes, ReceiveOps, KernelOps
<1>9. kernel' = RemoveAt(kernel, i) \/ (op.kind = "send_zc" /\ kernel' = [kernel EXCEPT ![i] = rest])
  BY <1>5
<1>0. op = kernel[i]
  OBVIOUS
<1> HIDE DEF op, rest, cqe
<1>10. /\ kernel' \in Seq(KernelOps) /\ cq' \in Seq(RingCqes)
       /\ \A T, C : (cqe \in C <=> op \in T) /\ (op.kind = "send_zc" => rest \notin T)
                     => InRing(T, C)' = InRing(T, C)
  <2>1. cq' \in Seq(RingCqes)
    BY <1>1, <1>4, <1>6, AppendProperties
  <2>2. ASSUME NEW C PROVE Count(cq', C) = Count(cq, C) + One(cqe, C)
    BY <1>1, <1>4, <1>6, CountAppend
  <2>3. \A T : Count(sq, T) \in Nat /\ Count(kernel, T) \in Nat
    BY <1>1, CountType
  <2>4. \A C : Count(cq, C) \in Nat
    BY <1>1, CountType
  <2>5. CASE kernel' = RemoveAt(kernel, i)
    <3>1. kernel' \in Seq(KernelOps) /\ \A T : Count(kernel, T) = Count(kernel', T) + One(op, T)
      BY <1>0, <1>1, <2>5, CountRemoveAt
    <3>2. \A T : Count(kernel', T) \in Nat
      BY <3>1, CountType
    <3>3. ASSUME NEW T, NEW C, cqe \in C <=> op \in T
          PROVE  InRing(T, C)' = InRing(T, C)
      <4>1. One(cqe, C) = One(op, T) /\ One(op, T) \in Nat
        BY <3>3 DEF One
      <4>2. InRing(T, C)' = Count(sq, T) + Count(kernel', T) + Count(cq', C)
        BY <1>4 DEF InRing
      <4> QED
        BY <2>2, <2>3, <2>4, <3>1, <3>2, <4>1, <4>2 DEF InRing
    <3> QED
      BY <2>1, <3>1, <3>3
  <2>6. CASE op.kind = "send_zc" /\ kernel' = [kernel EXCEPT ![i] = rest]
    <3>1. /\ kernel' \in Seq(KernelOps)
          /\ \A T : Count(kernel', T) + One(op, T) = Count(kernel, T) + One(rest, T)
      <4>0. rest \in KernelOps
        BY <1>7, <2>6
      <4>1. [kernel EXCEPT ![i] = rest] \in Seq(KernelOps)
        BY <1>1, <4>0, CountReplace
      <4>2. ASSUME NEW T
            PROVE  Count([kernel EXCEPT ![i] = rest], T) + One(kernel[i], T)
                     = Count(kernel, T) + One(rest, T)
        BY <1>1, <4>0, CountReplace
      <4> QED
        BY <1>0, <2>6, <4>1, <4>2
    <3>2. \A T : Count(kernel', T) \in Nat
      BY <3>1, CountType
    <3>3. ASSUME NEW T, NEW C, cqe \in C <=> op \in T,
                 op.kind = "send_zc" => rest \notin T
          PROVE  InRing(T, C)' = InRing(T, C)
      <4>1. One(cqe, C) = One(op, T) /\ One(op, T) \in Nat /\ One(rest, T) = 0
        BY <2>6, <3>3 DEF One
      <4>2. InRing(T, C)' = Count(sq, T) + Count(kernel', T) + Count(cq', C)
        BY <1>4 DEF InRing
      <4> QED
        BY <2>2, <2>3, <2>4, <3>1, <3>2, <4>1, <4>2 DEF InRing
    <3> QED
      BY <2>1, <3>1, <3>3
  <2> QED
    BY <1>9, <2>5, <2>6
<1>11. RingTyped'
  BY <1>1, <1>4, <1>10, RigidSets DEF RingTyped
<1>12. Live' = Live
  BY <1>7, <1>8, <1>10, RigidSets DEF Live
<1>13. InRing(RecvOps, RecvCqes)' = InRing(RecvOps, RecvCqes)
  BY <1>7, <1>8, <1>10
<1>14. OneReceivePerBuffer'
  <2>1. \A b \in Buffers : InRing(ReceiveOps(b), ReceiveCqes(b))' = InRing(ReceiveOps(b), ReceiveCqes(b))
    BY <1>7, <1>8, <1>10
  <2> QED
    BY <1>4, <2>1, RigidSets DEF RingInv, OneReceivePerBuffer
<1>15. passes # 0
  BY <1>4 DEF ServerInv, FirstReport
<1> QED
  BY <1>4, <1>11, <1>12, <1>13, <1>14, <1>15
  DEF RingInv, InflightWhileFirst, ReceivesWhileFirst, InLoop

(* The other steps leave the ring and the counters of the call alone.      *)
LEMMA OtherStepsKeepRing ==
  ASSUME RingInv, UNCHANGED <<ringVars, passes, received, inflight, half_duplex_mode>>,
         lastExit' \in {lastExit, "deadline", "wait"}, InLoop' => InLoop
  PROVE  RingInv'
<1>1. RingTyped'
  BY RigidSets DEF RingInv, RingTyped, ringVars
<1>2. /\ InRing(LiveOps, LiveCqes)' = InRing(LiveOps, LiveCqes)
      /\ InRing(RecvOps, RecvCqes)' = InRing(RecvOps, RecvCqes)
  BY RigidSets DEF InRing, ringVars
<1>3. \A b \in Buffers : InRing(ReceiveOps(b), ReceiveCqes(b))' = InRing(ReceiveOps(b), ReceiveCqes(b))
  BY RigidSets DEF InRing, ringVars
<1>4. OneReceivePerBuffer'
  BY <1>3, RigidSets DEF RingInv, OneReceivePerBuffer
<1> QED
  BY <1>1, <1>2, <1>4 DEF RingInv, InflightWhileFirst, ReceivesWhileFirst, Live, ringVars

LEMMA InitRing == Init => RingInv
<1> SUFFICES ASSUME Init PROVE RingInv
  OBVIOUS
<1>1. RingTyped
  BY EmptySeq DEF Init, RingTyped
<1> QED
  BY <1>1 DEF Init, RingInv, OneReceivePerBuffer, InflightWhileFirst, ReceivesWhileFirst, InLoop

LEMMA NextKeepsRing == ServerInv /\ ServerInv' /\ RingInv /\ [Next]_vars => RingInv'
<1> SUFFICES ASSUME ServerInv, ServerInv', RingInv, [Next]_vars PROVE RingInv'
  OBVIOUS
<1>1. CASE EnterHandleConnection
  BY <1>1, EnterKeepsRing
<1>2. CASE StopWorking \/ WaitTimesOut \/ Leave
  BY <1>2, OtherStepsKeepRing
  DEF StopWorking, WaitTimesOut, Leave, worldVars, historyVars, InLoop
<1>3. CASE LoopTop
  BY <1>3, OtherStepsKeepRing DEF LoopTop, Break, worldVars, historyVars, InLoop
<1>4. CASE WaitFails
  BY <1>4, OtherStepsKeepRing DEF WaitFails, Break, worldVars, historyVars, InLoop
<1>5. CASE Handle
  BY <1>5, HandleKeepsRing
<1>6. ASSUME NEW i \in DOMAIN kernel, NEW res \in Results, Complete(i, res)
      PROVE  RingInv'
  BY <1>6, CompleteKeepsRing
<1>7. CASE ClientCloses \/ Tick \/ AcceptorStops
  BY <1>7, OtherStepsKeepRing DEF ClientCloses, Tick, AcceptorStops, historyVars, InLoop
<1>8. CASE UNCHANGED vars
  BY <1>8, OtherStepsKeepRing DEF vars, ringVars, InLoop
<1> QED
  BY <1>1, <1>2, <1>3, <1>4, <1>5, <1>6, <1>7, <1>8
  DEF Next, Worker, Kernel, Environment, Terminated

(* The state of one worker keeps its types through every call of           *)
(* handle_connection (server.cpp:286-579), and with them what the          *)
(* completions in its ring and its report mean.                            *)
THEOREM ServerInvariant == Spec => []ServerInv
<1>1. Init => ServerInv
  BY InitInv
<1>2. ServerInv /\ [Next]_vars => ServerInv'
  BY NextKeepsInv
<1> QED
  BY <1>1, <1>2, PTL DEF Spec

(* A worker that has called handle_connection once reports the messages it *)
(* sent: no way out of the loop loses or doubles any (server.cpp:578).     *)
THEOREM ReportAlways == Spec => []ReportCoversOneCall
<1>1. ServerInv => ReportCoversOneCall
  BY DEF ServerInv, FirstReport, ReportCoversOneCall
<1> QED
  BY <1>1, ServerInvariant, PTL

(* "Connection closed by client" (server.cpp:434) means that the stream    *)
(* has ended or that the buffer of a send_zc has been released.            *)
THEOREM ClosedMessageAlways == Spec => []ClosedMeansClosedOrReleased
<1>1. ServerInv => ClosedMeansClosedOrReleased
  <2> SUFFICES ASSUME ServerInv, lastExit = "closed"
               PROVE  Head(cq).notif \/ Head(cq).data.fd \in closed
    BY DEF ClosedMeansClosedOrReleased
  <2>1. cq \in Seq(TrueCqes) /\ cq # <<>> /\ Head(cq).res = "none"
    BY DEF ServerInv, ClosedIsFirst
  <2>2. Head(cq) \in TrueCqes
    BY <2>1, HeadTailProperties
  <2> QED
    BY <2>1, <2>2 DEF TrueCqes
<1> QED
  BY <1>1, ServerInvariant, PTL

(* An end of stream or an error at the head of the completion ring is      *)
(* never consumed: every handler of it breaks before io_uring_cqe_seen     *)
(* (server.cpp:419-437, 558).                                              *)
THEOREM LossNeverConsumedAlways == Spec => LossIsNeverConsumed
<1>1. ServerInv /\ [Next]_vars =>
        [cq # <<>> /\ Fatal(Head(cq)) => cq' # <<>> /\ Head(cq') = Head(cq)]_vars
  <2> SUFFICES ASSUME ServerInv, Next, cq # <<>>, Fatal(Head(cq))
               PROVE  cq' # <<>> /\ Head(cq') = Head(cq)
    OBVIOUS
  <2>1. cq \in Seq(Cqes) /\ Head(cq).res \in {"none", "error"}
    BY DEF ServerInv, TypeOK, Fatal
  <2>2. CASE EnterHandleConnection \/ StopWorking \/ LoopTop \/ WaitTimesOut \/ Leave
    BY <2>2 DEF EnterHandleConnection, StopWorking, LoopTop, WaitTimesOut, Leave, ringVars
  <2>3. CASE OperationError \/ ClosedByClient
    BY <2>3 DEF OperationError, ClosedByClient, BreakUnseen, ringVars
  <2>4. ~(Resubmit \/ SendDone \/ RecvDone)
    BY <2>1 DEF Resubmit, SendDone, RecvDone, Cqe
  <2>5. ASSUME NEW i \in DOMAIN kernel, NEW res \in Results, Complete(i, res)
        PROVE  cq' # <<>> /\ Head(cq') = Head(cq)
    <3>1. cq' = Append(cq, [data |-> kernel[i].data, res |-> res,
                             notif |-> kernel[i].kind = "notif"])
      BY <2>5 DEF Complete
    <3>2. kernel \in Seq(Ops) /\ kernel[i] \in Ops
      BY ElementOfSeq, LenProperties DEF ServerInv, TypeOK
    <3>3. [data |-> kernel[i].data, res |-> res, notif |-> kernel[i].kind = "notif"] \in Cqes
      BY <3>2 DEF Ops, Cqes
    <3> QED
      BY <2>1, <3>1, <3>3, AppendProperties
  <2>6. CASE WaitFails \/ ClientCloses \/ Tick \/ AcceptorStops \/ Terminated
    BY <2>6 DEF WaitFails, ClientCloses, Tick, AcceptorStops, Terminated, ringVars, vars
  <2> QED
    BY <2>2, <2>3, <2>4, <2>5, <2>6 DEF Next, Worker, Handle, Kernel, Environment
<1> QED
  BY <1>1, ServerInvariant, PTL DEF Spec, LossIsNeverConsumed

(* What the ring holds, in every state of a worker: each receive of the    *)
(* first call has its buffer to itself, and inflight is the operations of  *)
(* the call plus, in full duplex, the requests it has received.            *)
THEOREM RingInvariant == Spec => []RingInv
<1>1. Init => RingInv
  BY InitRing
<1>2. ServerInv /\ ServerInv' /\ RingInv /\ [Next]_vars => RingInv'
  BY NextKeepsRing
<1> QED
  BY <1>1, <1>2, ServerInvariant, PTL DEF Spec

(* In the first call no two receives fill the same buffer, whatever the    *)
(* submission ring's size and however submits fall short                   *)
(* (server.cpp:305-362, 460-553).                                          *)
THEOREM OneReceiveAlways == Spec => []OneReceivePerBuffer
<1>1. RingInv => OneReceivePerBuffer
  BY DEF RingInv
<1> QED
  BY <1>1, RingInvariant, PTL

(* inflight counts every request as one more operation, so in full duplex  *)
(* the first call never takes the exit for an idle ring (server.cpp:572).  *)
THEOREM InflightAlways == Spec => []InflightAccounting
<1>1. ServerInv /\ RingInv => InflightAccounting
  BY DEF ServerInv, RingInv, InflightAccounting
<1> QED
  BY <1>1, ServerInvariant, RingInvariant, PTL
=============================================================================
