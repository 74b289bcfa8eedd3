-------------------------- MODULE UringClientProofs -------------------------
(***************************************************************************)
(* What UringClient promises for every number of buffers, connections and  *)
(* ring entries, in both modes and with every fault; and at the end what   *)
(* the client and the server of a full-duplex pair keep together on the    *)
(* streams of their connection (PageStream).                               *)
(***************************************************************************)
EXTENDS UringClient, CountLemmas

(* Taking element i out of a sequence keeps its type and shortens it by    *)
(* one: a completed operation leaves the kernel (external: io_uring).      *)
LEMMA RemoveAtType ==
  ASSUME NEW S, NEW s \in Seq(S), NEW i \in DOMAIN s
  PROVE  /\ RemoveAt(s, i) \in Seq(S)
         /\ Len(RemoveAt(s, i)) = Len(s) - 1
<1> DEFINE n == Len(s)
           before == SubSeq(s, 1, i - 1)
           after == SubSeq(s, i + 1, n)
<1>1. n \in Nat /\ i \in 1 .. n
  BY LenProperties
<1>2. before \in Seq(S) /\ Len(before) = i - 1
  BY <1>1, SubSeqProperties
<1>3. after \in Seq(S) /\ Len(after) = n - i
  BY <1>1, SubSeqProperties
<1>4. RemoveAt(s, i) = before \o after
  BY DEF RemoveAt
<1> HIDE DEF before, after
<1>5. /\ before \o after \in Seq(S)
      /\ Len(before \o after) = Len(before) + Len(after)
  BY <1>2, <1>3, ConcatProperties
<1> QED
  BY <1>1, <1>2, <1>3, <1>4, <1>5

(* Handing the first k prepared entries to the kernel moves operations and *)
(* loses none (client.cpp:206-212 and 353-360).                            *)
LEMMA SubmitMoves ==
  ASSUME NEW S, NEW pending \in Seq(S), NEW k \in 0 .. Len(pending),
         kernel \in Seq(S), Submit(pending, k)
  PROVE  /\ kernel' \in Seq(S) /\ sq' \in Seq(S)
         /\ Len(kernel') = Len(kernel) + k
         /\ Len(sq') = Len(pending) - k
<1>1. Len(pending) \in Nat /\ Len(kernel) \in Nat
  BY LenProperties
<1>2. SubSeq(pending, 1, k) \in Seq(S) /\ Len(SubSeq(pending, 1, k)) = k
  BY <1>1, SubSeqProperties
<1>3. /\ SubSeq(pending, k + 1, Len(pending)) \in Seq(S)
      /\ Len(SubSeq(pending, k + 1, Len(pending))) = Len(pending) - k
  BY <1>1, SubSeqProperties
<1> QED
  BY <1>1, <1>2, <1>3, ConcatProperties DEF Submit

(* The number of first operations is at least one and fits both bounds. *)
LEMMA StartedBounds ==
  Started \in Nat /\ 1 <= Started /\ Started <= InflightOps /\ Started <= QueueDepth
<1>1. /\ InflightOps \in Nat /\ InflightOps # 0
      /\ QueueDepth \in Nat /\ QueueDepth # 0
  BY ClientAssumption
<1> QED
  BY <1>1 DEF Started

(* How many of n prepared entries a submit may take. *)
LEMMA AcceptedRange ==
  ASSUME NEW S, NEW pending \in Seq(S), NEW k \in Accepted(pending)
  PROVE  k \in 0 .. Len(pending)
BY LenProperties DEF Accepted

(* The ring holds operations of the set S only. *)
RingOf(S) ==
  /\ sq \in Seq(S) /\ kernel \in Seq(S)
  /\ cq \in Seq([data : S, res : Results])

(* An iteration takes one completion out of the ring and puts in what it   *)
(* prepared, at most one operation (client.cpp:320, 353-364).              *)
LEMMA EndIterationCounts ==
  ASSUME NEW S, NEW prepared \in Seq(S), NEW n \in Int,
         RingOf(S), cq # <<>>, EndIteration(prepared, n)
  PROVE  /\ RingOf(S)'
         /\ Outstanding' = Outstanding - 1 + Len(prepared)
         /\ inflight' = n
         /\ \/ pc' = "top" /\ exit' = exit
            \/ pc' = "done" /\ exit' = "submit"
            \/ pc' = "done" /\ exit' = "deadline" /\ n = 0 /\ late
<1> USE DEF RingOf
<1>1. /\ cq' \in Seq([data : S, res : Results])
      /\ Len(cq') = Len(cq) - 1
  BY HeadTailProperties DEF EndIteration
<1>2. Len(sq) \in Nat /\ Len(kernel) \in Nat /\ Len(cq) \in Nat /\ Len(prepared) \in Nat
  BY LenProperties
<1>3. CASE prepared = <<>>
  <2>1. Len(prepared) = 0
    BY <1>3, EmptySeq
  <2>2. sq' = sq /\ kernel' = kernel
    BY <1>3 DEF EndIteration
  <2> QED
    BY <1>1, <1>2, <1>3, <2>1, <2>2 DEF EndIteration, LeaveOrLoop, Outstanding
<1>4. CASE prepared # <<>>
  <2>1. PICK k \in Accepted(sq \o prepared) :
          /\ Submit(sq \o prepared, k)
          /\ IF k = 0 THEN pc' = "done" /\ exit' = "submit" ELSE LeaveOrLoop(n)
    BY <1>4 DEF EndIteration
  <2>2. /\ sq \o prepared \in Seq(S)
        /\ Len(sq \o prepared) = Len(sq) + Len(prepared)
    BY ConcatProperties
  <2>3. k \in 0 .. Len(sq \o prepared)
    BY <2>2, AcceptedRange
  <2>4. /\ kernel' \in Seq(S) /\ sq' \in Seq(S)
        /\ Len(kernel') = Len(kernel) + k
        /\ Len(sq') = Len(sq \o prepared) - k
    BY <2>1, <2>2, <2>3, SubmitMoves
  <2>5. Outstanding' = Outstanding - 1 + Len(prepared)
    BY <1>1, <1>2, <2>2, <2>3, <2>4 DEF Outstanding
  <2> QED
    BY <1>1, <2>1, <2>4, <2>5 DEF EndIteration, LeaveOrLoop
<1> QED
  BY <1>3, <1>4

(* With a free entry the next operation replaces the completed one; with   *)
(* none the thread stops and the ring is left as it was.                   *)
LEMMA PrepareNextCounts ==
  ASSUME NEW S, NEW op \in S, NEW n \in Int, inflight \in Int,
         RingOf(S), cq # <<>>, PrepareNext(op, n)
  PROVE  /\ RingOf(S)'
         /\ inflight' \in Int
         /\ Outstanding' = Outstanding
         /\ \/ pc' = "top" /\ exit' = exit /\ inflight' = n
            \/ pc' = "done" /\ exit' \in {"sqe", "submit"}
            \/ pc' = "done" /\ exit' = "deadline" /\ n = 0 /\ late
<1>1. CASE SqeAvailable
  <2>1. <<op>> \in Seq(S) /\ Len(<<op>>) = 1
    OBVIOUS
  <2>2. EndIteration(<<op>>, n)
    BY <1>1 DEF PrepareNext
  <2>3. /\ RingOf(S)' /\ inflight' = n
        /\ Outstanding' = Outstanding - 1 + Len(<<op>>)
        /\ \/ pc' = "top" /\ exit' = exit
           \/ pc' = "done" /\ exit' = "submit"
           \/ pc' = "done" /\ exit' = "deadline" /\ n = 0 /\ late
    BY <2>1, <2>2, EndIterationCounts
  <2>4. Outstanding \in Int
    BY LenProperties DEF RingOf, Outstanding
  <2> QED
    BY <2>1, <2>3, <2>4
<1>2. CASE ~SqeAvailable
  <2>1. /\ UNCHANGED ringVars /\ UNCHANGED inflight
        /\ pc' = "done" /\ exit' = "sqe"
    BY <1>2 DEF PrepareNext, Break
  <2> QED
    BY <2>1 DEF RingOf, Outstanding, ringVars
<1> QED
  BY <1>1, <1>2

(* What inflight must be when out operations are left and total requests   *)
(* are completed.                                                          *)
Accounted(out, total) ==
  IF half_duplex_mode THEN out ELSE 2 * out + total - Started

(* The end of a handler that prepares one operation or none keeps the      *)
(* whole invariant, provided the operation is the buffer's own and the     *)
(* handler's sums are the accounted ones.                                  *)
LEMMA HandlerKeepsInv ==
  ASSUME ClientInv, Handling, NEW n \in Int, NEW total \in Nat,
         UNCHANGED <<clientVars, expired, late, closed>>,
         total_requests_completed' = total,
         \/ /\ \E op \in OwnedOps : PrepareNext(op, n)
            /\ total >= total_requests_completed
            /\ n = Accounted(Outstanding, total)
         \/ /\ EndIteration(<<>>, n)
            /\ total > total_requests_completed
            /\ n = Accounted(Outstanding - 1, total)
  PROVE  ClientInv'
<1>1. PICK S : S = OwnedOps
  OBVIOUS
<1>2. /\ OwnedOps' = S /\ S \subseteq UserData
      /\ half_duplex_mode' = half_duplex_mode
      /\ connections' = connections
  BY <1>1 DEF OwnedOps, clientVars
<1>3. RingOf(S) /\ cq # <<>> /\ inflight \in Int /\ exit = "running" /\ pc = "blocked"
  BY <1>1 DEF ClientInv, RingOf, Handling, TypeOK
<1>4. /\ Outstanding \in Int /\ total_requests_completed \in Nat /\ Started \in Nat
      /\ Outstanding <= Started
      /\ Outstanding + total_requests_completed >= Started
  BY <1>3, LenProperties, StartedBounds DEF ClientInv, RingOf, Outstanding, InLoop, TypeOK
<1>5. PICK out \in Int :
      /\ RingOf(S)' /\ inflight' \in Int
      /\ Outstanding' = out
      /\ out <= Started /\ out + total >= Started
      /\ \/ pc' = "top" /\ exit' = "running" /\ inflight' = Accounted(out, total)
         \/ pc' = "done" /\ exit' \in {"sqe", "submit"}
         \/ pc' = "done" /\ exit' = "deadline" /\ Accounted(out, total) = 0
  <2>1. CASE /\ \E op \in OwnedOps : PrepareNext(op, n)
             /\ total >= total_requests_completed
             /\ n = Accounted(Outstanding, total)
    <3>1. PICK op \in S : PrepareNext(op, n)
      BY <1>1, <2>1
    <3>2. /\ RingOf(S)' /\ inflight' \in Int /\ Outstanding' = Outstanding
          /\ \/ pc' = "top" /\ exit' = exit /\ inflight' = n
             \/ pc' = "done" /\ exit' \in {"sqe", "submit"}
             \/ pc' = "done" /\ exit' = "deadline" /\ n = 0 /\ late
      BY <1>3, <3>1, PrepareNextCounts
    <3>3. Outstanding <= Started /\ Outstanding + total >= Started
      BY <1>4, <2>1
    <3> QED
      BY <1>3, <1>4, <2>1, <3>2, <3>3
  <2>2. CASE /\ EndIteration(<<>>, n)
             /\ total > total_requests_completed
             /\ n = Accounted(Outstanding - 1, total)
    <3>1. <<>> \in Seq(S) /\ Len(<<>>) = 0
      BY EmptySeq
    <3>2. /\ RingOf(S)' /\ inflight' = n /\ Outstanding' = Outstanding - 1 + Len(<<>>)
          /\ \/ pc' = "top" /\ exit' = exit
             \/ pc' = "done" /\ exit' = "submit"
             \/ pc' = "done" /\ exit' = "deadline" /\ n = 0 /\ late
      BY <1>3, <2>2, <3>1, EndIterationCounts
    <3>3. Outstanding' = Outstanding - 1
      BY <1>4, <3>1, <3>2
    <3>4. /\ Outstanding - 1 \in Int
          /\ Outstanding - 1 <= Started /\ Outstanding - 1 + total >= Started
      BY <1>4, <2>2
    <3> QED
      BY <1>3, <2>2, <3>2, <3>3, <3>4
  <2> QED
    BY <2>1, <2>2
<1>6. /\ sq' \in Seq(OwnedOps') /\ kernel' \in Seq(OwnedOps')
      /\ cq' \in Seq([data : OwnedOps', res : Results])
  BY <1>2, <1>5 DEF RingOf
<1>7. TypeOK'
  <2>1. sq' \in Seq(UserData) /\ kernel' \in Seq(UserData)
    BY <1>2, <1>5, SeqMonotonic DEF RingOf
  <2>2. cq' \in Seq(Cqes)
    <3>1. [data : S, res : Results] \subseteq Cqes
      BY <1>2 DEF Cqes
    <3> QED
      BY <1>5, <3>1, SeqMonotonic DEF RingOf
  <2> QED
    BY <1>5, <2>1, <2>2 DEF ClientInv, TypeOK, clientVars
<1>8. CleanExit'
  <2>1. ASSUME exit' = "deadline"
        PROVE  out = 0 /\ (half_duplex_mode \/ total = Started)
    <3>1. Accounted(out, total) = 0
      BY <1>5, <2>1
    <3>2. out \in Nat
      BY <1>5, LenProperties DEF RingOf, Outstanding
    <3>3. CASE half_duplex_mode
      BY <3>1, <3>3 DEF Accounted
    <3>4. CASE ~half_duplex_mode
      BY <1>4, <1>5, <3>1, <3>2, <3>4 DEF Accounted
    <3> QED
      BY <3>3, <3>4
  <2> QED
    BY <1>2, <1>5, <2>1 DEF CleanExit, Started
<1>9. InflightAccounting'
  BY <1>2, <1>5 DEF InflightAccounting, InLoop, Accounted, Started
<1>10. Len(connections') = ConnectionsPerThread
  BY <1>2, <1>3 DEF ClientInv
<1>11. pc' \in {"top", "done"} /\ (exit' = "running" <=> pc' # "done") /\ exit' # "setup"
  BY <1>5
<1>12. /\ Outstanding' <= Started
       /\ Outstanding' + total_requests_completed' >= Started
  BY <1>5, Zenon
<1> QED
  BY <1>6, <1>7, <1>8, <1>9, <1>10, <1>11, <1>12 DEF ClientInv, Started

(* A descriptor below 2^16 survives the packing. *)
LEMMA FdFits == \A fd \in Uint16 : fd % 65536 = fd
BY DEF Uint16

(* Filling the ring: every buffer's first operation is its own.            *)
LEMMA StartKeepsInv ==
  ASSUME ClientInv, Start
  PROVE  ClientInv'
<1>1. /\ pc = "wait" /\ Len(connections) = ConnectionsPerThread
      /\ connections \in Seq(Fds) /\ ConnectionsPerThread \in Nat \ {0}
      /\ sq = <<>> /\ kernel = <<>> /\ cq = <<>> /\ total_requests_completed = 0
  <2>1. Len(connections) \in Nat /\ ConnectionsPerThread \in Nat \ {0}
    <3>1. connections \in Seq(Fds)
      BY DEF ClientInv, TypeOK
    <3>2. Len(connections) \in Nat
      BY <3>1, LenProperties
    <3> QED
      BY <3>2, ClientAssumption
  <2>2. pc = "wait" /\ Len(connections) >= ConnectionsPerThread
    BY DEF Start
  <2>3. /\ Len(connections) <= ConnectionsPerThread
        /\ connections \in Seq(Fds)
        /\ sq = <<>> /\ kernel = <<>> /\ cq = <<>> /\ total_requests_completed = 0
    BY <2>2 DEF ClientInv, TypeOK
  <2> QED
    BY <2>1, <2>2, <2>3
<1>2. PICK S : S = OwnedOps
  OBVIOUS
<1>3. /\ OwnedOps' = S /\ S \subseteq UserData
      /\ half_duplex_mode' = half_duplex_mode /\ connections' = connections
  BY <1>2 DEF OwnedOps, Start, clientVars
<1>4. Started \in Nat /\ 1 <= Started /\ InflightOps \in Nat /\ Started <= InflightOps
  BY StartedBounds, ClientAssumption
<1>5. ASSUME NEW b \in 0 .. Started - 1
      PROVE  FirstOp(b) \in S
  <2>1. (b % ConnectionsPerThread) + 1 \in 1 .. Len(connections) /\ b \in Buffers
    BY <1>1, <1>4 DEF Buffers
  <2>2. FdOf(b) \in Fds /\ FdOf(b) = connections[(b % ConnectionsPerThread) + 1]
    BY <1>1, <2>1, ElementOfSeq DEF FdOf
  <2>3. FdOf(b) \in Uint16
    <3>1. Fds \subseteq Uint16
      BY ClientAssumption
    <3> QED
      BY <2>2, <3>1
  <2>4. FdOf(b) % 65536 = FdOf(b)
    BY <2>3, FdFits
  <2>5. half_duplex_mode \in BOOLEAN
    BY DEF ClientInv, TypeOK
  <2>6. FirstOp(b) = [buffer_idx |-> b, is_send |-> ~half_duplex_mode, fd |-> FdOf(b)]
    BY <2>4 DEF FirstOp, PackUserData
  <2>7. FirstOp(b) \in UserData
    BY <2>1, <2>3, <2>5, <2>6 DEF UserData
  <2>8. FirstOp(b).buffer_idx = b /\ FirstOp(b).fd = FdOf(b)
    BY <2>6
  <2>9. FirstOp(b).is_send = ~half_duplex_mode
    BY <2>6
  <2>10. half_duplex_mode => ~FirstOp(b).is_send
    BY <2>5, <2>9
  <2> QED
    BY <1>2, <2>2, <2>7, <2>8, <2>10 DEF OwnedOps
<1> DEFINE first == [i \in 1 .. Started |-> FirstOp(i - 1)]
<1>6. first \in Seq(S) /\ Len(first) = Started
  <2>1. ASSUME NEW i \in 1 .. Started PROVE FirstOp(i - 1) \in S
    BY <1>4, <1>5
  <2>2. first \in [1 .. Started -> S]
    BY <2>1
  <2> QED
    BY <1>4, <2>2
<1>7. PICK k \in Accepted(first) : Submit(first, k)
  BY DEF Start
<1>8. /\ cq' = cq /\ inflight' = Started /\ pc' = "top" /\ exit' = exit
      /\ total_requests_completed' = 0
  BY <1>1 DEF Start
<1>9. k \in 0 .. Started
  BY <1>6, <1>7, AcceptedRange
<1> HIDE DEF first
<1>10. kernel \in Seq(S) /\ cq' \in Seq([data : S, res : Results]) /\ Len(cq') = 0 /\ Len(kernel) = 0
  BY <1>1, <1>8, EmptySeq
<1>11. /\ kernel' \in Seq(S) /\ sq' \in Seq(S)
       /\ Len(kernel') = Len(kernel) + k /\ Len(sq') = Len(first) - k
  BY <1>6, <1>7, <1>9, <1>10, SubmitMoves
<1>12. Outstanding' = Started
  BY <1>4, <1>6, <1>9, <1>10, <1>11 DEF Outstanding
<1>13. TypeOK'
  <2>1. sq' \in Seq(UserData) /\ kernel' \in Seq(UserData)
    BY <1>3, <1>11, SeqMonotonic
  <2>2. cq' \in Seq(Cqes)
    BY <1>1, <1>8, EmptySeq
  <2> QED
    BY <1>4, <1>8, <2>1, <2>2 DEF ClientInv, TypeOK, Start, clientVars
<1>14. InflightAccounting'
  BY <1>3, <1>4, <1>8, <1>12 DEF InflightAccounting, Started
<1>15. exit' = "running" /\ CleanExit'
  BY <1>1, <1>8 DEF ClientInv, CleanExit
<1>16. /\ Outstanding' <= Started /\ Outstanding' + total_requests_completed' >= Started
  <2>1. Started <= Started /\ Started + 0 >= Started
    BY <1>4
  <2> QED
    BY <1>8, <1>12, <2>1, Zenon
<1> QED
  BY <1>1, <1>3, <1>8, <1>10, <1>11, <1>13, <1>14, <1>15, <1>16 DEF ClientInv, InLoop, Started

(* The operation of the completion at hand is the buffer's own, and so is  *)
(* each operation a handler derives from it.                               *)
LEMMA DerivedOpsAreOwned ==
  ASSUME ClientInv, Handling
  PROVE  /\ Cqe.data \in OwnedOps
         /\ half_duplex_mode => ~Cqe.data.is_send
         /\ ~half_duplex_mode => Reply(Cqe.data) \in OwnedOps
         /\ Request(Cqe.data) \in OwnedOps
<1> DEFINE op == Cqe.data
<1>1. Cqe \in [data : OwnedOps, res : Results]
  <2>1. cq \in Seq([data : OwnedOps, res : Results]) /\ cq # <<>>
    BY DEF ClientInv, Handling
  <2> QED
    BY <2>1, HeadTailProperties DEF Cqe
<1>2. op \in OwnedOps
  BY <1>1
<1>3. op \in UserData /\ op.buffer_idx \in Buffers /\ op.fd \in Uint16
  BY <1>2 DEF OwnedOps, UserData
<1>4. op.fd % 65536 = op.fd
  BY <1>3, FdFits
<1>5. half_duplex_mode \in BOOLEAN
  BY DEF ClientInv, TypeOK
<1>6. ASSUME NEW send \in BOOLEAN, half_duplex_mode => ~send
      PROVE  PackUserData(op.buffer_idx, send, op.fd) \in OwnedOps
  <2> DEFINE new == [buffer_idx |-> op.buffer_idx, is_send |-> send, fd |-> op.fd]
  <2>1. PackUserData(op.buffer_idx, send, op.fd) = new
    BY <1>4 DEF PackUserData
  <2>2. new \in UserData /\ new.buffer_idx = op.buffer_idx /\ new.fd = op.fd /\ new.is_send = send
    BY <1>3 DEF UserData
  <2> QED
    BY <1>2, <1>6, <2>1, <2>2 DEF OwnedOps
<1>7. half_duplex_mode => ~op.is_send
  BY <1>2 DEF OwnedOps
<1>8. ~half_duplex_mode => Reply(op) \in OwnedOps
  BY <1>6 DEF Reply
<1>9. Request(op) \in OwnedOps
  BY <1>5, <1>6 DEF Request
<1> QED
  BY <1>2, <1>7, <1>8, <1>9

(* Steps that touch neither the ring nor the connections. *)
LEMMA IdleStepKeepsInv ==
  ASSUME ClientInv,
         UNCHANGED <<clientVars, ringVars, countVars>>,
         expired' \in BOOLEAN, late' \in BOOLEAN, closed' \subseteq Fds,
         \/ UNCHANGED <<pc, exit>>
         \/ pc = "top" /\ pc' = "blocked" /\ exit' = exit
         \/ pc = "top" /\ pc' = "done" /\ exit' = "deadline" /\ inflight = 0
         \/ pc = "blocked" /\ pc' = "done" /\ exit' = "wait"
         \/ pc = "connect" /\ pc' = "wait" /\ exit' = exit /\ attempts = ConnectionsPerThread
         \/ pc = "connect" /\ pc' = "done" /\ exit' = "setup"
  PROVE  ClientInv'
<1> USE DEF clientVars, ringVars, countVars
<1>1. /\ OwnedOps' = OwnedOps /\ Outstanding' = Outstanding /\ Started' = Started
      /\ sq' = sq /\ kernel' = kernel /\ cq' = cq /\ inflight' = inflight
      /\ connections' = connections /\ half_duplex_mode' = half_duplex_mode
      /\ total_requests_completed' = total_requests_completed
  BY DEF OwnedOps, Outstanding, Started
<1>2. TypeOK'
  BY DEF ClientInv, TypeOK
<1>3. InflightAccounting'
  BY <1>1 DEF ClientInv, InflightAccounting, InLoop
<1>4. CleanExit'
  <2>1. CASE exit' = "deadline" /\ exit # "deadline"
    <3>1. /\ pc = "top" /\ inflight = 0 /\ Outstanding \in Nat /\ Started \in Nat
          /\ total_requests_completed \in Nat
          /\ Outstanding + total_requests_completed >= Started
      BY <2>1, StartedBounds, LenProperties
      DEF ClientInv, TypeOK, InLoop, Outstanding
    <3>2. CASE half_duplex_mode
      BY <1>1, <3>1, <3>2 DEF ClientInv, InflightAccounting, InLoop, CleanExit
    <3>3. CASE ~half_duplex_mode
      <4>1. 2 * Outstanding + total_requests_completed - Started = 0
        BY <3>1, <3>3 DEF ClientInv, InflightAccounting, InLoop
      <4>2. Outstanding = 0 /\ total_requests_completed = Started
        BY <3>1, <4>1
      <4> QED
        BY <1>1, <4>2 DEF CleanExit
    <3> QED
      BY <3>2, <3>3
  <2>2. CASE exit' = "deadline" /\ exit = "deadline"
    BY <1>1, <2>2 DEF ClientInv, CleanExit
  <2> QED
    BY <2>1, <2>2 DEF CleanExit
<1>5. /\ pc' = "connect" => Len(connections') <= attempts'
      /\ pc' = "wait" => Len(connections') <= ConnectionsPerThread
  BY <1>1 DEF ClientInv
<1>6. /\ pc' \in {"connect", "wait"} \/ exit' = "setup" =>
           sq' = <<>> /\ kernel' = <<>> /\ cq' = <<>> /\ total_requests_completed' = 0
      /\ pc' \notin {"connect", "wait"} /\ exit' # "setup" =>
           Len(connections') = ConnectionsPerThread
      /\ exit' = "running" <=> pc' # "done"
  BY <1>1 DEF ClientInv
<1>7. InLoop' => /\ Outstanding' <= Started'
                /\ Outstanding' + total_requests_completed' >= Started'
  <2>1. InLoop' => InLoop
    BY DEF InLoop
  <2> QED
    BY <1>1, <2>1, Zenon DEF ClientInv
<1> QED
  BY <1>1, <1>2, <1>3, <1>4, <1>5, <1>6, <1>7 DEF ClientInv

(* A completion: the operation leaves the kernel for the completion queue. *)
LEMMA CompleteKeepsInv ==
  ASSUME ClientInv, pc # "done",
         NEW i \in DOMAIN kernel, NEW res \in Results, Complete(i, res)
  PROVE  ClientInv'
<1>1. PICK S : S = OwnedOps
  OBVIOUS
<1>2. /\ OwnedOps' = S /\ S \subseteq UserData
      /\ half_duplex_mode' = half_duplex_mode /\ connections' = connections
      /\ pc' = pc /\ exit' = exit /\ inflight' = inflight /\ sq' = sq
      /\ attempts' = attempts /\ Started' = Started
      /\ total_requests_completed' = total_requests_completed
  BY <1>1 DEF Complete, clientVars, countVars, OwnedOps, Started
<1>3. /\ kernel \in Seq(S) /\ sq \in Seq(S)
      /\ cq \in Seq([data : S, res : Results])
  BY <1>1 DEF ClientInv
<1>4. kernel' \in Seq(S) /\ Len(kernel') = Len(kernel) - 1
  BY <1>3, RemoveAtType DEF Complete
<1> DEFINE cqe == [data |-> kernel[i], res |-> res]
<1>5. kernel[i] \in S
  BY <1>3, LenProperties, ElementOfSeq
<1>6. cqe \in [data : S, res : Results] /\ cq' = Append(cq, cqe)
  BY <1>5 DEF Complete
<1> HIDE DEF cqe
<1>7. cq' \in Seq([data : S, res : Results]) /\ Len(cq') = Len(cq) + 1
  BY <1>3, <1>6, AppendProperties
<1>8. Len(sq) \in Nat /\ Len(kernel) \in Nat /\ Len(cq) \in Nat
  BY <1>3, LenProperties
<1>9. Outstanding' = Outstanding
  BY <1>2, <1>4, <1>7, <1>8 DEF Outstanding
<1>10. TypeOK'
  <2>1. [data : S, res : Results] \subseteq Cqes
    BY <1>2 DEF Cqes
  <2>2. sq' \in Seq(UserData) /\ kernel' \in Seq(UserData) /\ cq' \in Seq(Cqes)
    BY <1>2, <1>3, <1>4, <1>7, <2>1, SeqMonotonic
  <2> QED
    BY <1>2, <2>2 DEF ClientInv, TypeOK, Complete
<1>11. kernel # <<>>
  BY <1>3, EmptySeq, LenProperties
<1>12. InflightAccounting' /\ CleanExit'
  BY <1>2, <1>9 DEF ClientInv, InflightAccounting, CleanExit, InLoop
<1> QED
  BY <1>2, <1>3, <1>4, <1>7, <1>9, <1>10, <1>11, <1>12 DEF ClientInv, InLoop

(* One more connection, or one fewer than hoped for. *)
LEMMA ConnectKeepsInv ==
  ASSUME ClientInv, Connect
  PROVE  ClientInv'
<1>1. /\ pc = "connect" /\ pc' = "connect" /\ exit' = exit
      /\ attempts' = attempts + 1 /\ attempts < ConnectionsPerThread
      /\ sq' = sq /\ kernel' = kernel /\ cq' = cq /\ inflight' = inflight
      /\ total_requests_completed' = total_requests_completed
  BY DEF Connect, ringVars, countVars
<1>2. /\ sq = <<>> /\ kernel = <<>> /\ cq = <<>> /\ exit = "running"
      /\ total_requests_completed = 0 /\ Len(connections) <= attempts
      /\ attempts \in 0 .. ConnectionsPerThread /\ connections \in Seq(Fds)
  BY <1>1 DEF ClientInv, TypeOK
<1>3. connections' \in Seq(Fds) /\ Len(connections') <= attempts + 1
  <2>1. Len(connections) \in Nat /\ attempts \in Nat
    BY <1>2, LenProperties
  <2>2. CASE connections' = connections
    BY <1>2, <2>1, <2>2
  <2>3. ASSUME NEW fd \in Fds, connections' = Append(connections, fd)
        PROVE  connections' \in Seq(Fds) /\ Len(connections') <= attempts + 1
    <3>1. connections' \in Seq(Fds) /\ Len(connections') = Len(connections) + 1
      BY <1>2, <2>3, AppendProperties
    <3>2. Len(connections) + 1 <= attempts + 1
      BY <1>2, <2>1
    <3> QED
      BY <3>1, <3>2, Zenon
  <2> QED
    BY <2>2, <2>3 DEF Connect
<1>4. TypeOK'
  <2>1. attempts' \in 0 .. ConnectionsPerThread
    BY <1>1, <1>2, ClientAssumption
  <2> QED
    BY <1>1, <1>3, <2>1 DEF ClientInv, TypeOK, Connect
<1>5. /\ <<>> \in Seq(OwnedOps') /\ <<>> \in Seq([data : OwnedOps', res : Results])
  BY EmptySeq
<1>6. InflightAccounting' /\ CleanExit' /\ ~InLoop'
  BY <1>1, <1>2 DEF InflightAccounting, InLoop, CleanExit
<1> QED
  BY <1>1, <1>2, <1>3, <1>4, <1>5, <1>6 DEF ClientInv

(* No handler breaks the invariant. *)
LEMMA HandleKeepsInv ==
  ASSUME ClientInv, Handle
  PROVE  ClientInv'
<1>1. Handling
  BY DEF Handle, Resubmit, ConnectionLost, SendDone, RecvEarly, RecvLate
<1>2. /\ Cqe.data \in OwnedOps /\ Request(Cqe.data) \in OwnedOps
      /\ half_duplex_mode => ~Cqe.data.is_send
      /\ ~half_duplex_mode => Reply(Cqe.data) \in OwnedOps
  BY <1>1, DerivedOpsAreOwned
<1>3. /\ inflight \in Int /\ total_requests_completed \in Nat /\ Started \in Nat
      /\ Outstanding \in Int
      /\ inflight = Accounted(Outstanding, total_requests_completed)
  BY <1>1, StartedBounds, LenProperties
  DEF ClientInv, TypeOK, Handling, InflightAccounting, InLoop, Accounted, Outstanding
<1>4. CASE Resubmit
  BY <1>1, <1>2, <1>3, <1>4, HandlerKeepsInv DEF Resubmit
<1>5. CASE ConnectionLost
  <2>1. /\ pc' = "done" /\ exit' = "lost" /\ inflight' = inflight - 1
        /\ UNCHANGED <<clientVars, ringVars, expired, late, closed, total_requests_completed>>
    BY <1>5 DEF ConnectionLost, Break
  <2>2. /\ OwnedOps' = OwnedOps /\ inflight' \in Int
        /\ sq' = sq /\ kernel' = kernel /\ cq' = cq /\ connections' = connections
    BY <1>3, <2>1 DEF OwnedOps, clientVars, ringVars
  <2>3. TypeOK'
    BY <2>1, <2>2 DEF ClientInv, TypeOK, clientVars
  <2>4. Len(connections') = ConnectionsPerThread
    BY <1>1, <2>2 DEF ClientInv, Handling
  <2> QED
    BY <2>1, <2>2, <2>3, <2>4 DEF ClientInv, InflightAccounting, InLoop, CleanExit
<1>6. CASE SendDone
  <2>1. ~half_duplex_mode
    BY <1>2, <1>6 DEF SendDone
  <2>2. PrepareNext(Reply(Cqe.data), inflight)
    BY <1>6, <2>1 DEF SendDone
  <2> QED
    BY <1>1, <1>2, <1>3, <1>6, <2>1, <2>2, HandlerKeepsInv DEF SendDone
<1>7. CASE RecvEarly
  <2> DEFINE total == total_requests_completed + 1
  <2>1. /\ total_requests_completed' = total /\ PrepareNext(Request(Cqe.data), RequestedInFlight)
        /\ UNCHANGED <<clientVars, expired, late, closed>>
    BY <1>7 DEF RecvEarly
  <2>2. RequestedInFlight \in Int /\ RequestedInFlight = Accounted(Outstanding, total)
    BY <1>3 DEF RequestedInFlight, Accounted
  <2>3. total \in Nat /\ total >= total_requests_completed
    BY <1>3
  <2> HIDE DEF total
  <2> QED
    BY <1>1, <1>2, <2>1, <2>2, <2>3, HandlerKeepsInv
<1>8. CASE RecvLate
  <2> DEFINE total == total_requests_completed + 1
  <2>1. /\ total_requests_completed' = total /\ EndIteration(<<>>, inflight - 1)
        /\ UNCHANGED <<clientVars, expired, late, closed>>
    BY <1>8 DEF RecvLate
  <2>2. inflight - 1 \in Int /\ inflight - 1 = Accounted(Outstanding - 1, total)
    BY <1>3 DEF Accounted
  <2>3. total \in Nat /\ total > total_requests_completed
    BY <1>3
  <2> HIDE DEF total
  <2> QED
    BY <1>1, <2>1, <2>2, <2>3, HandlerKeepsInv
<1> QED
  BY <1>4, <1>5, <1>6, <1>7, <1>8 DEF Handle

LEMMA InitInv == Init => ClientInv
<1> SUFFICES ASSUME Init PROVE ClientInv
  OBVIOUS
<1>1. /\ pc = "connect" /\ exit = "running" /\ connections = <<>> /\ attempts = 0
      /\ sq = <<>> /\ kernel = <<>> /\ cq = <<>>
      /\ inflight = 0 /\ total_requests_completed = 0
  BY DEF Init
<1>2. Len(connections) = 0 /\ connections \in Seq(Fds)
  BY <1>1, EmptySeq
<1>3. /\ <<>> \in Seq(OwnedOps) /\ <<>> \in Seq([data : OwnedOps, res : Results])
      /\ <<>> \in Seq(UserData) /\ <<>> \in Seq(Cqes)
  BY EmptySeq
<1>4. half_duplex_mode \in BOOLEAN /\ 0 \in 0 .. ConnectionsPerThread
  BY ClientAssumption DEF Init
<1>5. expired = FALSE /\ late = FALSE /\ closed = {}
  BY DEF Init
<1>6. TypeOK
  <2>1. sq \in Seq(UserData) /\ kernel \in Seq(UserData) /\ cq \in Seq(Cqes)
    BY <1>1, <1>3
  <2>2. attempts \in 0 .. ConnectionsPerThread /\ inflight \in Int /\ total_requests_completed \in Nat
    BY <1>1, <1>4
  <2>3. pc \in {"connect", "wait", "top", "blocked", "done"}
    BY <1>1
  <2> QED
    BY <1>1, <1>2, <1>4, <1>5, <2>1, <2>2, <2>3 DEF TypeOK
<1> QED
  BY <1>1, <1>2, <1>3, <1>6 DEF ClientInv, InLoop, InflightAccounting, CleanExit

LEMMA NextKeepsInv == ClientInv /\ [Next]_vars => ClientInv'
<1> SUFFICES ASSUME ClientInv, [Next]_vars PROVE ClientInv'
  OBVIOUS
<1>0. expired \in BOOLEAN /\ late \in BOOLEAN /\ closed \subseteq Fds /\ connections \in Seq(Fds)
  BY DEF ClientInv, TypeOK
<1>1. CASE Connect
  BY <1>1, ConnectKeepsInv
<1>2. CASE Setup
  BY <1>0, <1>2, IdleStepKeepsInv DEF Setup
<1>3. CASE Start
  BY <1>3, StartKeepsInv
<1>4. CASE LoopTop
  <2>1. /\ UNCHANGED <<clientVars, ringVars, countVars>>
        /\ expired' = expired /\ late' = expired /\ closed' = closed
        /\ \/ pc = "top" /\ pc' = "blocked" /\ exit' = exit
           \/ pc = "top" /\ pc' = "done" /\ exit' = "deadline" /\ inflight = 0
    BY <1>4 DEF LoopTop
  <2> QED
    BY <1>0, <2>1, IdleStepKeepsInv
<1>5. CASE Handle
  BY <1>5, HandleKeepsInv
<1>6. CASE Kernel
  BY <1>6, CompleteKeepsInv DEF Kernel
<1>7. CASE PeerCloses
  <2>1. PICK i \in DOMAIN connections : closed' = closed \cup {connections[i]}
    BY <1>7 DEF PeerCloses
  <2>2. closed' \subseteq Fds
    BY <1>0, <2>1, LenProperties, ElementOfSeq
  <2>3. UNCHANGED <<clientVars, ringVars, countVars, pc, exit, expired, late>>
    BY <1>7 DEF PeerCloses
  <2> QED
    BY <1>0, <2>2, <2>3, IdleStepKeepsInv
<1>8. CASE Tick
  BY <1>0, <1>8, IdleStepKeepsInv DEF Tick
<1>9. CASE WaitFails
  BY <1>0, <1>9, IdleStepKeepsInv DEF WaitFails
<1>10. CASE UNCHANGED vars
  <2>1. UNCHANGED <<clientVars, ringVars, countVars, pc, exit, expired, late, closed>>
    BY <1>10 DEF vars, clientVars, ringVars, countVars
  <2> QED
    BY <1>0, <2>1, IdleStepKeepsInv
<1> QED
  BY <1>1, <1>2, <1>3, <1>4, <1>5, <1>6, <1>7, <1>8, <1>9, <1>10
  DEF Next, Thread, AwaitConnections, Environment, Terminated

(***************************************************************************)
(* How many operations of a kind the ring holds.                           *)
(***************************************************************************)

CqesOf(T) == {cqe \in Cqes : cqe.data \in T}
InRing(T) == Count(sq, T) + Count(kernel, T) + Count(cq, CqesOf(T))

RingTyped == sq \in Seq(UserData) /\ kernel \in Seq(UserData) /\ cq \in Seq(Cqes)

(* The queues one behind the other hold what the queues hold.              *)
LEMMA QueuesCounted ==
  ASSUME NEW s \in Seq(UserData), NEW k \in Seq(UserData), NEW c \in Seq(Cqes), NEW T
  PROVE  LET all == s \o k \o [i \in DOMAIN c |-> c[i].data]
         IN  /\ all \in Seq(UserData)
             /\ Count(all, T) = Count(s, T) + Count(k, T) + Count(c, CqesOf(T))
<1> DEFINE datas == [i \in DOMAIN c |-> c[i].data]
           kept == s \o k
<1>1. Len(c) \in Nat /\ DOMAIN c = 1 .. Len(c)
  BY LenProperties
<1>2. ASSUME NEW i \in 1 .. Len(c) PROVE c[i] \in Cqes /\ c[i].data \in UserData
  <2>1. c[i] \in Cqes
    BY ElementOfSeq
  <2> QED
    BY <2>1 DEF Cqes
<1> DEFINE seq == [i \in 1 .. Len(c) |-> c[i].data]
<1>3. datas = seq /\ seq \in [1 .. Len(c) -> UserData]
  <2>1. datas = seq
    BY <1>1
  <2>2. seq \in [1 .. Len(c) -> UserData]
    BY <1>2
  <2> QED
    BY <2>1, <2>2
<1>4. datas \in Seq(UserData)
  BY <1>1, <1>3
<1>5. Count(datas, T) = Count(c, CqesOf(T))
  <2>1. {i \in DOMAIN datas : datas[i] \in T} = {i \in DOMAIN c : c[i] \in CqesOf(T)}
    BY <1>1, <1>2 DEF CqesOf
  <2> QED
    BY <2>1 DEF Count
<1>6. kept \in Seq(UserData) /\ Count(kept, T) = Count(s, T) + Count(k, T)
  BY ConcatProperties, CountConcat
<1> HIDE DEF datas, kept
<1>7. /\ kept \o datas \in Seq(UserData)
      /\ Count(kept \o datas, T) = Count(kept, T) + Count(datas, T)
  BY <1>4, <1>6, ConcatProperties, CountConcat
<1> QED
  BY <1>5, <1>6, <1>7 DEF kept, datas

LEMMA AllOpsCounted ==
  /\ RingTyped => \A T : AllOps \in Seq(UserData) /\ Count(AllOps, T) = InRing(T)
  /\ RingTyped' => \A T : Count(AllOps', T) = InRing(T)'
<1>1. RingTyped => \A T : AllOps \in Seq(UserData) /\ Count(AllOps, T) = InRing(T)
  BY QueuesCounted DEF RingTyped, AllOps, InRing
<1>2. RingTyped' => \A T : Count(AllOps', T) = InRing(T)'
  <2>1. AllOps' = sq' \o kernel' \o [i \in DOMAIN cq' |-> cq'[i].data]
    BY DEF AllOps
  <2>2. RingTyped' => sq' \in Seq(UserData) /\ kernel' \in Seq(UserData) /\ cq' \in Seq(Cqes)
    BY DEF RingTyped, Cqes, UserData, Buffers
  <2>3. \A T : InRing(T)' = Count(sq', T) + Count(kernel', T) + Count(cq', CqesOf(T))
    BY DEF InRing, CqesOf, Cqes, UserData, Buffers
  <2> QED
    BY <2>1, <2>2, <2>3, QueuesCounted
<1> QED
  BY <1>1, <1>2

LEMMA InRingType ==
  /\ RingTyped => \A T : InRing(T) \in Nat /\ InRing(UserData) = Outstanding
  /\ RingTyped' => \A T : InRing(T)' \in Nat /\ InRing(UserData)' = Outstanding'
<1> DEFINE Sum(s, k, c, T) == Count(s, T) + Count(k, T) + Count(c, CqesOf(T))
<1>1. ASSUME NEW s \in Seq(UserData), NEW k \in Seq(UserData), NEW c \in Seq(Cqes), NEW T
      PROVE  Sum(s, k, c, T) \in Nat /\ Sum(s, k, c, UserData) = Len(s) + Len(k) + Len(c)
  <2>1. Count(s, T) \in Nat /\ Count(k, T) \in Nat /\ Count(c, CqesOf(T)) \in Nat
    BY CountType
  <2>2. Cqes \subseteq CqesOf(UserData)
    BY DEF Cqes, CqesOf
  <2>3. /\ Count(s, UserData) = Len(s) /\ Count(k, UserData) = Len(k)
        /\ Count(c, CqesOf(UserData)) = Len(c)
    BY <2>2, CountAll
  <2> QED
    BY <2>1, <2>3
<1>2. ASSUME NEW T
      PROVE  /\ InRing(T) = Sum(sq, kernel, cq, T)
             /\ InRing(T)' = Sum(sq', kernel', cq', T)
             /\ InRing(UserData) = Sum(sq, kernel, cq, UserData)
             /\ InRing(UserData)' = Sum(sq', kernel', cq', UserData)
  BY DEF InRing, CqesOf, UserData, Buffers
<1> QED
  <2> HIDE DEF Sum
  <2>1. ASSUME RingTyped, NEW T
        PROVE  InRing(T) \in Nat /\ InRing(UserData) = Outstanding
    <3>1. Sum(sq, kernel, cq, T) \in Nat
      BY <1>1, <2>1 DEF RingTyped
    <3>2. Sum(sq, kernel, cq, UserData) = Len(sq) + Len(kernel) + Len(cq)
      BY <1>1, <2>1 DEF RingTyped
    <3> QED
      BY <1>2, <3>1, <3>2 DEF Outstanding
  <2>2. ASSUME RingTyped', NEW T
        PROVE  InRing(T)' \in Nat /\ InRing(UserData)' = Outstanding'
    <3>1. sq' \in Seq(UserData) /\ kernel' \in Seq(UserData) /\ cq' \in Seq(Cqes)
      BY <2>2 DEF RingTyped, Cqes, UserData, Buffers
    <3>2. Sum(sq', kernel', cq', T) \in Nat
      BY <1>1, <3>1
    <3>3. Sum(sq', kernel', cq', UserData) = Len(sq') + Len(kernel') + Len(cq')
      BY <1>1, <3>1
    <3> QED
      BY <1>2, <3>2, <3>3 DEF Outstanding
  <2> QED
    BY <2>1, <2>2

(* A submit only moves operations from one queue to the next.              *)
LEMMA SubmitCounts ==
  ASSUME NEW S, NEW T, NEW pending \in Seq(S), kernel \in Seq(S),
         NEW k \in 0 .. Len(pending), Submit(pending, k)
  PROVE  Count(sq', T) + Count(kernel', T) = Count(pending, T) + Count(kernel, T)
<1> DEFINE x == SubSeq(pending, 1, k)
           y == SubSeq(pending, k + 1, Len(pending))
<1>1. /\ x \in Seq(S) /\ y \in Seq(S)
      /\ Count(pending, T) = Count(x, T) + Count(y, T)
  BY CountSplit
<1>2. sq' = y /\ kernel' = kernel \o x
  BY DEF Submit
<1> HIDE DEF x, y
<1>3. Count(kernel \o x, T) = Count(kernel, T) + Count(x, T)
  BY <1>1, CountConcat
<1>4. Count(x, T) \in Nat /\ Count(y, T) \in Nat /\ Count(kernel, T) \in Nat
  BY <1>1, CountType
<1> QED
  BY <1>1, <1>2, <1>3, <1>4

(* An iteration takes one operation out of the ring, the one whose         *)
(* completion it has handled, and puts in what it has prepared.            *)
LEMMA IterationCounts ==
  ASSUME RingTyped, cq # <<>>, NEW T, NEW prepared \in Seq(UserData), NEW n,
         EndIteration(prepared, n)
  PROVE  InRing(T)' + One(Cqe.data, T) = InRing(T) + Count(prepared, T)
<1>1. sq \in Seq(UserData) /\ kernel \in Seq(UserData) /\ cq \in Seq(Cqes)
  BY DEF RingTyped
<1>2. /\ Count(sq, T) \in Nat /\ Count(kernel, T) \in Nat /\ Count(prepared, T) \in Nat
      /\ Count(cq, CqesOf(T)) \in Nat
  BY <1>1, CountType
<1>3. /\ Count(cq, CqesOf(T)) = One(Head(cq), CqesOf(T)) + Count(Tail(cq), CqesOf(T))
      /\ Tail(cq) \in Seq(Cqes) /\ Head(cq) \in Cqes
  BY <1>1, CountTail, HeadTailProperties
<1>4. cq' = Tail(cq)
  BY DEF EndIteration
<1>5. One(Head(cq), CqesOf(T)) = One(Cqe.data, T)
  BY <1>3 DEF One, CqesOf, Cqe
<1>6. Count(sq', T) + Count(kernel', T) = Count(sq, T) + Count(kernel, T) + Count(prepared, T)
  <2>1. CASE prepared = <<>>
    BY <1>2, <2>1, CountEmpty DEF EndIteration
  <2>2. CASE prepared # <<>>
    <3>1. PICK k \in Accepted(sq \o prepared) : Submit(sq \o prepared, k)
      BY <2>2 DEF EndIteration
    <3>2. /\ sq \o prepared \in Seq(UserData)
          /\ Count(sq \o prepared, T) = Count(sq, T) + Count(prepared, T)
      BY <1>1, ConcatProperties, CountConcat
    <3>3. k \in 0 .. Len(sq \o prepared)
      BY <3>2, AcceptedRange
    <3>4. Count(sq', T) + Count(kernel', T) = Count(sq \o prepared, T) + Count(kernel, T)
      BY <1>1, <3>1, <3>2, <3>3, SubmitCounts
    <3> QED
      BY <1>2, <3>2, <3>4
  <2> QED
    BY <2>1, <2>2
<1>7. /\ Count(Tail(cq), CqesOf(T)) \in Nat /\ One(Cqe.data, T) \in Nat
      /\ InRing(T)' = Count(sq', T) + Count(kernel', T) + Count(Tail(cq), CqesOf(T))
  BY <1>3, <1>4, CountType DEF InRing, One, CqesOf
<1> QED
  <2> DEFINE k == Count(sq, T) + Count(kernel, T)
             l == Count(sq', T) + Count(kernel', T)
             p == Count(prepared, T)
             c == Count(Tail(cq), CqesOf(T))
             d == One(Cqe.data, T)
  <2>1. k \in Nat /\ p \in Nat /\ c \in Nat /\ d \in Nat
    BY <1>2, <1>7
  <2>2. l = k + p
    BY <1>6
  <2>3. InRing(T) = k + (d + c)
    BY <1>3, <1>5 DEF InRing
  <2>4. InRing(T)' = l + c
    BY <1>7
  <2> HIDE DEF k, l, p, c, d
  <2>5. (l + c) + d = (k + (d + c)) + p
    BY <2>1, <2>2
  <2>6. InRing(T)' + d = InRing(T) + p
    BY <2>3, <2>4, <2>5
  <2> QED
    BY <2>6 DEF d, p

(* What a handler does to the ring: it leaves it as it is, or it takes out *)
(* the operation whose completion it handles, or puts another operation of *)
(* the same buffer in its place - after the deadline no request, unless    *)
(* the one completed was a request itself, and refused.                    *)
LEMMA HandleCounts ==
  ASSUME ClientInv, Handle
  PROVE  LET op == Cqe.data
         IN  \/ UNCHANGED ringVars
             \/ \A T : InRing(T)' + One(op, T) = InRing(T)
             \/ \E next \in UserData :
                  /\ next.buffer_idx = op.buffer_idx
                  /\ late /\ next \in RequestOps => op \in RequestOps
                  /\ \A T : InRing(T)' + One(op, T) = InRing(T) + One(next, T)
<1> DEFINE op == Cqe.data
<1>1. Handling /\ cq # <<>> /\ RingTyped /\ half_duplex_mode \in BOOLEAN
  BY DEF Handle, Resubmit, ConnectionLost, SendDone, RecvEarly, RecvLate, Handling,
         ClientInv, TypeOK, RingTyped
<1>2. /\ op \in UserData /\ Request(op) \in UserData
      /\ half_duplex_mode => ~op.is_send
      /\ ~half_duplex_mode => Reply(op) \in UserData
  BY <1>1, DerivedOpsAreOwned DEF OwnedOps
<1>3. ASSUME NEW n, EndIteration(<<>>, n)
      PROVE  \A T : InRing(T)' + One(op, T) = InRing(T)
  <2> TAKE T
  <2>1. <<>> \in Seq(UserData) /\ Count(<<>>, T) = 0
    BY EmptySeq, CountEmpty
  <2>2. InRing(T)' + One(op, T) = InRing(T) + Count(<<>>, T)
    BY <1>1, <1>3, <2>1, IterationCounts
  <2>3. InRing(T) \in Nat
    BY <1>1, InRingType
  <2> QED
    BY <2>1, <2>2, <2>3
<1>4. ASSUME NEW next \in UserData, NEW n, PrepareNext(next, n)
      PROVE  \/ UNCHANGED ringVars
             \/ \A T : InRing(T)' + One(op, T) = InRing(T) + One(next, T)
  <2>1. CASE ~SqeAvailable
    BY <1>4, <2>1 DEF PrepareNext, Break
  <2>2. CASE SqeAvailable
    <3> SUFFICES ASSUME NEW T
                 PROVE  InRing(T)' + One(op, T) = InRing(T) + One(next, T)
      OBVIOUS
    <3> DEFINE prepared == <<next>>
    <3>1. prepared \in Seq(UserData) /\ Count(prepared, T) = One(next, T)
      BY CountSingleton
    <3>2. EndIteration(prepared, n)
      BY <1>4, <2>2 DEF PrepareNext
    <3> HIDE DEF prepared
    <3>3. InRing(T)' + One(op, T) = InRing(T) + Count(prepared, T)
      BY <1>1, <3>1, <3>2, IterationCounts
    <3> QED
      BY <3>1, <3>3
  <2> QED
    BY <2>1, <2>2
<1> DEFINE Kept == UNCHANGED ringVars
           Taken == \A T : InRing(T)' + One(op, T) = InRing(T)
           Becomes(next) == \A T : InRing(T)' + One(op, T) = InRing(T) + One(next, T)
           Follows(next) == /\ next.buffer_idx = op.buffer_idx
                            /\ late /\ next \in RequestOps => op \in RequestOps
<1>5. \A next \in UserData : \A n : PrepareNext(next, n) => Kept \/ Becomes(next)
  BY <1>4
<1>6. \A n : EndIteration(<<>>, n) => Taken
  BY <1>3
<1>7. /\ op.buffer_idx = op.buffer_idx
      /\ Request(op).buffer_idx = op.buffer_idx
      /\ Reply(op).buffer_idx = op.buffer_idx
      /\ Reply(op).is_send = FALSE
  BY DEF Request, Reply, PackUserData
<1> SUFFICES Kept \/ Taken \/ \E next \in UserData : Follows(next) /\ Becomes(next)
  BY Zenon
<1> HIDE DEF Kept, Taken, Becomes, op
<1>8. CASE Resubmit
  <2>1. PrepareNext(op, inflight)
    BY <1>8 DEF Resubmit, op
  <2> QED
    BY <1>2, <1>5, <2>1
<1>9. CASE ConnectionLost
  BY <1>9 DEF ConnectionLost, Break, Kept
<1>10. CASE SendDone
  <2>1. op.is_send
    BY <1>10 DEF SendDone, op
  <2>2. ~half_duplex_mode /\ PrepareNext(Reply(op), inflight)
    BY <1>2, <1>10, <2>1 DEF SendDone, op
  <2>3. Reply(op) \in UserData /\ Reply(op) \notin RequestOps
    BY <1>2, <1>7, <2>2 DEF RequestOps
  <2> QED
    BY <1>5, <1>7, <2>2, <2>3
<1>11. CASE RecvEarly
  <2>1. ~late /\ PrepareNext(Request(op), RequestedInFlight)
    BY <1>11 DEF RecvEarly, op
  <2> QED
    BY <1>2, <1>5, <1>7, <2>1
<1>12. CASE RecvLate
  BY <1>6, <1>12 DEF RecvLate
<1> QED
  BY <1>8, <1>9, <1>10, <1>11, <1>12 DEF Handle

(* A completion moves an operation from the kernel to the completions.     *)
LEMMA CompleteCounts ==
  ASSUME ClientInv, NEW i \in DOMAIN kernel, NEW res \in Results, Complete(i, res), NEW T
  PROVE  InRing(T)' = InRing(T)
<1>1. sq \in Seq(UserData) /\ kernel \in Seq(UserData) /\ cq \in Seq(Cqes)
  BY DEF ClientInv, TypeOK
<1> DEFINE cqe == [data |-> kernel[i], res |-> res]
<1>2. kernel[i] \in UserData /\ cqe \in Cqes /\ cqe.data = kernel[i]
  BY <1>1, LenProperties, ElementOfSeq DEF Cqes
<1>3. sq' = sq /\ kernel' = RemoveAt(kernel, i) /\ cq' = Append(cq, cqe)
  BY DEF Complete
<1> HIDE DEF cqe
<1>4. Count(kernel, T) = Count(kernel', T) + One(kernel[i], T) /\ kernel' \in Seq(UserData)
  BY <1>1, <1>3, CountRemoveAt
<1>5. Count(cq', CqesOf(T)) = Count(cq, CqesOf(T)) + One(cqe, CqesOf(T))
  BY <1>1, <1>2, <1>3, CountAppend
<1>6. One(cqe, CqesOf(T)) = One(kernel[i], T)
  BY <1>2 DEF One, CqesOf
<1>7. InRing(T)' = Count(sq, T) + Count(kernel', T) + Count(cq', CqesOf(T))
  BY <1>3 DEF InRing, CqesOf
<1>8. /\ Count(sq, T) \in Nat /\ Count(kernel', T) \in Nat /\ Count(cq, CqesOf(T)) \in Nat
      /\ One(kernel[i], T) \in Nat
  BY <1>1, <1>4, CountType DEF One
<1> QED
  BY <1>4, <1>5, <1>6, <1>7, <1>8 DEF InRing

(* Which steps do what to the ring. *)
LEMMA StepsOfTheRing ==
  ASSUME ClientInv, [Next]_vars
  PROVE  \/ UNCHANGED ringVars
         \/ Start
         \/ Handle
         \/ \E i \in DOMAIN kernel, res \in Results : Complete(i, res)
BY DEF Next, Thread, Connect, Setup, AwaitConnections, LoopTop, Kernel, Environment, PeerCloses,
       Tick, WaitFails, Terminated, vars, ringVars

(* A buffer has one operation in the ring at most. *)
BufferOps(b) == {op \in UserData : op.buffer_idx = b}
OnePerBuffer == \A b \in Buffers : InRing(BufferOps(b)) <= 1

(* The first loop prepares one operation for each of the first buffers. *)
LEMMA StartOnePerBuffer ==
  ASSUME ClientInv, Start
  PROVE  OnePerBuffer'
<1> DEFINE first == [i \in 1 .. Started |-> FirstOp(i - 1)]
<1>1. ClientInv' /\ RingTyped'
  BY StartKeepsInv DEF ClientInv, TypeOK, RingTyped
<1>2. Started \in Nat /\ kernel = <<>> /\ cq' = <<>>
  BY StartedBounds DEF ClientInv, Start
<1> DEFINE S == {FirstOp(i - 1) : i \in 1 .. Started}
<1>3. first \in Seq(S) /\ Len(first) = Started /\ kernel \in Seq(S)
  <2>1. first \in [1 .. Started -> S]
    OBVIOUS
  <2> QED
    <3> HIDE DEF first, S
    <3>1. first \in Seq(S)
      BY <1>2, <2>1
    <3>2. DOMAIN first = 1 .. Started
      BY ONLY <2>1
    <3>3. Len(first) = Started
      <4> DEFINE L == Len(first)
      <4>1. L \in Nat /\ 1 .. L = 1 .. Started
        BY <3>1, <3>2, LenProperties
      <4> HIDE DEF L
      <4>2. (L > 0 => L \in 1 .. Started) /\ (Started > 0 => Started \in 1 .. L)
        BY <1>2, <4>1
      <4>3. L = Started
        BY <1>2, <4>1, <4>2
      <4> QED
        BY <4>3 DEF L
    <3>4. kernel \in Seq(S)
      BY <1>2, EmptySeq
    <3> QED
      BY <3>1, <3>3, <3>4
<1>4. PICK k \in Accepted(first) : Submit(first, k)
  BY DEF Start
<1>5. k \in 0 .. Len(first)
  BY <1>3, <1>4, AcceptedRange
<1>6. DOMAIN first = 1 .. Started /\ \A i \in 1 .. Started : first[i].buffer_idx = i - 1
  BY DEF FirstOp, PackUserData
<1> HIDE DEF first, S
<1>7. ASSUME NEW b \in Buffers
      PROVE  InRing(BufferOps(b))' <= 1
  <2> DEFINE T == BufferOps(b)
  <2>1. \A i, j \in DOMAIN first : first[i] \in T /\ first[j] \in T => i = j
    BY <1>2, <1>6 DEF BufferOps
  <2>2. InRing(BufferOps(b))' = Count(sq', T) + Count(kernel', T) + Count(cq', CqesOf(T))
    BY DEF InRing, CqesOf, BufferOps
  <2> HIDE DEF T
  <2>3. Count(first, T) <= 1
    BY <1>3, <2>1, CountAtMostOne
  <2>4. Count(sq', T) + Count(kernel', T) = Count(first, T) + Count(kernel, T)
    BY <1>3, <1>4, <1>5, SubmitCounts
  <2>5. Count(kernel, T) = 0 /\ Count(cq', CqesOf(T)) = 0
    BY <1>2, CountEmpty
  <2>6. Count(first, T) \in Nat
    BY <1>3, CountType
  <2> QED
    BY <2>2, <2>3, <2>4, <2>5, <2>6
<1> QED
  BY <1>7 DEF OnePerBuffer, Buffers

(* A handler keeps to the buffer of its completion.                        *)
LEMMA StepKeepsOnePerBuffer ==
  ASSUME ClientInv, OnePerBuffer, [Next]_vars
  PROVE  OnePerBuffer'
<1>1. RingTyped
  BY DEF ClientInv, TypeOK, RingTyped
<1>2. CASE UNCHANGED ringVars
  BY <1>2 DEF OnePerBuffer, InRing, ringVars, CqesOf, BufferOps, Buffers
<1>3. CASE Start
  BY <1>3, StartOnePerBuffer
<1> SUFFICES ASSUME NEW b \in Buffers, ~UNCHANGED ringVars, ~Start
             PROVE  InRing(BufferOps(b))' <= 1
  BY <1>2, <1>3 DEF OnePerBuffer, Buffers
<1> DEFINE T == BufferOps(b)
<1>4. InRing(BufferOps(b))' = InRing(T)' /\ InRing(T) <= 1
  BY DEF OnePerBuffer
<1>5. InRing(T) \in Nat
  BY <1>1, InRingType
<1>6. CASE Handle
  <2> DEFINE op == Cqe.data
  <2>1. \/ InRing(T)' + One(op, T) = InRing(T)
        \/ \E next \in UserData :
             next.buffer_idx = op.buffer_idx /\ InRing(T)' + One(op, T) = InRing(T) + One(next, T)
    BY <1>6, HandleCounts
  <2>2. op \in UserData /\ RingTyped'
    BY <1>6, DerivedOpsAreOwned, HandleKeepsInv
    DEF OwnedOps, Handle, Resubmit, ConnectionLost, SendDone, RecvEarly, RecvLate,
        ClientInv, TypeOK, RingTyped
  <2>3. \A next \in UserData : next.buffer_idx = op.buffer_idx => One(next, T) = One(op, T)
    BY <2>2 DEF One, BufferOps
  <2>4. InRing(T)' \in Nat
    BY <2>2, InRingType
  <2>5. One(op, T) \in Nat
    BY DEF One
  <2>6. CASE InRing(T)' + One(op, T) = InRing(T)
    <3> HIDE DEF T, op
    <3> QED
      BY <1>4, <1>5, <2>4, <2>5, <2>6 DEF One
  <2>7. ASSUME NEW next \in UserData, next.buffer_idx = op.buffer_idx,
               InRing(T)' + One(op, T) = InRing(T) + One(next, T)
        PROVE  InRing(T)' <= 1
    <3>1. One(next, T) = One(op, T)
      BY <2>3, <2>7
    <3> HIDE DEF T, op
    <3> QED
      BY <1>4, <1>5, <2>4, <2>5, <2>7, <3>1
  <2> QED
    BY <1>4, <2>1, <2>6, <2>7
<1>7. ASSUME NEW i \in DOMAIN kernel, NEW res \in Results, Complete(i, res)
      PROVE  InRing(T)' <= 1
  BY <1>4, <1>7, CompleteCounts
<1> QED
  BY <1>4, <1>6, <1>7, StepsOfTheRing

(* The event loop's bookkeeping is right in every reachable state, for     *)
(* every number of buffers, connections and ring entries.                  *)
THEOREM ClientInvariant == Spec => []ClientInv
<1>1. Init => ClientInv
  BY InitInv
<1>2. ClientInv /\ [Next]_vars => ClientInv'
  BY NextKeepsInv
<1> QED
  BY <1>1, <1>2, PTL DEF Spec

(* inflight counts what the event loop (client.cpp:214-365) has in flight: *)
(* exactly in half duplex, with the responses on top in full duplex.       *)
THEOREM AccountingAlways == Spec => []InflightAccounting
<1>1. ClientInv => InflightAccounting
  BY DEF ClientInv
<1> QED
  BY <1>1, ClientInvariant, PTL

(* A thread that leaves by the deadline leaves an empty ring; in full      *)
(* duplex it can only if no response preceded the deadline.                *)
THEOREM CleanExitAlways == Spec => []CleanExit
<1>1. ClientInv => CleanExit
  BY DEF ClientInv
<1> QED
  BY <1>1, ClientInvariant, PTL

(* No handler of the event loop ever finds the submission ring full.       *)
THEOREM SqeAvailableAlways == Spec => []SqeAlwaysAvailable
<1>1. ASSUME ClientInv, Handling
      PROVE  SqeAvailable
  <2>1. /\ sq \in Seq(UserData) /\ kernel \in Seq(UserData)
        /\ cq \in Seq(Cqes) /\ cq # <<>>
    BY <1>1 DEF ClientInv, TypeOK, Handling
  <2>2. Len(sq) \in Nat /\ Len(kernel) \in Nat /\ Len(cq) \in Nat \ {0}
    BY <2>1, LenProperties, EmptySeq
  <2>3. Outstanding <= Started
    BY <1>1 DEF ClientInv, Handling, InLoop
  <2>4. QueueDepth \in Nat /\ Started \in Nat /\ Started <= QueueDepth
    BY StartedBounds, ClientAssumption
  <2> QED
    BY <2>2, <2>3, <2>4 DEF Outstanding, SqeAvailable
<1>2. ClientInv => SqeAlwaysAvailable
  BY <1>1 DEF SqeAlwaysAvailable
<1> QED
  BY <1>2, ClientInvariant, PTL

(* Every operation keeps the descriptor of its buffer's connection.        *)
THEOREM ConnectionKept == Spec => []BufferKeepsConnection
<1>1. ASSUME ClientInv
      PROVE  BufferKeepsConnection
  <2> DEFINE datas == [i \in DOMAIN cq |-> cq[i].data]
  <2>1. /\ sq \in Seq(OwnedOps) /\ kernel \in Seq(OwnedOps)
        /\ cq \in Seq([data : OwnedOps, res : Results])
    BY <1>1 DEF ClientInv
  <2>2. datas \in Seq(OwnedOps)
    <3>1. Len(cq) \in Nat /\ DOMAIN cq = 1 .. Len(cq)
      BY <2>1, LenProperties
    <3>2. ASSUME NEW i \in 1 .. Len(cq) PROVE cq[i].data \in OwnedOps
      <4>1. cq[i] \in [data : OwnedOps, res : Results]
        BY <2>1, ElementOfSeq
      <4> QED
        BY <4>1
    <3> DEFINE seq == [i \in 1 .. Len(cq) |-> cq[i].data]
    <3>3. seq \in [1 .. Len(cq) -> OwnedOps]
      BY <3>2
    <3>4. seq \in Seq(OwnedOps)
      BY <3>1, <3>3
    <3>5. datas = seq
      BY <3>1
    <3> QED
      BY <3>4, <3>5
  <2> HIDE DEF datas
  <2>3. sq \o kernel \in Seq(OwnedOps)
    BY <2>1, ConcatProperties
  <2>4. sq \o kernel \o datas \in Seq(OwnedOps)
    BY <2>2, <2>3, ConcatProperties
  <2>5. AllOps = sq \o kernel \o datas
    BY DEF AllOps, datas
  <2>6. AllOps \in Seq(OwnedOps)
    BY <2>4, <2>5
  <2> SUFFICES ASSUME NEW i \in DOMAIN AllOps
               PROVE  AllOps[i].fd = connections[(AllOps[i].buffer_idx % ConnectionsPerThread) + 1]
    BY DEF BufferKeepsConnection
  <2>7. AllOps[i] \in OwnedOps
    BY <2>6, LenProperties, ElementOfSeq
  <2>8. connections # <<>>
    <3>1. CASE pc \in {"connect", "wait"} \/ exit = "setup"
      <4>1. sq = <<>> /\ kernel = <<>> /\ cq = <<>>
        BY <1>1, <3>1 DEF ClientInv
      <4>2. Len(sq) = 0 /\ Len(kernel) = 0 /\ DOMAIN cq = {}
        BY <4>1
      <4>3. Len(sq \o kernel) = 0
        BY <2>1, <4>2, ConcatProperties
      <4>4. DOMAIN datas = {}
        BY <4>2 DEF datas
      <4>5. Len(datas) = 0
        BY <2>2, <4>4, LenProperties
      <4>6. Len(AllOps) = 0 /\ DOMAIN AllOps = 1 .. Len(AllOps)
        BY <2>2, <2>3, <2>5, <2>6, <4>3, <4>5, ConcatProperties, LenProperties
      <4> QED
        BY <4>6
    <3>2. CASE pc \notin {"connect", "wait"} /\ exit # "setup"
      BY <1>1, <3>2, EmptySeq, ClientAssumption DEF ClientInv
    <3> QED
      BY <3>1, <3>2
  <2> QED
    BY <2>7, <2>8 DEF OwnedOps
<1> QED
  BY <1>1, ClientInvariant, PTL

(* No page is received into a buffer that another operation of the thread  *)
(* is using, in every reachable state (client.cpp:196-205, 298-350).       *)
THEOREM OneOpPerBufferAlways == Spec => []OneOpPerBuffer
<1>1. Init => OnePerBuffer
  <2> SUFFICES ASSUME Init, NEW b \in Buffers PROVE InRing(BufferOps(b)) <= 1
    BY DEF OnePerBuffer
  <2>1. InRing(BufferOps(b)) = 0 + 0 + 0
    BY CountEmpty DEF Init, InRing
  <2> QED
    BY <2>1
<1>2. ClientInv /\ OnePerBuffer /\ [Next]_vars => OnePerBuffer'
  BY StepKeepsOnePerBuffer
<1>3. ClientInv /\ OnePerBuffer => OneOpPerBuffer
  <2> SUFFICES ASSUME ClientInv, OnePerBuffer, NEW i \in DOMAIN AllOps, NEW j \in DOMAIN AllOps,
                      AllOps[i].buffer_idx = AllOps[j].buffer_idx
               PROVE  i = j
    BY DEF OneOpPerBuffer
  <2> DEFINE b == AllOps[i].buffer_idx
             T == BufferOps(b)
  <2>1. AllOps \in Seq(UserData) /\ Count(AllOps, T) = InRing(T)
    BY AllOpsCounted DEF ClientInv, TypeOK, RingTyped
  <2>2. AllOps[i] \in UserData /\ AllOps[j] \in UserData
    BY <2>1, LenProperties, ElementOfSeq
  <2>3. b \in Buffers /\ AllOps[i] \in T /\ AllOps[j] \in T
    BY <2>2 DEF UserData, BufferOps
  <2>4. Count(AllOps, T) <= 1
    BY <2>1, <2>3 DEF OnePerBuffer
  <2> HIDE DEF T
  <2> QED
    BY <2>1, <2>3, <2>4, CountAtMostOne
<1> QED
  BY <1>1, <1>2, <1>3, ClientInvariant, PTL DEF Spec

(* Once the loop has seen the deadline it drains: no step adds an          *)
(* operation, and no response becomes a request (client.cpp:316-330).      *)
THEOREM DrainsAfterDeadline == Spec => NoRequestAfterDeadline
<1> DEFINE NotYetLate == pc \in {"connect", "wait"} => ~late
<1>1. Init => NotYetLate
  BY DEF Init
<1>2. ClientInv /\ NotYetLate /\ [Next]_vars => NotYetLate'
  <2> SUFFICES ASSUME ClientInv, NotYetLate, [Next]_vars PROVE NotYetLate'
    OBVIOUS
  <2>1. \/ pc' \in {"connect", "wait"} => pc \in {"connect", "wait"} /\ late' = late
    <3>1. CASE Handle
      <4>1. late' = late /\ pc = "blocked"
        BY <3>1 DEF Handle, Resubmit, ConnectionLost, SendDone, RecvEarly, RecvLate, Handling
      <4>2. pc' \notin {"connect", "wait"}
        BY <3>1, ZenonT(60) DEF Handle, Resubmit, ConnectionLost, SendDone, RecvEarly, RecvLate,
           PrepareNext, EndIteration, LeaveOrLoop, Break
      <4> QED
        BY <4>2
    <3>2. CASE Kernel
      BY <3>2 DEF Kernel, Complete
    <3> QED
      BY <3>1, <3>2
      DEF Next, Thread, Connect, Setup, AwaitConnections, Start, LoopTop, Environment, PeerCloses,
          Tick, WaitFails, Terminated, vars
  <2> QED
    BY <2>1
<1>3. ASSUME ClientInv, ClientInv', NotYetLate, late, [Next]_vars
      PROVE  Outstanding' <= Outstanding /\ Requests' <= Requests
  <2>1. RingTyped /\ RingTyped'
    BY <1>3 DEF ClientInv, TypeOK, RingTyped
  <2>2. RequestOps' = RequestOps
    <3>1. half_duplex_mode' = half_duplex_mode
      BY <1>3 DEF Next, Thread, Connect, Setup, AwaitConnections, Start, LoopTop, Handle, Resubmit,
         ConnectionLost, SendDone, RecvEarly, RecvLate, Kernel, Complete, Environment, PeerCloses,
         Tick, WaitFails, Terminated, vars, clientVars
    <3> QED
      BY <3>1 DEF RequestOps, UserData, Buffers
  <2>3. PICK R : R = RequestOps
    OBVIOUS
  <2>4. /\ Outstanding = InRing(UserData) /\ Outstanding' = InRing(UserData)'
        /\ Requests = InRing(R) /\ Requests' = InRing(R)'
    BY <2>1, <2>2, <2>3, AllOpsCounted, InRingType DEF Requests
  <2>5. \A T : InRing(T) \in Nat /\ InRing(T)' \in Nat
    BY <2>1, InRingType
  <2>6. CASE UNCHANGED ringVars
    <3>1. InRing(UserData)' = InRing(UserData) /\ InRing(R)' = InRing(R)
      BY <2>6 DEF InRing, ringVars, CqesOf, Cqes, UserData, Buffers
    <3> QED
      BY <2>4, <2>5, <3>1
  <2>7. CASE Start
    BY <1>3, <2>7 DEF Start
  <2>8. CASE Handle
    <3> DEFINE op == Cqe.data
    <3>1. op \in UserData
      BY <1>3, <2>8, DerivedOpsAreOwned
      DEF Handle, Resubmit, ConnectionLost, SendDone, RecvEarly, RecvLate, OwnedOps
    <3>2. CASE \A T : InRing(T)' + One(op, T) = InRing(T)
      <4>1. \A T : InRing(T)' <= InRing(T)
        BY <2>5, <3>2 DEF One
      <4> QED
        BY <2>4, <4>1
    <3>3. ASSUME NEW next \in UserData, next \in R => op \in R,
                 \A T : InRing(T)' + One(op, T) = InRing(T) + One(next, T)
          PROVE  Outstanding' <= Outstanding /\ Requests' <= Requests
      <4>1. One(next, UserData) <= One(op, UserData) /\ One(next, R) <= One(op, R)
        BY <3>1, <3>3 DEF One
      <4>2. \A T : One(next, T) <= One(op, T) => InRing(T)' <= InRing(T)
        BY <2>5, <3>3 DEF One
      <4> QED
        BY <2>4, <4>1, <4>2
    <3> QED
      BY <1>3, <2>3, <2>6, <2>8, <3>2, <3>3, HandleCounts
  <2>9. ASSUME NEW i \in DOMAIN kernel, NEW res \in Results, Complete(i, res)
        PROVE  Outstanding' <= Outstanding /\ Requests' <= Requests
    <3>1. \A T : InRing(T)' = InRing(T)
      BY <1>3, <2>9, CompleteCounts
    <3> QED
      BY <2>4, <2>5, <3>1
  <2> QED
    BY <1>3, <2>6, <2>7, <2>8, <2>9, StepsOfTheRing
<1>4. ClientInv /\ ClientInv' /\ NotYetLate /\ [Next]_vars
        => [late => Outstanding' <= Outstanding /\ Requests' <= Requests]_vars
  BY <1>3
<1> QED
  BY <1>1, <1>2, <1>4, ClientInvariant, PTL DEF Spec, NoRequestAfterDeadline

(* The variables keep their types. *)
THEOREM TypeCorrect == Spec => []TypeOK
<1>1. ClientInv => TypeOK
  BY DEF ClientInv
<1> QED
  BY <1>1, ClientInvariant, PTL
=============================================================================
