--------------------------- MODULE FastNetProofs ---------------------------
(***************************************************************************)
(* The clients and servers of fast_net that ask for pages: what            *)
(* SimpleIouClient promises for every ring, pool, page and number of       *)
(* requests, in both build modes, and that get_page, one request at a time *)
(* (GetPage) and in batches (GetPageIou), answers what it was asked.       *)
(***************************************************************************)
EXTENDS SimpleIouClient, Programs, CountLemmas


(***************************************************************************)
(* The operations under way, prepared or with the kernel.                  *)
(***************************************************************************)

OfKind(kind) == {op \in Ops : op.kind = kind}
Under(T) == Count(in_kernel, T) + Count(sq, T)

SendsUnder == Under(OfKind("send"))
RecvsUnder == Under(OfKind("recv"))
NotifsUnder == Under(OfKind("notif"))

Rings == sq \in Seq(Ops) /\ in_kernel \in Seq(Ops)

LEMMA UnderType ==
  ASSUME Rings, NEW T
  PROVE  Under(T) \in Nat
<1>1. Count(in_kernel, T) \in Nat /\ Count(sq, T) \in Nat
  BY CountType DEF Rings
<1> QED
  BY <1>1 DEF Under

LEMMA PrepareCounts ==
  ASSUME Rings, NEW op \in Ops, NEW T, sq' = Append(sq, op), in_kernel' = in_kernel
  PROVE  Rings' /\ Len(sq') = Len(sq) + 1 /\ Under(T)' = Under(T) + One(op, T)
<1>1. /\ Count(Append(sq, op), T) = Count(sq, T) + One(op, T)
      /\ Append(sq, op) \in Seq(Ops) /\ Len(Append(sq, op)) = Len(sq) + 1
  BY CountAppend, AppendProperties DEF Rings
<1>2. Count(sq, T) \in Nat /\ Count(in_kernel, T) \in Nat /\ One(op, T) \in Nat
  BY CountType DEF Rings, One
<1> QED
  BY <1>1, <1>2 DEF Rings, Under

LEMMA SubmitCounts ==
  ASSUME Rings, NEW T, in_kernel' = in_kernel \o sq, sq' = <<>>
  PROVE  Rings' /\ Under(T)' = Under(T)
<1>1. /\ Count(in_kernel \o sq, T) = Count(in_kernel, T) + Count(sq, T)
      /\ in_kernel \o sq \in Seq(Ops)
  BY CountConcat, ConcatProperties DEF Rings
<1>2. Count(<<>>, T) = 0 /\ <<>> \in Seq(Ops)
  BY CountEmpty
<1>3. Count(sq, T) \in Nat /\ Count(in_kernel, T) \in Nat
  BY CountType DEF Rings
<1> QED
  BY <1>1, <1>2, <1>3 DEF Rings, Under

(* An operation completes, and may leave another behind. *)
LEMMA CompleteCounts ==
  ASSUME Rings, NEW n \in DOMAIN in_kernel, NEW added \in Seq(Ops), NEW T,
         in_kernel' = RemoveAt(in_kernel, n) \o added, sq' = sq
  PROVE  /\ Rings' /\ in_kernel[n] \in Ops
         /\ Under(T)' + One(in_kernel[n], T) = Under(T) + Count(added, T)
         /\ One(in_kernel[n], T) <= Under(T)
<1>1. /\ RemoveAt(in_kernel, n) \in Seq(Ops)
      /\ Count(in_kernel, T) = Count(RemoveAt(in_kernel, n), T) + One(in_kernel[n], T)
  BY CountRemoveAt DEF Rings
<1> DEFINE rest == RemoveAt(in_kernel, n)
<1>2. rest \in Seq(Ops) /\ Count(in_kernel, T) = Count(rest, T) + One(in_kernel[n], T)
  BY <1>1
<1>3. in_kernel' = rest \o added
  OBVIOUS
<1> HIDE DEF rest
<1>4. Count(rest \o added, T) = Count(rest, T) + Count(added, T) /\ rest \o added \in Seq(Ops)
  BY <1>2, CountConcat, ConcatProperties
<1>5. /\ Count(rest, T) \in Nat /\ Count(added, T) \in Nat /\ Count(sq, T) \in Nat
      /\ One(in_kernel[n], T) \in Nat
  BY <1>2, CountType DEF Rings, One
<1>6. in_kernel[n] \in Ops
  BY LenProperties, ElementOfSeq DEF Rings
<1> QED
  <2> DEFINE kept == Count(rest, T)
             more == Count(added, T)
             one == One(in_kernel[n], T)
             queued == Count(sq, T)
  <2>1. Rings'
    BY <1>3, <1>4 DEF Rings
  <2>2. Under(T) = (kept + one) + queued /\ Under(T)' = (kept + more) + queued
    BY <1>2, <1>3, <1>4 DEF Under
  <2>3. kept \in Nat /\ more \in Nat /\ one \in Nat /\ queued \in Nat
    BY <1>5
  <2> HIDE DEF kept, more, one, queued
  <2>4. Under(T)' + one = Under(T) + more /\ one <= Under(T)
    BY ONLY <2>2, <2>3
  <2> QED
    BY <1>6, <2>1, <2>4 DEF one, more

LEMMA CompleteCountsAlone ==
  ASSUME Rings, NEW n \in DOMAIN in_kernel, NEW T,
         in_kernel' = RemoveAt(in_kernel, n), sq' = sq
  PROVE  /\ Rings' /\ in_kernel[n] \in Ops
         /\ Under(T)' + One(in_kernel[n], T) = Under(T)
         /\ One(in_kernel[n], T) <= Under(T)
<1>1. RemoveAt(in_kernel, n) \in Seq(Ops)
  BY CountRemoveAt DEF Rings
<1> DEFINE rest == RemoveAt(in_kernel, n)
<1> HIDE DEF rest
<1>2. rest \o <<>> = rest
  BY <1>1, ConcatEmptySeq DEF rest
<1>3. in_kernel' = RemoveAt(in_kernel, n) \o <<>> /\ <<>> \in Seq(Ops)
  BY <1>2 DEF rest
<1>4. /\ Rings' /\ in_kernel[n] \in Ops
      /\ Under(T)' + One(in_kernel[n], T) = Under(T) + Count(<<>>, T)
      /\ One(in_kernel[n], T) <= Under(T)
  BY <1>3, CompleteCounts
<1> QED
  BY <1>4, CountEmpty, UnderType

(* What is left keeps its order: before n its place, behind n one less.    *)
LEMMA RemovedAt ==
  ASSUME NEW S, NEW s \in Seq(S), NEW n \in DOMAIN s
  PROVE  /\ RemoveAt(s, n) \in Seq(S) /\ Len(s) \in Nat \ {0} /\ n \in 1 .. Len(s)
         /\ Len(RemoveAt(s, n)) = Len(s) - 1
         /\ DOMAIN RemoveAt(s, n) = 1 .. Len(s) - 1
         /\ \A at \in 1 .. Len(s) - 1 : RemoveAt(s, n)[at] = s[IF at < n THEN at ELSE at + 1]
<1> DEFINE len == Len(s)
           before == SubSeq(s, 1, n - 1)
           after == SubSeq(s, n + 1, len)
<1>1. len \in Nat \ {0} /\ n \in 1 .. len /\ DOMAIN s = 1 .. len
  BY LenProperties
<1>2. /\ before \in Seq(S) /\ Len(before) = n - 1
      /\ \A at \in 1 .. n - 1 : before[at] = s[at]
  <2>1. \A at \in 1 .. n - 1 : s[at] \in S
    BY <1>1, ElementOfSeq
  <2> QED
    BY <1>1, <2>1, SubSeqProperties
<1>3. /\ after \in Seq(S) /\ Len(after) = len - n
      /\ \A at \in 1 .. len - n : after[at] = s[n + at]
  <2>1. \A at \in n + 1 .. len : s[at] \in S
    BY <1>1, ElementOfSeq
  <2>2. after \in Seq(S) /\ Len(after) = len - n
    BY <1>1, <2>1, SubSeqProperties
  <2>3. \A at \in 1 .. len - n : after[at] = s[n + 1 + at - 1] /\ n + 1 + at - 1 = n + at
    <3>1. \A at \in 1 .. len - (n + 1) + 1 : after[at] = s[n + 1 + at - 1]
      BY <1>1, <2>1, SubSeqProperties
    <3>2. n \in Int /\ len \in Int
      BY <1>1
    <3> HIDE DEF after, len
    <3> QED
      BY ONLY <3>1, <3>2
  <2> QED
    BY <2>2, <2>3
<1>4. RemoveAt(s, n) = before \o after
  BY DEF RemoveAt
<1> HIDE DEF before, after, len
<1>5. /\ before \o after \in Seq(S) /\ Len(before \o after) = len - 1
      /\ DOMAIN (before \o after) = 1 .. len - 1
      /\ \A at \in 1 .. len - 1 :
           (before \o after)[at] = IF at <= n - 1 THEN before[at] ELSE after[at - (n - 1)]
  <2>1. /\ before \o after \in Seq(S) /\ Len(before \o after) = Len(before) + Len(after)
        /\ \A at \in 1 .. Len(before) + Len(after) :
             (before \o after)[at] = IF at <= Len(before) THEN before[at]
                                   ELSE after[at - Len(before)]
    BY <1>2, <1>3, ConcatProperties
  <2>2. Len(before) + Len(after) = len - 1
    BY <1>1, <1>2, <1>3
  <2>3. DOMAIN (before \o after) = 1 .. len - 1
    BY <2>1, <2>2, LenProperties
  <2> QED
    BY <1>2, <2>1, <2>2, <2>3
<1>6. ASSUME NEW at \in 1 .. len - 1
      PROVE  (before \o after)[at] = s[IF at < n THEN at ELSE at + 1]
  <2>1. CASE at < n
    BY <1>1, <1>2, <1>5, <2>1
  <2>2. CASE ~(at < n)
    <3>1. at - (n - 1) \in 1 .. len - n /\ n + (at - (n - 1)) = at + 1 /\ ~(at <= n - 1)
      BY <1>1, <2>2
    <3> QED
      BY <1>1, <1>3, <1>5, <2>2, <3>1
  <2> QED
    BY <2>1, <2>2
<1> QED
  BY <1>1, <1>4, <1>5, <1>6 DEF len

(***************************************************************************)
(* What the client has counted.                                            *)
(***************************************************************************)

Posted == cqes # <<>>
PostedRecv == IF Posted /\ Head(cqes).kind = "recv" THEN 1 ELSE 0
PostedInts == IF Posted /\ Head(cqes).kind = "recv" /\ Head(cqes).res >= 0 THEN Head(cqes).res ELSE 0
PostedRes == IF Posted /\ Head(cqes).res >= 0 THEN Head(cqes).res ELSE 0

(* At most one completion waits; it says what the kernel has done.  Only   *)
(* send_zc leaves notifications behind.                                    *)
RingInv ==
  /\ cqes = <<>> \/ (Len(cqes) = 1 /\ phase \in {"reap", "failed"})
  /\ phase \in {"reap", "done", "failed"} => sq = <<>>
  /\ \A n \in DOMAIN sq : sq[n].kind # "notif"
  /\ Posted /\ Head(cqes).kind = "send" => Head(cqes).res \in {1, -1}
  /\ Posted /\ Head(cqes).kind = "notif" => Head(cqes).res = 0
  /\ ~registered => \A n \in DOMAIN in_kernel : in_kernel[n].kind # "notif"

(* The two windows; what the two loops prepare of a pass fits the ring.    *)
Windows ==
  /\ send_index - recv_index <= RingSize \div 4
  /\ recv_index - iterations_received <= RingSize \div 2
  /\ phase = "send" => Len(sq) <= send_index - recv_index
  /\ phase = "recv" => Len(sq) + (send_index - recv_index) <= 2 * (RingSize \div 4)
  /\ Len(sq) <= 2 * (RingSize \div 4)
  /\ phase = "done" => send_index = NumRequests
  /\ phase = "done" /\ ~stupid => NumRequests - iterations_received <= RingSize \div 2

(* No request is acknowledged before it has gone out.                      *)
SentFirst ==
  acknowledged + SendsUnder + NotifsUnder <= send_index

(* What is counted was consumed or, with one shared block, sent.           *)
ConsumedOrSent ==
  total_received + PostedRes <= consumed + (send_index - SendsUnder)

(* With blocks of their own what is counted was consumed, every receive    *)
(* prepared is under way, posted or counted, and counts a page at most.    *)
CountedExactly ==
  ~stupid =>
    /\ total_received + PostedInts = consumed
    /\ recv_index = iterations_received + RecvsUnder + PostedRecv
    /\ total_received <= PageSize * iterations_received
    /\ ~short => consumed = PageSize * (iterations_received + PostedRecv)

Totals == SentFirst /\ ConsumedOrSent /\ CountedExactly

CountsInv == TypeOK /\ RingInv /\ Windows /\ Totals

(***************************************************************************)
(* The pools.                                                              *)
(***************************************************************************)

(* There is a nearest free block when there is a free one.                 *)
LEMMA NextFreeIsNearest ==
  ASSUME NEW p \in Pools, CanCheckOut(p)
  PROVE  /\ NextFree(p) \in FreeBlocks(p)
         /\ \A c \in FreeBlocks(p) : Distance(p, NextFree(p)) <= Distance(p, c)
<1> DEFINE D == {Distance(p, b) : b \in FreeBlocks(p)}
<1>1. \A b \in FreeBlocks(p) : Distance(p, b) \in Nat
  BY CapacityAssumption DEF FreeBlocks, Distance, Blocks, Pools
<1>2. D \in SUBSET Nat /\ D # {}
  BY <1>1 DEF CanCheckOut
<1> HIDE DEF D
<1>3. PICK m \in D : \A n \in D : m <= n
  BY <1>2, SmallestOf
<1>4. PICK b \in FreeBlocks(p) : m = Distance(p, b)
  BY DEF D
<1>5. \A c \in FreeBlocks(p) : Distance(p, b) <= Distance(p, c)
  BY <1>3, <1>4 DEF D
<1> QED
  BY <1>5 DEF NextFree

LEMMA CheckOutType ==
  ASSUME NEW p \in Pools, CanCheckOut(p)
  PROVE  /\ NextFree(p) \in Blocks
         /\ p.state[NextFree(p)] = "Free"
         /\ CheckOut(p) \in Pools
         /\ CheckOut(p).next_index = (NextFree(p) + 1) % Capacity
         /\ CheckOut(p).state = [p.state EXCEPT ![NextFree(p)] = "CheckedOut"]
<1>1. NextFree(p) \in Blocks /\ p.state[NextFree(p)] = "Free"
  BY NextFreeIsNearest DEF FreeBlocks
<1>2. (NextFree(p) + 1) % Capacity \in Blocks
  BY <1>1, CapacityAssumption DEF Blocks
<1>3. [p.state EXCEPT ![NextFree(p)] = "CheckedOut"] \in [Blocks -> BufferStates]
  BY <1>1 DEF Pools, BufferStates
<1> QED
  BY <1>1, <1>2, <1>3 DEF CheckOut, Pools

LEMMA CheckInType ==
  ASSUME NEW p \in Pools, NEW b \in Blocks
  PROVE  /\ CheckIn(p, b) \in Pools
         /\ CheckIn(p, b).next_index = p.next_index
         /\ CheckIn(p, b).state = [p.state EXCEPT ![b] = "Free"]
BY DEF CheckIn, Pools, BufferStates

(***************************************************************************)
(* The actions and what is counted.                                        *)
(***************************************************************************)

LEMMA OneOfKind ==
  ASSUME NEW op \in Ops, NEW kind
  PROVE  One(op, OfKind(kind)) = IF op.kind = kind THEN 1 ELSE 0
BY DEF One, OfKind

(* What is counted are numbers. *)
LEMMA Numbers ==
  ASSUME TypeOK, RingInv
  PROVE  /\ Rings
         /\ send_index \in Nat /\ recv_index \in Nat /\ recv_index <= send_index
         /\ send_index <= NumRequests
         /\ iterations_received \in Nat /\ total_received \in Nat
         /\ acknowledged \in Nat /\ acknowledged <= send_index
         /\ consumed \in Nat /\ consumed <= acknowledged * PageSize
         /\ acknowledged * PageSize \in Nat
         /\ PostedRes \in Nat /\ PostedInts \in Nat /\ PostedRecv \in {0, 1}
         /\ SendsUnder \in Nat /\ NotifsUnder \in Nat
         /\ RecvsUnder \in Nat
         /\ (Posted => Head(cqes) \in Cqes /\ Tail(cqes) = <<>>)
<1> USE SimpleIouClientAssumption
<1>1. Rings
  BY DEF TypeOK, Rings
<1>2. /\ send_index \in Nat /\ recv_index \in Nat /\ recv_index <= send_index
      /\ send_index <= NumRequests /\ iterations_received \in Nat
      /\ acknowledged \in Nat /\ acknowledged <= send_index
  BY DEF TypeOK
<1>3. acknowledged * PageSize \in Nat /\ NumRequests * PageSize \in Nat
  BY <1>2
<1>4. /\ consumed \in Nat /\ consumed <= acknowledged * PageSize
      /\ total_received \in Nat
  BY <1>3 DEF TypeOK
<1>5. Posted => Head(cqes) \in Cqes /\ Tail(cqes) = <<>>
  <2>1. ASSUME Posted PROVE Head(cqes) \in Cqes /\ Len(Tail(cqes)) = 0 /\ Tail(cqes) \in Seq(Cqes)
    BY <2>1, HeadTailProperties DEF TypeOK, RingInv, Posted
  <2> QED
    BY <2>1, EmptySeq
<1>6. Posted => Head(cqes).res \in Int
  BY <1>5 DEF Cqes
<1>7. PostedRes \in Nat /\ PostedInts \in Nat /\ PostedRecv \in {0, 1}
  BY <1>6 DEF PostedRes, PostedInts, PostedRecv
<1> QED
  BY <1>1, <1>2, <1>3, <1>4, <1>5, <1>7, UnderType DEF SendsUnder, RecvsUnder, NotifsUnder

LEMMA InitCounts == Init => CountsInv
<1> SUFFICES ASSUME Init PROVE CountsInv
  OBVIOUS
<1> USE SimpleIouClientAssumption, CapacityAssumption
<1>1. <<>> \in Seq(Ops) /\ <<>> \in Seq(Cqes) /\ Len(<<>>) = 0
  OBVIOUS
<1>2. NewPool \in Pools
  <2>1. 0 \in Blocks
    BY DEF Blocks
  <2> QED
    BY <2>1 DEF NewPool, Pools, BufferStates
<1>3. /\ registered \in BOOLEAN /\ stupid \in BOOLEAN /\ phase = "send" /\ send_index = 0
      /\ recv_index = 0 /\ iterations_received = 0 /\ total_received = 0
      /\ small = NewPool /\ large = NewPool /\ event_type = "none" /\ sq = <<>>
      /\ in_kernel = <<>> /\ cqes = <<>> /\ acknowledged = 0 /\ consumed = 0
      /\ closed = FALSE /\ short = FALSE /\ overtaken = FALSE
  BY DEF Init
<1>4. NumRequests * PageSize + NumRequests \in Nat /\ 0 * PageSize = 0 /\ PageSize * 0 = 0
  OBVIOUS
<1>5. TypeOK
  <2>1. 0 \in 0 .. NumRequests * PageSize + NumRequests /\ 0 \in 0 .. NumRequests
    BY <1>4
  <2>2. /\ recv_index \in 0 .. NumRequests /\ send_index \in recv_index .. NumRequests
        /\ total_received \in 0 .. NumRequests * PageSize + NumRequests
    BY ONLY <1>3, <2>1
  <2>3. /\ iterations_received \in Nat /\ Len(sq) <= RingSize
        /\ acknowledged \in 0 .. send_index /\ consumed \in 0 .. acknowledged * PageSize
    BY <1>1, <1>3, <1>4
  <2> QED
    BY ONLY <1>1, <1>2, <1>3, <2>2, <2>3 DEF TypeOK
<1>6. ~Posted /\ PostedRecv = 0 /\ PostedInts = 0 /\ PostedRes = 0
  BY <1>3 DEF Posted, PostedRecv, PostedInts, PostedRes
<1>7. RingInv
  BY <1>3, <1>6 DEF RingInv
<1>8. Windows
  BY <1>1, <1>3 DEF Windows
<1>9. \A kind \in {"send", "recv", "notif"} : Under(OfKind(kind)) = 0
  BY <1>3, CountEmpty DEF Under
<1>10. Totals
  BY <1>3, <1>4, <1>6, <1>9
  DEF SendsUnder, RecvsUnder, NotifsUnder, Totals, SentFirst, ConsumedOrSent, CountedExactly
<1> QED
  BY <1>5, <1>7, <1>8, <1>10 DEF CountsInv

(* A request takes a free block of its own, or the one that all share.     *)
LEMMA PrepareSendCounts ==
  ASSUME CountsInv, PrepareSend
  PROVE  CountsInv'
<1> USE SimpleIouClientAssumption, CapacityAssumption
<1> DEFINE op == [kind |-> "send", block |-> Block(small)]
<1>1. TypeOK /\ RingInv /\ Windows /\ Totals /\ Rings
  BY DEF CountsInv, TypeOK, Rings
<1>2. Block(small) \in Blocks /\ After(small) \in Pools
  <2>1. 0 \in Blocks
    BY DEF Blocks
  <2> QED
    BY <1>1, <2>1, CheckOutType DEF TypeOK, PrepareSend, Block, After, Lasts
<1>3. op \in Ops /\ op.kind = "send"
  BY <1>2 DEF Ops
<1>4. /\ sq' = Append(sq, op) /\ in_kernel' = in_kernel /\ cqes' = cqes
      /\ small' = After(small) /\ event_type' = "SEND_EVENT" /\ send_index' = send_index + 1
      /\ UNCHANGED <<registered, stupid, phase, recv_index, iterations_received, total_received,
                     large, acknowledged, consumed, closed, short, overtaken>>
      /\ phase = "send" /\ send_index < NumRequests
      /\ send_index - recv_index < RingSize \div 4
  BY DEF PrepareSend, modeVars, netVars, Sending, MoreToSend
<1> HIDE DEF op
<1>5. Rings' /\ Len(sq') = Len(sq) + 1
  BY <1>1, <1>3, <1>4, PrepareCounts
<1>6. ASSUME NEW kind
      PROVE  Under(OfKind(kind))' = Under(OfKind(kind)) + One(op, OfKind(kind))
  BY <1>1, <1>3, <1>4, PrepareCounts
<1>7. /\ SendsUnder' = SendsUnder + 1
      /\ RecvsUnder' = RecvsUnder /\ NotifsUnder' = NotifsUnder
  <2>1. /\ One(op, OfKind("send")) = 1 /\ One(op, OfKind("recv")) = 0
        /\ One(op, OfKind("notif")) = 0
    BY <1>3, OneOfKind
  <2>2. RecvsUnder \in Nat /\ NotifsUnder \in Nat
    BY <1>1, Numbers
  <2> QED
    BY <1>6, <2>1, <2>2 DEF SendsUnder, RecvsUnder, NotifsUnder
<1>8. Len(sq) \in Nat
  BY <1>1, LenProperties DEF Rings
<1>9. Windows'
  BY <1>1, <1>4, <1>5, <1>8 DEF Windows, TypeOK
<1>10. TypeOK'
  <2>1. Len(sq') <= RingSize
    BY <1>9, <1>1, <1>5, <1>8 DEF Windows
  <2>2. send_index' \in recv_index' .. NumRequests /\ acknowledged' \in 0 .. send_index'
    BY <1>1, <1>4 DEF TypeOK
  <2> QED
    BY <1>1, <1>2, <1>4, <1>5, <2>1, <2>2 DEF TypeOK, Rings
<1>11. RingInv'
  <2>1. \A n \in DOMAIN sq' : sq'[n].kind # "notif"
    <3>1. \A n \in 1 .. Len(sq) + 1 : sq'[n] = IF n = Len(sq) + 1 THEN op ELSE sq[n]
      BY <1>1, <1>3, <1>4, AppendProperties DEF Rings
    <3>2. DOMAIN sq = 1 .. Len(sq) /\ DOMAIN sq' = 1 .. Len(sq) + 1
      BY <1>1, <1>3, <1>4, <1>5, LenProperties, AppendProperties DEF Rings
    <3> QED
      BY <1>1, <1>3, <1>8, <3>1, <3>2 DEF RingInv
  <2> QED
    BY <1>1, <1>4, <2>1 DEF RingInv, Posted
<1>12. Totals'
  <2>1. PostedRes' = PostedRes /\ PostedInts' = PostedInts /\ PostedRecv' = PostedRecv
    BY <1>4 DEF PostedRes, PostedInts, PostedRecv, Posted
  <2>2. /\ send_index \in Nat /\ acknowledged \in Nat /\ consumed \in Nat
        /\ total_received \in Nat /\ SendsUnder \in Nat /\ NotifsUnder \in Nat
        /\ PostedRes \in Nat
    BY <1>1, Numbers
  <2>4. SentFirst'
    BY <1>1, <1>4, <1>7, <2>2 DEF Totals, SentFirst
  <2>5. ConsumedOrSent'
    BY <1>1, <1>4, <1>7, <2>1, <2>2 DEF Totals, ConsumedOrSent
  <2>3. CountedExactly'
    BY <1>1, <1>4, <1>7, <2>1 DEF Totals, CountedExactly
  <2> QED
    BY <2>3, <2>4, <2>5 DEF Totals
<1> QED
  BY <1>9, <1>10, <1>11, <1>12 DEF CountsInv

(* A receive takes a free page of its own, or the block that all share.    *)
LEMMA PrepareRecvCounts ==
  ASSUME CountsInv, PrepareRecv
  PROVE  CountsInv'
<1> USE SimpleIouClientAssumption, CapacityAssumption
<1> DEFINE op == [kind |-> "recv", block |-> Block(large)]
<1>1. TypeOK /\ RingInv /\ Windows /\ Totals /\ Rings
  BY DEF CountsInv, TypeOK, Rings
<1>2. Block(large) \in Blocks /\ After(large) \in Pools
  <2>1. 0 \in Blocks
    BY DEF Blocks
  <2> QED
    BY <1>1, <2>1, CheckOutType DEF TypeOK, PrepareRecv, Block, After, Lasts
<1>3. op \in Ops /\ op.kind = "recv"
  BY <1>2 DEF Ops
<1>4. /\ sq' = Append(sq, op) /\ in_kernel' = in_kernel /\ cqes' = cqes /\ phase' = "recv"
      /\ large' = After(large) /\ event_type' = "RECV_EVENT" /\ recv_index' = recv_index + 1
      /\ UNCHANGED <<registered, stupid, send_index, iterations_received, total_received,
                     small, acknowledged, consumed, closed, short, overtaken>>
      /\ phase \in {"send", "recv"} /\ recv_index < send_index
      /\ recv_index - iterations_received < RingSize \div 2
  BY DEF PrepareRecv, modeVars, netVars, Receiving, MoreToRecv
<1> HIDE DEF op
<1>5. Rings' /\ Len(sq') = Len(sq) + 1
  BY <1>1, <1>3, <1>4, PrepareCounts
<1>6. ASSUME NEW kind
      PROVE  Under(OfKind(kind))' = Under(OfKind(kind)) + One(op, OfKind(kind))
  BY <1>1, <1>3, <1>4, PrepareCounts
<1>7. /\ RecvsUnder' = RecvsUnder + 1
      /\ SendsUnder' = SendsUnder /\ NotifsUnder' = NotifsUnder
  <2>1. /\ One(op, OfKind("recv")) = 1 /\ One(op, OfKind("send")) = 0
        /\ One(op, OfKind("notif")) = 0
    BY <1>3, OneOfKind
  <2>2. SendsUnder \in Nat /\ NotifsUnder \in Nat
    BY <1>1, Numbers
  <2> QED
    BY <1>6, <2>1, <2>2 DEF SendsUnder, RecvsUnder, NotifsUnder
<1>8. Len(sq) \in Nat
  BY <1>1, LenProperties DEF Rings
<1>9. Windows'
  BY <1>1, <1>4, <1>5, <1>8 DEF Windows, TypeOK
<1>10. TypeOK'
  <2>1. Len(sq') <= RingSize
    BY <1>9, <1>1, <1>5, <1>8 DEF Windows
  <2>2. recv_index' \in 0 .. NumRequests /\ send_index' \in recv_index' .. NumRequests
    BY <1>1, <1>4 DEF TypeOK
  <2> QED
    BY <1>1, <1>2, <1>4, <1>5, <2>1, <2>2 DEF TypeOK, Rings
<1>11. RingInv'
  <2>1. \A n \in DOMAIN sq' : sq'[n].kind # "notif"
    <3>1. \A n \in 1 .. Len(sq) + 1 : sq'[n] = IF n = Len(sq) + 1 THEN op ELSE sq[n]
      BY <1>1, <1>3, <1>4, AppendProperties DEF Rings
    <3>2. DOMAIN sq = 1 .. Len(sq) /\ DOMAIN sq' = 1 .. Len(sq) + 1
      BY <1>1, <1>3, <1>4, <1>5, LenProperties, AppendProperties DEF Rings
    <3> QED
      BY <1>1, <1>3, <1>8, <3>1, <3>2 DEF RingInv
  <2> QED
    BY <1>1, <1>4, <2>1 DEF RingInv, Posted
<1>12. Totals'
  <2>1. PostedRes' = PostedRes /\ PostedInts' = PostedInts /\ PostedRecv' = PostedRecv
    BY <1>4 DEF PostedRes, PostedInts, PostedRecv, Posted
  <2>2. iterations_received \in Nat /\ recv_index \in Nat /\ RecvsUnder \in Nat
        /\ PostedRecv \in {0, 1}
    BY <1>1, Numbers
  <2>3. SentFirst' /\ ConsumedOrSent'
    BY <1>1, <1>4, <1>7, <2>1 DEF Totals, SentFirst, ConsumedOrSent
  <2>4. ASSUME ~stupid
        PROVE  recv_index' = iterations_received' + RecvsUnder' + PostedRecv'
    <3>1. recv_index = iterations_received + RecvsUnder + PostedRecv
      BY <1>1, <2>4 DEF Totals, CountedExactly
    <3> QED
      BY <1>4, <1>7, <2>1, <2>2, <3>1
  <2>5. CountedExactly'
    BY <1>1, <1>4, <2>1, <2>4 DEF Totals, CountedExactly
  <2> QED
    BY <2>3, <2>5 DEF Totals
<1> QED
  BY <1>9, <1>10, <1>11, <1>12 DEF CountsInv

(* A step that only moves the thread on, or closes the connection.         *)
LEMMA NothingCounted ==
  ASSUME CountsInv, phase' \in {"send", "recv", "reap"} \cup Ends, closed' \in BOOLEAN,
         UNCHANGED <<modeVars, indexVars, poolVars, ringVars, acknowledged, consumed, short,
                     overtaken>>
  PROVE  TypeOK' /\ Totals'
<1>1. TypeOK /\ Totals
  BY DEF CountsInv
<1>2. /\ SendsUnder' = SendsUnder /\ RecvsUnder' = RecvsUnder /\ NotifsUnder' = NotifsUnder
      /\ PostedRes' = PostedRes /\ PostedInts' = PostedInts /\ PostedRecv' = PostedRecv
  BY DEF ringVars, SendsUnder, RecvsUnder, NotifsUnder, Under, PostedRes, PostedInts,
         PostedRecv, Posted
<1>3. Totals'
  BY <1>1, <1>2 DEF modeVars, indexVars, Totals, SentFirst, ConsumedOrSent, CountedExactly
<1>4. TypeOK'
  BY <1>1 DEF modeVars, indexVars, poolVars, ringVars, TypeOK
<1> QED
  BY <1>3, <1>4

LEMMA ThreadMovesCounts ==
  ASSUME CountsInv, OutOfBlocks \/ Fail \/ ServerCloses \/ Terminated \/ UNCHANGED vars
  PROVE  CountsInv'
<1>1. TypeOK /\ RingInv /\ Windows
  BY DEF CountsInv
<1>2. /\ UNCHANGED <<modeVars, indexVars, poolVars, ringVars, acknowledged, consumed, short,
                     overtaken>>
      /\ phase' \in {phase, "failed", "bad_alloc"}
      /\ closed' \in BOOLEAN
      /\ (phase' = "failed" /\ phase # phase' => phase = "reap")
      /\ (phase' = "bad_alloc" /\ phase # phase' => phase \in {"send", "recv"})
  BY <1>1 DEF OutOfBlocks, Fail, ServerCloses, Terminated, vars, netVars, TypeOK, Sending,
              Receiving
<1>3. TypeOK' /\ Totals'
  <2>1. phase' \in {"send", "recv", "reap"} \cup Ends
    BY <1>1, <1>2 DEF TypeOK, Ends
  <2> QED
    BY <1>2, <2>1, NothingCounted
<1>4. RingInv'
  BY <1>1, <1>2 DEF modeVars, ringVars, RingInv, Posted
<1>5. Windows'
  BY <1>1, <1>2 DEF modeVars, indexVars, ringVars, Windows
<1> QED
  BY <1>3, <1>4, <1>5 DEF CountsInv

LEMMA SubmitKeepsCounts ==
  ASSUME CountsInv, Submit
  PROVE  CountsInv'
<1> USE SimpleIouClientAssumption
<1>1. TypeOK /\ RingInv /\ Windows /\ Totals /\ Rings
  BY DEF CountsInv, TypeOK, Rings
<1>2. /\ phase \in {"send", "recv"} /\ phase' = "reap"
      /\ in_kernel' = in_kernel \o sq /\ sq' = <<>> /\ cqes' = cqes
      /\ UNCHANGED <<registered, stupid, send_index, recv_index, iterations_received,
                     total_received, small, large, event_type, acknowledged, consumed, closed,
                     short, overtaken>>
  BY DEF Submit, modeVars, indexVars, poolVars, netVars
<1>3. Rings'
  BY <1>1, <1>2, SubmitCounts
<1>4. /\ SendsUnder' = SendsUnder /\ RecvsUnder' = RecvsUnder /\ NotifsUnder' = NotifsUnder
      /\ PostedRes' = PostedRes /\ PostedInts' = PostedInts /\ PostedRecv' = PostedRecv
  <2>1. ASSUME NEW kind PROVE Under(OfKind(kind))' = Under(OfKind(kind))
    BY <1>1, <1>2, SubmitCounts
  <2>2. PostedRes' = PostedRes /\ PostedInts' = PostedInts /\ PostedRecv' = PostedRecv
    BY <1>2 DEF PostedRes, PostedInts, PostedRecv, Posted
  <2> QED
    BY <2>1, <2>2 DEF SendsUnder, RecvsUnder, NotifsUnder
<1>5. Len(sq') = 0
  BY <1>2
<1>6. TypeOK'
  BY <1>1, <1>2, <1>3, <1>5 DEF TypeOK, Rings
<1>7. Windows'
  BY <1>1, <1>2, <1>5 DEF Windows
<1>8. Totals'
  BY <1>1, <1>2, <1>4 DEF Totals, SentFirst, ConsumedOrSent, CountedExactly
<1>9. RingInv'
  <2>1. ASSUME ~registered, NEW n \in DOMAIN (in_kernel \o sq)
        PROVE  (in_kernel \o sq)[n].kind # "notif"
    <3>1. /\ Len(in_kernel) \in Nat /\ Len(sq) \in Nat /\ n \in 1 .. Len(in_kernel) + Len(sq)
          /\ DOMAIN in_kernel = 1 .. Len(in_kernel) /\ DOMAIN sq = 1 .. Len(sq)
          /\ (in_kernel \o sq)[n] = IF n <= Len(in_kernel) THEN in_kernel[n] ELSE sq[n - Len(in_kernel)]
      BY <1>1, LenProperties, ConcatProperties DEF Rings
    <3> QED
      BY <1>1, <2>1, <3>1 DEF RingInv
  <2> QED
    BY <1>1, <1>2, <2>1 DEF RingInv, Posted
<1> QED
  BY <1>6, <1>7, <1>8, <1>9 DEF CountsInv

(* The loop ends when all pages are there, or with the last receives       *)
(* prepared, which are half a ring at most (110-111 is commented out).     *)
LEMMA EndPassKeepsCounts ==
  ASSUME CountsInv, EndPass
  PROVE  CountsInv'
<1> USE SimpleIouClientAssumption
<1>1. TypeOK /\ RingInv /\ Windows /\ Totals
  BY DEF CountsInv
<1>2. /\ UNCHANGED <<modeVars, indexVars, poolVars, ringVars, netVars>>
      /\ phase = "reap" /\ cqes = <<>>
      /\ phase' \in {"send", "done"}
      /\ (phase' = "done" => AllReceived \/ AllSubmitted)
  BY DEF EndPass
<1>3. TypeOK' /\ Totals'
  <2>1. phase' \in {"send", "recv", "reap"} \cup Ends /\ closed' \in BOOLEAN
    BY <1>1, <1>2 DEF TypeOK, netVars, Ends
  <2> QED
    BY <1>2, <2>1, NothingCounted DEF netVars
<1>4. RingInv'
  BY <1>1, <1>2 DEF modeVars, ringVars, RingInv, Posted
<1>5. Len(sq) = 0
  BY <1>1, <1>2 DEF RingInv
<1>6. /\ send_index \in Nat /\ recv_index \in Nat /\ recv_index <= send_index
      /\ send_index <= NumRequests /\ iterations_received \in Nat
  BY <1>1, Numbers
<1>7. ASSUME phase' = "done"
      PROVE  /\ send_index = NumRequests
             /\ (~stupid => NumRequests - iterations_received <= RingSize \div 2)
  <2>1. send_index = NumRequests
    BY <1>2, <1>6, <1>7 DEF AllReceived, AllSubmitted
  <2>2. CASE AllSubmitted
    BY <1>1, <1>6, <2>1, <2>2 DEF AllSubmitted, Windows
  <2>3. ASSUME AllReceived, ~stupid
        PROVE  NumRequests - iterations_received <= RingSize \div 2
    <3>1. NumRequests * PageSize <= PageSize * iterations_received
      <4>1. total_received \in Nat
        BY <1>1, Numbers
      <4>2. NumRequests * PageSize \in Nat /\ PageSize * iterations_received \in Nat
        BY <1>6
      <4> QED
        BY <1>1, <2>3, <4>1, <4>2 DEF AllReceived, Totals, CountedExactly
    <3>2. NumRequests <= iterations_received
      <4>1. CASE NumRequests - iterations_received >= 1
        <5>1. PageSize * (NumRequests - iterations_received) >= PageSize * 1
          BY <1>6, <4>1
        <5>2. PageSize * (NumRequests - iterations_received)
                = NumRequests * PageSize - PageSize * iterations_received
          BY <1>6
        <5> QED
          BY <1>6, <3>1, <5>1, <5>2
      <4> QED
        BY <1>6, <4>1
    <3> QED
      BY <1>6, <3>2
  <2> QED
    BY <1>2, <1>7, <2>1, <2>2, <2>3
<1>8. Windows'
  BY <1>1, <1>2, <1>5, <1>6, <1>7 DEF modeVars, indexVars, ringVars, Windows
<1> QED
  BY <1>3, <1>4, <1>8 DEF CountsInv

(* No product of naturals shrinks when a factor grows. *)
LEMMA PagesGrow ==
  ASSUME NEW k \in Nat, NEW m \in Nat, k <= m
  PROVE  /\ k * PageSize \in Nat /\ m * PageSize \in Nat
         /\ k * PageSize <= m * PageSize
<1>1. PageSize \in Nat
  BY SimpleIouClientAssumption
<1>2. (m - k) * PageSize >= 0 /\ (m - k) * PageSize = m * PageSize - k * PageSize
  BY <1>1
<1> QED
  BY <1>1, <1>2

(* The completion taken frees a block of its pool, and counts when the     *)
(* block says it is a receive.                                             *)
LEMMA ReapKeepsCounts ==
  ASSUME CountsInv, Reap
  PROVE  CountsInv'
<1> USE SimpleIouClientAssumption
<1> DEFINE cqe == Head(cqes)
<1>1. TypeOK /\ RingInv /\ Windows /\ Totals
  BY DEF CountsInv
<1>2. /\ phase = "reap" /\ Posted /\ cqe.res >= 0 /\ cqes' = Tail(cqes)
      /\ UNCHANGED <<registered, stupid, phase, send_index, recv_index, event_type, sq, in_kernel,
                     acknowledged, consumed, closed, short, overtaken>>
      /\ GiveBack(cqe)
      /\ IF EventType(cqe) = "RECV_EVENT"
         THEN /\ total_received' = total_received + cqe.res
              /\ iterations_received' = iterations_received + 1
         ELSE UNCHANGED <<total_received, iterations_received>>
  BY DEF Reap, Posted, modeVars, netVars
<1>3. cqe \in Cqes /\ cqes' = <<>>
  BY <1>1, <1>2, Numbers
<1>4. cqe.res \in 0 .. PageSize /\ cqe.block \in Blocks
  BY <1>2, <1>3 DEF Cqes
<1>5. PostedRes = cqe.res /\ PostedInts = (IF cqe.kind = "recv" THEN cqe.res ELSE 0)
      /\ PostedRecv = IF cqe.kind = "recv" THEN 1 ELSE 0
  BY <1>2 DEF PostedRes, PostedInts, PostedRecv
<1> HIDE DEF cqe
<1>6. PostedRes' = 0 /\ PostedInts' = 0 /\ PostedRecv' = 0
  BY <1>3 DEF PostedRes, PostedInts, PostedRecv, Posted
<1>7. SendsUnder' = SendsUnder /\ RecvsUnder' = RecvsUnder /\ NotifsUnder' = NotifsUnder
  BY <1>2 DEF SendsUnder, RecvsUnder, NotifsUnder, Under
<1>8. /\ total_received \in Nat /\ iterations_received \in Nat /\ consumed \in Nat
      /\ SendsUnder \in Nat /\ RecvsUnder \in Nat /\ send_index \in Nat
      /\ recv_index \in Nat /\ acknowledged \in Nat
      /\ acknowledged <= send_index /\ send_index <= NumRequests
      /\ PostedRes \in Nat /\ PostedInts \in Nat /\ PostedRecv \in {0, 1}
  BY <1>1, Numbers
<1>9. /\ total_received' \in Nat /\ total_received' <= total_received + PostedRes
      /\ iterations_received' \in Nat /\ iterations_received <= iterations_received'
  <2>1. PostedRes = cqe.res
    BY <1>5
  <2>2. CASE EventType(cqe) = "RECV_EVENT"
    <3>1. /\ total_received' = total_received + PostedRes
          /\ iterations_received' = iterations_received + 1
      BY <1>2, <2>1, <2>2
    <3> QED
      BY <1>8, <3>1
  <2>3. CASE EventType(cqe) # "RECV_EVENT"
    <3>1. /\ total_received' = total_received /\ iterations_received' = iterations_received
      BY <1>2, <2>3
    <3> QED
      BY <1>8, <3>1
  <2> QED
    BY <2>2, <2>3
<1> PICK ints \in Nat, iterations \in Nat :
      total_received' = ints /\ iterations_received' = iterations
  BY <1>9
<1>10. ConsumedOrSent'
  <2>1. total_received + PostedRes <= consumed + (send_index - SendsUnder)
    BY <1>1 DEF Totals, ConsumedOrSent
  <2>2. ints + 0 <= consumed + (send_index - SendsUnder)
    BY <1>8, <1>9, <2>1
  <2> QED
    BY <1>2, <1>6, <1>7, <2>2 DEF ConsumedOrSent
<1>11. SentFirst'
  BY <1>1, <1>2, <1>7 DEF Totals, SentFirst
<1>12. CountedExactly'
  <2>1. ASSUME ~stupid
        PROVE  /\ total_received' + PostedInts' = consumed
               /\ recv_index = iterations_received' + RecvsUnder + PostedRecv'
               /\ total_received' <= PageSize * iterations_received'
               /\ ~short => consumed = PageSize * (iterations_received' + PostedRecv')
    <3>1. /\ total_received + PostedInts = consumed
          /\ recv_index = iterations_received + RecvsUnder + PostedRecv
          /\ total_received <= PageSize * iterations_received
          /\ (~short => consumed = PageSize * (iterations_received + PostedRecv))
      BY <1>1, <2>1 DEF Totals, CountedExactly
    <3>2. /\ total_received' = total_received + PostedInts
          /\ iterations_received' = iterations_received + PostedRecv
          /\ PostedInts <= PageSize * PostedRecv
      <4>1. CASE cqe.kind = "recv"
        <5>1. EventType(cqe) = "RECV_EVENT" /\ PostedInts = cqe.res /\ PostedRecv = 1
          BY <1>5, <2>1, <4>1 DEF EventType
        <5>2. PostedInts <= PageSize
          BY <1>4, <5>1
        <5> QED
          BY <1>2, <5>1, <5>2
      <4>2. CASE cqe.kind # "recv"
        <5>1. EventType(cqe) # "RECV_EVENT" /\ PostedInts = 0 /\ PostedRecv = 0
          BY <1>5, <2>1, <4>2 DEF EventType
        <5> QED
          BY <1>2, <1>8, <5>1
      <4> QED
        BY <4>1, <4>2
    <3>3. PageSize * (iterations_received + PostedRecv)
            = PageSize * iterations_received + PageSize * PostedRecv
      BY <1>8
    <3>4. PageSize * iterations_received \in Nat /\ PageSize * PostedRecv \in Nat
      BY <1>8
    <3>5. iterations_received' + PostedRecv' = iterations_received + PostedRecv
      BY <1>6, <1>8, <3>2
    <3>6. total_received' <= PageSize * iterations_received'
      BY <1>8, <3>1, <3>2, <3>3, <3>4
    <3>7. total_received' + PostedInts' = consumed
      BY <1>6, <1>8, <3>1, <3>2
    <3>8. recv_index = iterations_received' + RecvsUnder + PostedRecv'
      BY <1>6, <1>8, <3>1, <3>2
    <3> QED
      BY <3>1, <3>5, <3>6, <3>7, <3>8
  <2> QED
    BY <1>2, <1>7, <2>1 DEF CountedExactly
<1>13. total_received' \in 0 .. NumRequests * PageSize + NumRequests
  <2>1. /\ acknowledged * PageSize \in Nat /\ NumRequests * PageSize \in Nat
        /\ acknowledged * PageSize <= NumRequests * PageSize
    <3>1. acknowledged <= NumRequests
      BY <1>8
    <3> QED
      BY <1>8, <3>1, PagesGrow
  <2>2. total_received + PostedRes <= consumed + (send_index - SendsUnder)
    BY <1>1 DEF Totals, ConsumedOrSent
  <2>3. consumed <= acknowledged * PageSize
    BY <1>1, Numbers
  <2> DEFINE all == NumRequests * PageSize
             acked == acknowledged * PageSize
  <2>4. all \in Nat /\ acked \in Nat /\ acked <= all /\ consumed <= acked
    BY <2>1, <2>3
  <2> HIDE DEF all, acked
  <2>5. total_received' <= all + NumRequests
    BY <1>8, <1>9, <2>2, <2>4
  <2> QED
    BY <1>9, <2>4, <2>5 DEF all
<1>14. small' \in Pools /\ large' \in Pools
  BY <1>1, <1>2, <1>4, CheckInType DEF GiveBack, TypeOK
<1>15. TypeOK'
  <2>1. cqes' \in Seq(Cqes)
    BY <1>3
  <2> QED
    BY ONLY <1>1, <1>2, <1>9, <1>13, <1>14, <2>1 DEF TypeOK
<1>16. Windows'
  <2>1. recv_index - iterations_received <= RingSize \div 2
    BY <1>1 DEF Windows
  <2>2. recv_index - iterations <= RingSize \div 2
    BY <1>8, <1>9, <2>1
  <2> QED
    BY <1>1, <1>2, <2>2 DEF Windows
<1>17. RingInv'
  BY <1>1, <1>2, <1>3 DEF RingInv, Posted
<1> QED
  BY <1>10, <1>11, <1>12, <1>15, <1>16, <1>17 DEF CountsInv, Totals

(* One completion is posted.                                               *)
LEMMA PostOne ==
  ASSUME cqes = <<>>, NEW op \in Ops, NEW res \in -1 .. PageSize, Post(op, res)
  PROVE  /\ cqes' \in Seq(Cqes) /\ Len(cqes') = 1 /\ Posted'
         /\ Head(cqes').kind = op.kind /\ Head(cqes').block = op.block /\ Head(cqes').res = res
         /\ PostedRes' = (IF res >= 0 THEN res ELSE 0)
         /\ PostedInts' = (IF op.kind = "recv" /\ res >= 0 THEN res ELSE 0)
         /\ PostedRecv' = (IF op.kind = "recv" THEN 1 ELSE 0)
<1> DEFINE cqe == [kind |-> op.kind, block |-> op.block, res |-> res]
<1>1. cqe \in Cqes /\ cqe.kind = op.kind /\ cqe.block = op.block /\ cqe.res = res
  BY DEF Cqes, Ops
<1>2. cqes' = Append(<<>>, cqe)
  BY DEF Post
<1> HIDE DEF cqe
<1>3. /\ cqes' \in Seq(Cqes) /\ Len(cqes') = 1 /\ cqes' # <<>> /\ Head(cqes') = cqe
  BY <1>1, <1>2
<1> QED
  BY <1>1, <1>3 DEF Posted, PostedRes, PostedInts, PostedRecv

(* What the kernel leaves alone, and what one step of it does to its part. *)
KernelStep(n) ==
  /\ phase = "reap" /\ cqes = <<>> /\ n \in DOMAIN in_kernel /\ Completes(n)
  /\ UNCHANGED <<modeVars, phase, indexVars, poolVars, sq, closed>>

(* Of the invariant, what no completion disturbs.                          *)
LEMMA KernelLeaves ==
  ASSUME CountsInv, NEW n, KernelStep(n)
  PROVE  /\ TypeOK /\ RingInv /\ Windows /\ Totals /\ Rings /\ Windows'
         /\ n \in DOMAIN in_kernel /\ in_kernel[n] \in Ops /\ cqes = <<>> /\ phase = "reap" /\ sq = <<>>
         /\ PostedRes = 0 /\ PostedInts = 0 /\ PostedRecv = 0
         /\ UNCHANGED <<registered, stupid, phase, send_index, recv_index, iterations_received,
                        total_received, small, large, event_type, sq, closed>>
         /\ SendsUnder \in Nat /\ RecvsUnder \in Nat /\ NotifsUnder \in Nat
<1>1. TypeOK /\ RingInv /\ Windows /\ Totals /\ Rings
  BY DEF CountsInv, TypeOK, Rings
<1>2. /\ n \in DOMAIN in_kernel /\ cqes = <<>> /\ phase = "reap"
      /\ UNCHANGED <<registered, stupid, phase, send_index, recv_index, iterations_received,
                     total_received, small, large, event_type, sq, closed>>
  BY DEF KernelStep, modeVars, indexVars, poolVars
<1>3. in_kernel[n] \in Ops
  BY <1>1, <1>2, LenProperties, ElementOfSeq DEF Rings
<1>4. sq = <<>> /\ PostedRes = 0 /\ PostedInts = 0 /\ PostedRecv = 0
  BY <1>1, <1>2 DEF RingInv, PostedRes, PostedInts, PostedRecv, Posted
<1>5. Windows'
  BY <1>1, <1>2 DEF Windows
<1> QED
  BY <1>1, <1>2, <1>3, <1>4, <1>5, Numbers

(* No notification comes of a step that leaves none behind.                *)
LEMMA NoNotification ==
  ASSUME Rings, NEW n \in DOMAIN in_kernel, in_kernel' = RemoveAt(in_kernel, n),
         \A k \in DOMAIN in_kernel : in_kernel[k].kind # "notif"
  PROVE  \A k \in DOMAIN in_kernel' : in_kernel'[k].kind # "notif"
<1> DEFINE rest == RemoveAt(in_kernel, n)
<1>1. /\ Len(in_kernel) \in Nat \ {0} /\ n \in 1 .. Len(in_kernel)
      /\ DOMAIN rest = 1 .. Len(in_kernel) - 1
      /\ \A at \in 1 .. Len(in_kernel) - 1 : rest[at] = in_kernel[IF at < n THEN at ELSE at + 1]
  BY RemovedAt DEF Rings
<1>2. DOMAIN in_kernel = 1 .. Len(in_kernel)
  BY LenProperties DEF Rings
<1> HIDE DEF rest
<1>3. ASSUME NEW k \in DOMAIN rest PROVE rest[k].kind # "notif"
  <2> DEFINE old == IF k < n THEN k ELSE k + 1
  <2>1. k \in 1 .. Len(in_kernel) - 1
    BY <1>1, <1>3
  <2>2. old \in DOMAIN in_kernel
    BY <1>1, <1>2, <2>1
  <2>3. rest[k] = in_kernel[old]
    BY <1>1, <2>1
  <2> HIDE DEF old
  <2> QED
    BY <2>2, <2>3
<1> QED
  BY <1>3 DEF rest

(* A request goes out; send_zc leaves a notification behind.               *)
LEMMA SendCompletesCounts ==
  ASSUME CountsInv, NEW n, KernelStep(n), SendCompletes(n)
  PROVE  CountsInv'
<1> USE SimpleIouClientAssumption
<1> DEFINE op == in_kernel[n]
           notif == [kind |-> "notif", block |-> op.block]
           added == IF registered THEN <<notif>> ELSE <<>>
           numbers == IF registered THEN 1 ELSE 0
<1>1. /\ TypeOK /\ RingInv /\ Windows /\ Totals /\ Rings /\ Windows'
      /\ n \in DOMAIN in_kernel /\ op \in Ops /\ cqes = <<>> /\ phase = "reap" /\ sq = <<>>
      /\ PostedRes = 0 /\ PostedInts = 0 /\ PostedRecv = 0
      /\ UNCHANGED <<registered, stupid, phase, send_index, recv_index, iterations_received,
                     total_received, small, large, event_type, sq, closed>>
      /\ SendsUnder \in Nat /\ RecvsUnder \in Nat /\ NotifsUnder \in Nat
  BY KernelLeaves
<1>2. /\ op.kind = "send" /\ Post(op, 1)
      /\ in_kernel' = RemoveAt(in_kernel, n) \o added
      /\ acknowledged' = acknowledged + 1 - numbers
      /\ overtaken' \in BOOLEAN /\ consumed' = consumed /\ short' = short
  <2>1. acknowledged \in Nat
    BY <1>1, Numbers
  <2> QED
    BY <1>1, <2>1 DEF SendCompletes, TypeOK
<1>3. notif \in Ops /\ notif.kind = "notif"
  BY <1>1 DEF Ops
<1>4. 1 \in -1 .. PageSize
  OBVIOUS
<1> HIDE DEF op, notif
<1>5. /\ added \in Seq(Ops)
      /\ Count(added, OfKind("notif")) = numbers
      /\ Count(added, OfKind("send")) = 0 /\ Count(added, OfKind("recv")) = 0
  <2>1. /\ One(notif, OfKind("notif")) = 1 /\ One(notif, OfKind("send")) = 0
        /\ One(notif, OfKind("recv")) = 0
    BY <1>3, OneOfKind
  <2>2. <<notif>> \in Seq(Ops) /\ <<>> \in Seq(Ops)
    BY <1>3
  <2> QED
    BY <2>1, <2>2, CountSingleton, CountEmpty
<1> HIDE DEF added
<1>6. /\ One(op, OfKind("send")) = 1 /\ One(op, OfKind("recv")) = 0
      /\ One(op, OfKind("notif")) = 0
  BY <1>1, <1>2, OneOfKind
<1>7. Rings'
  BY <1>1, <1>2, <1>5, CompleteCounts DEF op
<1>8. ASSUME NEW kind
      PROVE  /\ Under(OfKind(kind))' + One(op, OfKind(kind))
                   = Under(OfKind(kind)) + Count(added, OfKind(kind))
             /\ One(op, OfKind(kind)) <= Under(OfKind(kind))
             /\ Under(OfKind(kind)) \in Nat /\ Under(OfKind(kind))' \in Nat
  <2>1. Under(OfKind(kind))' \in Nat
    <3>1. Count(in_kernel', OfKind(kind)) \in Nat /\ Count(sq', OfKind(kind)) \in Nat
      BY <1>7, CountType DEF Rings
    <3> QED
      BY <3>1 DEF Under
  <2> QED
    BY <1>1, <1>2, <1>5, <2>1, CompleteCounts, UnderType DEF op
<1>9. /\ SendsUnder' = SendsUnder - 1 /\ SendsUnder >= 1
      /\ RecvsUnder' = RecvsUnder /\ NotifsUnder' = NotifsUnder + numbers
  <2>1. ASSUME NEW kind
        PROVE  Under(OfKind(kind))' =
                 Under(OfKind(kind)) + Count(added, OfKind(kind)) - One(op, OfKind(kind))
    <3>1. PICK u \in Nat : Under(OfKind(kind))' = u
      BY <1>8
    <3>2. Count(added, OfKind(kind)) \in Nat /\ One(op, OfKind(kind)) \in Nat
      BY <1>5, CountType DEF One
    <3>3. u + One(op, OfKind(kind)) = Under(OfKind(kind)) + Count(added, OfKind(kind))
      BY <1>8, <3>1
    <3>4. u = Under(OfKind(kind)) + Count(added, OfKind(kind)) - One(op, OfKind(kind))
      BY <1>8, <3>2, <3>3
    <3> QED
      BY <3>1, <3>4
  <2>2. One(op, OfKind("send")) <= Under(OfKind("send"))
    BY <1>8
  <2> QED
    BY <1>1, <1>5, <1>6, <2>1, <2>2 DEF SendsUnder, RecvsUnder, NotifsUnder
<1>10. /\ cqes' \in Seq(Cqes) /\ Len(cqes') = 1 /\ Posted'
       /\ Head(cqes').kind = "send" /\ Head(cqes').res = 1
       /\ PostedRes' = 1 /\ PostedInts' = 0 /\ PostedRecv' = 0
  BY <1>1, <1>2, <1>4, PostOne
<1> PICK sends \in Nat : SendsUnder' = sends
  BY <1>8 DEF SendsUnder
<1>11. /\ send_index \in Nat /\ send_index <= NumRequests /\ acknowledged \in Nat
       /\ consumed \in Nat /\ total_received \in Nat
       /\ consumed <= acknowledged * PageSize
  BY <1>1, Numbers
<1>12. SentFirst' /\ acknowledged' \in 0 .. send_index
  <2>1. acknowledged + SendsUnder + NotifsUnder <= send_index
    BY <1>1 DEF Totals, SentFirst
  <2>2. (acknowledged + 1 - numbers) + (SendsUnder - 1) + (NotifsUnder + numbers) <= send_index
    BY <1>1, <1>11, <2>1
  <2>3. acknowledged + 1 - numbers \in 0 .. send_index
    BY <1>1, <1>9, <1>11, <2>1
  <2> QED
    BY <1>1, <1>2, <1>9, <2>2, <2>3 DEF SentFirst
<1>13. ConsumedOrSent'
  <2>1. total_received + 0 <= consumed + (send_index - SendsUnder)
    BY <1>1 DEF Totals, ConsumedOrSent
  <2>2. total_received + 1 <= consumed + (send_index - (SendsUnder - 1))
    BY <1>1, <1>11, <2>1
  <2> QED
    BY <1>1, <1>2, <1>9, <1>10, <2>2 DEF ConsumedOrSent
<1>14. CountedExactly'
  <2>1. PostedInts' = PostedInts /\ PostedRecv' = PostedRecv /\ RecvsUnder' = RecvsUnder
    BY <1>1, <1>9, <1>10
  <2> QED
    BY <1>1, <1>2, <2>1 DEF Totals, CountedExactly
<1>15. consumed' \in 0 .. acknowledged' * PageSize
  <2>1. /\ acknowledged + 1 - numbers \in Nat
        /\ acknowledged <= acknowledged + 1 - numbers
    BY <1>11
  <2>2. /\ acknowledged * PageSize \in Nat /\ (acknowledged + 1 - numbers) * PageSize \in Nat
        /\ acknowledged * PageSize <= (acknowledged + 1 - numbers) * PageSize
    BY <1>11, <2>1, PagesGrow
  <2>3. consumed \in 0 .. (acknowledged + 1 - numbers) * PageSize
    BY <1>11, <2>2
  <2> QED
    BY <1>2, <2>3
<1>16. TypeOK'
  <2>1. in_kernel' \in Seq(Ops) /\ sq' \in Seq(Ops)
    BY <1>7 DEF Rings
  <2>2. overtaken' \in BOOLEAN /\ short' \in BOOLEAN
    BY <1>1, <1>2 DEF TypeOK
  <2> QED
    BY ONLY <1>1, <1>10, <1>12, <1>15, <2>1, <2>2 DEF TypeOK
<1>17. RingInv'
  <2>1. ASSUME ~registered
        PROVE  \A k \in DOMAIN in_kernel' : in_kernel'[k].kind # "notif"
    <3>1. RemoveAt(in_kernel, n) \in Seq(Ops)
      BY <1>1, RemovedAt DEF Rings
    <3> DEFINE rest == RemoveAt(in_kernel, n)
    <3> HIDE DEF rest
    <3>2. rest \o <<>> = rest
      BY <3>1, ConcatEmptySeq DEF rest
    <3>3. in_kernel' = RemoveAt(in_kernel, n)
      BY <1>2, <2>1, <3>2 DEF added, rest
    <3> QED
      BY <1>1, <2>1, <3>3, NoNotification DEF RingInv
  <2> QED
    BY <1>1, <1>10, <2>1 DEF RingInv
<1> QED
  BY <1>1, <1>12, <1>13, <1>14, <1>16, <1>17 DEF CountsInv, Totals

(* An operation that leaves nothing behind takes its kind with it.         *)
LEMMA CompletesAlone ==
  ASSUME CountsInv, NEW n, KernelStep(n), in_kernel' = RemoveAt(in_kernel, n)
  PROVE  /\ Rings'
         /\ SendsUnder' = SendsUnder - One(in_kernel[n], OfKind("send"))
         /\ RecvsUnder' = RecvsUnder - One(in_kernel[n], OfKind("recv"))
         /\ NotifsUnder' = NotifsUnder - One(in_kernel[n], OfKind("notif"))
         /\ One(in_kernel[n], OfKind("send")) = (IF in_kernel[n].kind = "send" THEN 1 ELSE 0)
         /\ One(in_kernel[n], OfKind("recv")) = (IF in_kernel[n].kind = "recv" THEN 1 ELSE 0)
         /\ One(in_kernel[n], OfKind("notif")) = (IF in_kernel[n].kind = "notif" THEN 1 ELSE 0)
         /\ One(in_kernel[n], OfKind("send")) <= SendsUnder
         /\ One(in_kernel[n], OfKind("recv")) <= RecvsUnder
         /\ One(in_kernel[n], OfKind("notif")) <= NotifsUnder
         /\ (~registered => \A k \in DOMAIN in_kernel' : in_kernel'[k].kind # "notif")
<1>1. /\ RingInv /\ Rings /\ n \in DOMAIN in_kernel /\ in_kernel[n] \in Ops /\ sq' = sq
  BY KernelLeaves
<1>2. Rings'
  BY <1>1, CompleteCountsAlone
<1>3. ASSUME NEW kind
      PROVE  /\ Under(OfKind(kind))' = Under(OfKind(kind)) - One(in_kernel[n], OfKind(kind))
             /\ One(in_kernel[n], OfKind(kind)) <= Under(OfKind(kind))
  <2>1. Under(OfKind(kind))' \in Nat
    <3>1. Count(in_kernel', OfKind(kind)) \in Nat /\ Count(sq', OfKind(kind)) \in Nat
      BY <1>2, CountType DEF Rings
    <3> QED
      BY <3>1 DEF Under
  <2>2. PICK u \in Nat : Under(OfKind(kind))' = u
    BY <2>1
  <2>3. /\ u + One(in_kernel[n], OfKind(kind)) = Under(OfKind(kind))
        /\ One(in_kernel[n], OfKind(kind)) <= Under(OfKind(kind))
    BY <1>1, <2>2, CompleteCountsAlone
  <2>4. One(in_kernel[n], OfKind(kind)) \in Nat
    BY DEF One
  <2>5. u = Under(OfKind(kind)) - One(in_kernel[n], OfKind(kind))
    BY <2>3, <2>4
  <2> QED
    BY <2>2, <2>3, <2>5
<1>4. ~registered => \A k \in DOMAIN in_kernel' : in_kernel'[k].kind # "notif"
  BY <1>1, NoNotification DEF RingInv
<1> QED
  BY <1>1, <1>2, <1>3, <1>4, OneOfKind DEF SendsUnder, RecvsUnder, NotifsUnder

(* The server has acknowledged the bytes of a send_zc. *)
LEMMA NotificationCounts ==
  ASSUME CountsInv, NEW n, KernelStep(n), Notification(n)
  PROVE  CountsInv'
<1> USE SimpleIouClientAssumption
<1> DEFINE op == in_kernel[n]
<1>1. /\ TypeOK /\ RingInv /\ Windows /\ Totals /\ Rings /\ Windows'
      /\ n \in DOMAIN in_kernel /\ op \in Ops /\ cqes = <<>> /\ phase = "reap" /\ sq = <<>>
      /\ PostedRes = 0 /\ PostedInts = 0 /\ PostedRecv = 0
      /\ UNCHANGED <<registered, stupid, phase, send_index, recv_index, iterations_received,
                     total_received, small, large, event_type, sq, closed>>
      /\ SendsUnder \in Nat /\ RecvsUnder \in Nat /\ NotifsUnder \in Nat
  BY KernelLeaves
<1>2. /\ op.kind = "notif" /\ Post(op, 0) /\ in_kernel' = RemoveAt(in_kernel, n)
      /\ acknowledged' = acknowledged + 1
      /\ consumed' = consumed /\ short' = short /\ overtaken' = overtaken
  BY DEF Notification
<1>3. 0 \in -1 .. PageSize
  OBVIOUS
<1>4. /\ Rings' /\ SendsUnder' = SendsUnder /\ RecvsUnder' = RecvsUnder
      /\ NotifsUnder' = NotifsUnder - 1
      /\ (~registered => \A k \in DOMAIN in_kernel' : in_kernel'[k].kind # "notif")
  BY <1>1, <1>2, CompletesAlone
<1> HIDE DEF op
<1>5. /\ cqes' \in Seq(Cqes) /\ Len(cqes') = 1 /\ Posted'
      /\ Head(cqes').kind = "notif" /\ Head(cqes').res = 0
      /\ PostedRes' = 0 /\ PostedInts' = 0 /\ PostedRecv' = 0
  BY <1>1, <1>2, <1>3, PostOne
<1>6. /\ send_index \in Nat /\ acknowledged \in Nat /\ consumed \in Nat
      /\ consumed <= acknowledged * PageSize
  BY <1>1, Numbers
<1>7. SentFirst' /\ acknowledged' \in 0 .. send_index
  <2>1. acknowledged + SendsUnder + NotifsUnder <= send_index /\ NotifsUnder >= 1
    <3>1. One(op, OfKind("notif")) <= NotifsUnder /\ One(op, OfKind("notif")) = 1
      BY <1>1, <1>2, CompletesAlone DEF op
    <3> QED
      BY <1>1, <3>1 DEF Totals, SentFirst
  <2>2. (acknowledged + 1) + SendsUnder + (NotifsUnder - 1) <= send_index
    BY <1>1, <1>6, <2>1
  <2>3. acknowledged + 1 \in 0 .. send_index
    BY <1>1, <1>6, <2>1
  <2> QED
    BY <1>1, <1>2, <1>4, <2>2, <2>3 DEF SentFirst
<1>8. ConsumedOrSent' /\ CountedExactly'
  <2>1. /\ PostedRes' = PostedRes /\ PostedInts' = PostedInts /\ PostedRecv' = PostedRecv
    BY <1>1, <1>5
  <2> QED
    BY <1>1, <1>2, <1>4, <2>1 DEF Totals, ConsumedOrSent, CountedExactly
<1>9. consumed' \in 0 .. acknowledged' * PageSize
  <2>1. /\ acknowledged * PageSize \in Nat /\ (acknowledged + 1) * PageSize \in Nat
        /\ acknowledged * PageSize <= (acknowledged + 1) * PageSize
    <3>1. acknowledged + 1 \in Nat /\ acknowledged <= acknowledged + 1
      BY <1>6
    <3> QED
      BY <1>6, <3>1, PagesGrow
  <2>2. consumed \in 0 .. (acknowledged + 1) * PageSize
    BY <1>6, <2>1
  <2> QED
    BY <1>2, <2>2
<1>10. TypeOK'
  <2>1. in_kernel' \in Seq(Ops) /\ sq' \in Seq(Ops)
    BY <1>4 DEF Rings
  <2> QED
    BY ONLY <1>1, <1>2, <1>5, <1>7, <1>9, <2>1 DEF TypeOK
<1>11. RingInv'
  BY <1>1, <1>4, <1>5 DEF RingInv
<1> QED
  BY <1>1, <1>7, <1>8, <1>10, <1>11 DEF CountsInv, Totals

(* A receive takes a piece of the stream, of a page at most.               *)
LEMMA RecvCompletesCounts ==
  ASSUME CountsInv, NEW n, KernelStep(n), RecvCompletes(n)
  PROVE  CountsInv'
<1> USE SimpleIouClientAssumption
<1> DEFINE op == in_kernel[n]
<1>1. /\ TypeOK /\ RingInv /\ Windows /\ Totals /\ Rings /\ Windows'
      /\ n \in DOMAIN in_kernel /\ op \in Ops /\ cqes = <<>> /\ phase = "reap" /\ sq = <<>>
      /\ PostedRes = 0 /\ PostedInts = 0 /\ PostedRecv = 0
      /\ UNCHANGED <<registered, stupid, phase, send_index, recv_index, iterations_received,
                     total_received, small, large, event_type, sq, closed>>
      /\ SendsUnder \in Nat /\ RecvsUnder \in Nat /\ NotifsUnder \in Nat
  BY KernelLeaves
<1>2. PICK ints \in 1 .. PageSize :
        /\ consumed + ints <= acknowledged * PageSize
        /\ Post(op, ints) /\ consumed' = consumed + ints
        /\ short' = (short \/ ints < PageSize)
  BY DEF RecvCompletes
<1>3. /\ op.kind = "recv" /\ in_kernel' = RemoveAt(in_kernel, n)
      /\ acknowledged' = acknowledged /\ overtaken' = overtaken
  BY DEF RecvCompletes
<1>4. ints \in -1 .. PageSize /\ ints \in Nat /\ ints <= PageSize /\ PageSize \in Nat
  BY <1>2
<1>5. /\ Rings' /\ SendsUnder' = SendsUnder /\ NotifsUnder' = NotifsUnder
      /\ RecvsUnder' = RecvsUnder - 1
      /\ (~registered => \A k \in DOMAIN in_kernel' : in_kernel'[k].kind # "notif")
  BY <1>1, <1>3, CompletesAlone
<1> HIDE DEF op
<1>6. /\ cqes' \in Seq(Cqes) /\ Len(cqes') = 1 /\ Posted' /\ Head(cqes').kind = "recv"
      /\ PostedRes' = ints /\ PostedInts' = ints /\ PostedRecv' = 1
  BY <1>1, <1>2, <1>3, <1>4, PostOne
<1>7. /\ send_index \in Nat /\ consumed \in Nat /\ total_received \in Nat
      /\ iterations_received \in Nat /\ recv_index \in Nat
      /\ acknowledged * PageSize \in Nat
  BY <1>1, Numbers
<1>8. SentFirst'
  BY <1>1, <1>3, <1>5 DEF Totals, SentFirst
<1>9. ConsumedOrSent'
  <2>1. total_received + 0 <= consumed + (send_index - SendsUnder)
    BY <1>1 DEF Totals, ConsumedOrSent
  <2>2. total_received + ints <= (consumed + ints) + (send_index - SendsUnder)
    BY <1>1, <1>4, <1>7, <2>1
  <2> QED
    BY <1>1, <1>2, <1>5, <1>6, <2>2 DEF ConsumedOrSent
<1>10. CountedExactly'
  <2>1. ASSUME ~stupid
        PROVE  /\ total_received + ints = consumed + ints
               /\ recv_index = iterations_received + (RecvsUnder - 1) + 1
               /\ total_received <= PageSize * iterations_received
               /\ (~(short \/ ints < PageSize) =>
                     consumed + ints = PageSize * (iterations_received + 1))
    <3>1. /\ total_received + 0 = consumed
          /\ recv_index = iterations_received + RecvsUnder + 0
          /\ total_received <= PageSize * iterations_received
          /\ (~short => consumed = PageSize * (iterations_received + 0))
      BY <1>1, <2>1 DEF Totals, CountedExactly
    <3>2. total_received = consumed
      BY <1>7, <3>1
    <3>3. recv_index = iterations_received + (RecvsUnder - 1) + 1
      BY <1>1, <1>7, <3>1
    <3>4. ASSUME ~(short \/ ints < PageSize)
          PROVE  consumed + ints = PageSize * (iterations_received + 1)
      <4>1. ints = PageSize /\ consumed = PageSize * (iterations_received + 0)
        BY <1>4, <3>1, <3>4
      <4>2. PageSize * (iterations_received + 1)
              = PageSize * (iterations_received + 0) + PageSize
        BY <1>7
      <4> QED
        BY <4>1, <4>2
    <3> QED
      BY <3>1, <3>2, <3>3, <3>4
  <2> QED
    BY <1>1, <1>2, <1>5, <1>6, <2>1 DEF CountedExactly
<1>11. consumed' \in 0 .. acknowledged' * PageSize
  <2>1. consumed + ints \in 0 .. acknowledged * PageSize
    BY <1>2, <1>4, <1>7
  <2> QED
    BY <1>2, <1>3, <2>1
<1>12. TypeOK'
  <2>1. in_kernel' \in Seq(Ops) /\ sq' \in Seq(Ops)
    BY <1>5 DEF Rings
  <2>2. short' \in BOOLEAN
    BY <1>2
  <2> QED
    BY ONLY <1>1, <1>3, <1>6, <1>11, <2>1, <2>2 DEF TypeOK
<1>13. RingInv'
  BY <1>1, <1>5, <1>6 DEF RingInv
<1> QED
  BY <1>1, <1>8, <1>9, <1>10, <1>12, <1>13 DEF CountsInv, Totals

(* After the server has closed nothing more is taken from the stream.      *)
LEMMA CompletesClosedCounts ==
  ASSUME CountsInv, NEW n, KernelStep(n), CompletesClosed(n)
  PROVE  CountsInv'
<1> USE SimpleIouClientAssumption
<1> DEFINE op == in_kernel[n]
           ofSends == IF op.kind = "send" THEN 1 ELSE 0
           ofRecvs == IF op.kind = "recv" THEN 1 ELSE 0
<1>1. /\ TypeOK /\ RingInv /\ Windows /\ Totals /\ Rings /\ Windows'
      /\ n \in DOMAIN in_kernel /\ op \in Ops /\ cqes = <<>> /\ phase = "reap" /\ sq = <<>>
      /\ PostedRes = 0 /\ PostedInts = 0 /\ PostedRecv = 0
      /\ UNCHANGED <<registered, stupid, phase, send_index, recv_index, iterations_received,
                     total_received, small, large, event_type, sq, closed>>
      /\ SendsUnder \in Nat /\ RecvsUnder \in Nat /\ NotifsUnder \in Nat
  BY KernelLeaves
<1>2. PICK res \in {0, -1} : Post(op, res) /\ (op.kind = "send" => res = -1)
  BY DEF CompletesClosed
<1>3. /\ op.kind \in {"send", "recv"} /\ in_kernel' = RemoveAt(in_kernel, n)
      /\ acknowledged' = acknowledged /\ consumed' = consumed /\ overtaken' = overtaken
      /\ short' = TRUE
  BY DEF CompletesClosed
<1>4. res \in -1 .. PageSize
  OBVIOUS
<1>5. /\ Rings' /\ SendsUnder' = SendsUnder - ofSends /\ NotifsUnder' = NotifsUnder
      /\ RecvsUnder' = RecvsUnder - ofRecvs
      /\ (~registered => \A k \in DOMAIN in_kernel' : in_kernel'[k].kind # "notif")
  BY <1>1, <1>3, CompletesAlone
<1>6. /\ cqes' \in Seq(Cqes) /\ Len(cqes') = 1 /\ Posted' /\ Head(cqes').kind = op.kind
      /\ Head(cqes').res = res
      /\ PostedRes' = 0 /\ PostedInts' = 0 /\ PostedRecv' = ofRecvs
  BY <1>1, <1>2, <1>3, <1>4, PostOne
<1> HIDE DEF op
<1>7. /\ send_index \in Nat /\ consumed \in Nat /\ total_received \in Nat
      /\ iterations_received \in Nat /\ recv_index \in Nat /\ acknowledged \in Nat
  BY <1>1, Numbers
<1>8. SentFirst'
  <2>1. acknowledged + SendsUnder + NotifsUnder <= send_index
    BY <1>1 DEF Totals, SentFirst
  <2>2. acknowledged + (SendsUnder - ofSends) + NotifsUnder <= send_index
    BY <1>1, <1>7, <2>1
  <2> QED
    BY <1>1, <1>3, <1>5, <2>2 DEF SentFirst
<1>9. ConsumedOrSent'
  <2>1. total_received + 0 <= consumed + (send_index - SendsUnder)
    BY <1>1 DEF Totals, ConsumedOrSent
  <2>2. total_received + 0 <= consumed + (send_index - (SendsUnder - ofSends))
    BY <1>1, <1>7, <2>1
  <2> QED
    BY <1>1, <1>3, <1>5, <1>6, <2>2 DEF ConsumedOrSent
<1>10. CountedExactly'
  <2>1. ASSUME ~stupid
        PROVE  /\ total_received + 0 = consumed
               /\ recv_index = iterations_received + (RecvsUnder - ofRecvs) + ofRecvs
               /\ total_received <= PageSize * iterations_received
    <3>1. /\ total_received + 0 = consumed
          /\ recv_index = iterations_received + RecvsUnder + 0
          /\ total_received <= PageSize * iterations_received
      BY <1>1, <2>1 DEF Totals, CountedExactly
    <3> QED
      BY <1>1, <1>7, <3>1
  <2> QED
    BY <1>1, <1>3, <1>5, <1>6, <2>1 DEF CountedExactly
<1>11. TypeOK'
  <2>1. in_kernel' \in Seq(Ops) /\ sq' \in Seq(Ops)
    BY <1>5 DEF Rings
  <2> QED
    BY ONLY <1>1, <1>3, <1>6, <2>1 DEF TypeOK
<1>12. RingInv'
  BY <1>1, <1>2, <1>3, <1>5, <1>6 DEF RingInv
<1> QED
  BY <1>1, <1>8, <1>9, <1>10, <1>11, <1>12 DEF CountsInv, Totals

LEMMA NextKeepsCounts ==
  ASSUME CountsInv, [Next]_vars
  PROVE  CountsInv'
<1>1. CASE Thread
  BY <1>1, PrepareSendCounts, PrepareRecvCounts, ThreadMovesCounts, SubmitKeepsCounts,
     ReapKeepsCounts, EndPassKeepsCounts DEF Thread
<1>2. CASE Kernel
  <2>1. PICK n : KernelStep(n)
    BY <1>2 DEF Kernel, KernelStep
  <2> QED
    BY <2>1, SendCompletesCounts, NotificationCounts, RecvCompletesCounts,
       CompletesClosedCounts DEF KernelStep, Completes
<1>3. CASE ServerCloses \/ Terminated \/ UNCHANGED vars
  BY <1>3, ThreadMovesCounts
<1> QED
  BY <1>1, <1>2, <1>3 DEF Next

(* What a client with buffers of its own counts is what its receives have  *)
(* taken from the stream (simple_iou_client.cpp:226-237), and when its     *)
(* loop ends at most half a ring of receives is not counted.               *)
THEOREM CountsExactlyAlways == Spec => []CountsExactly
<1>1. Init => CountsInv
  BY InitCounts
<1>2. CountsInv /\ [Next]_vars => CountsInv'
  BY NextKeepsCounts
<1>3. CountsInv => CountsExactly
  <2> SUFFICES ASSUME CountsInv PROVE CountsExactly
    OBVIOUS
  <2>1. TypeOK /\ RingInv /\ Windows /\ Totals
    BY DEF CountsInv
  <2>2. ASSUME ~stupid, cqes = <<>> PROVE total_received = consumed
    <3>1. total_received + 0 = consumed
      BY <2>1, <2>2 DEF Totals, CountedExactly, PostedInts, Posted
    <3> QED
      BY <2>1, <3>1, Numbers
  <2> QED
    BY <2>1, <2>2 DEF CountsExactly, CountedIsConsumed, TailBound, Windows
<1> QED
  BY <1>1, <1>2, <1>3, PTL DEF Spec

(***************************************************************************)
(* Blocks and numbers.  The requests that go out in order are numbered as  *)
(* they are prepared; the request of number k takes block k % Capacity.    *)
(***************************************************************************)

OfBlock(kind, b) == {op \in Ops : op.kind = kind /\ op.block = b}

(* Two numbers less than Capacity apart that leave the same remainder.     *)
LEMMA SameResidue ==
  ASSUME NEW a \in Nat, NEW b \in Nat, a <= b, b - a < Capacity, a % Capacity = b % Capacity
  PROVE  a = b
<1>1. Capacity \in Nat \ {0}
  BY CapacityAssumption
<1>2. PICK p \in Nat, r \in 0 .. Capacity - 1 : a = Capacity * p + r /\ a % Capacity = r
  BY <1>1, Residue
<1>3. PICK q \in Nat : b = Capacity * q + r
  BY <1>1, <1>2, Residue
<1>4. Capacity * p \in Int /\ Capacity * q \in Int
  BY <1>1
<1>5. Capacity * q >= Capacity * p /\ Capacity * q <= Capacity * p + Capacity - 1
  BY <1>1, <1>2, <1>3, <1>4
<1>6. q = p
  BY <1>1, <1>5, SameMultiple
<1> QED
  BY <1>2, <1>3, <1>6

LEMMA NextResidue ==
  ASSUME NEW a \in Nat
  PROVE  ((a % Capacity) + 1) % Capacity = (a + 1) % Capacity
<1>1. Capacity \in Nat \ {0}
  BY CapacityAssumption
<1>2. PICK p \in Nat, r \in 0 .. Capacity - 1 : a = Capacity * p + r /\ a % Capacity = r
  BY <1>1, Residue
<1>3. CASE r + 1 < Capacity
  <2>1. r + 1 \in 0 .. Capacity - 1 /\ a + 1 = Capacity * p + (r + 1)
    BY <1>1, <1>2, <1>3
  <2>2. (Capacity * p + (r + 1)) % Capacity = r + 1
    BY <1>1, <2>1, UniqueResidue
  <2>3. (Capacity * 0 + (r + 1)) % Capacity = r + 1
    BY <1>1, <2>1, UniqueResidue
  <2>4. Capacity * 0 + (r + 1) = r + 1
    BY <1>1
  <2> QED
    BY <1>2, <2>1, <2>2, <2>3, <2>4
<1>4. CASE r + 1 = Capacity
  <2>1. 0 \in 0 .. Capacity - 1 /\ a + 1 = Capacity * (p + 1) + 0 /\ p + 1 \in Nat
        /\ r + 1 = Capacity * 1 + 0
    BY <1>1, <1>2, <1>4
  <2>2. (Capacity * (p + 1) + 0) % Capacity = 0
    BY <1>1, <2>1, UniqueResidue
  <2>3. (Capacity * 1 + 0) % Capacity = 0
    BY <1>1, <2>1, UniqueResidue
  <2> QED
    BY <1>2, <2>1, <2>2, <2>3
<1> QED
  BY <1>1, <1>2, <1>3, <1>4

(* Only next_index itself is at no distance from it.                       *)
LEMMA AtNoDistance ==
  ASSUME NEW p \in Pools, NEW b \in Blocks
  PROVE  /\ Distance(p, b) \in Nat
         /\ (Distance(p, b) <= 0 <=> b = p.next_index)
<1>1. Capacity \in Nat \ {0}
  BY CapacityAssumption
<1>2. PICK at \in 0 .. Capacity - 1 : p.next_index = at
  BY DEF Pools, Blocks
<1>3. b \in 0 .. Capacity - 1
  BY DEF Blocks
<1>4. Distance(p, b) = (b - at) % Capacity
  BY <1>2 DEF Distance
<1>5. CASE b >= at
  <2>1. b - at \in 0 .. Capacity - 1 /\ Capacity * 0 + (b - at) = b - at
    BY <1>1, <1>3, <1>5
  <2>2. (Capacity * 0 + (b - at)) % Capacity = b - at
    BY <1>1, <2>1, UniqueResidue
  <2>3. Distance(p, b) = b - at
    BY <1>4, <2>1, <2>2
  <2> QED
    BY <1>2, <1>3, <1>5, <2>1, <2>3
<1>6. CASE b < at
  <2> DEFINE d == (b - at) % Capacity
             q == (b - at) \div Capacity
  <2>1. d \in 0 .. Capacity - 1 /\ q \in Int
    BY <1>1, <1>3
  <2>2. b - at = Capacity * q + d
    BY <1>1, <1>3
  <2> HIDE DEF d, q
  <2>3. ASSUME d = 0 PROVE FALSE
    <3>1. Capacity * q = b - at
      BY <1>1, <1>3, <2>1, <2>2, <2>3
    <3>2. CASE q >= 0
      <4>1. Capacity * q >= 0
        BY <1>1, <2>1, <3>2
      <4> QED
        BY <1>3, <1>6, <3>1, <4>1
    <3>3. CASE q <= -1
      <4>1. Capacity * q <= Capacity * (-1)
        BY <1>1, <2>1, <3>3
      <4> QED
        BY <1>1, <1>3, <3>1, <4>1
    <3> QED
      BY <2>1, <3>2, <3>3
  <2> QED
    BY <1>2, <1>3, <1>4, <1>6, <2>1, <2>3 DEF d
<1> QED
  BY <1>2, <1>3, <1>5, <1>6

(* What is counted at least once is somewhere.                             *)
LEMMA CountedSomewhere ==
  ASSUME NEW S, NEW s \in Seq(S), NEW T, Count(s, T) >= 1
  PROVE  \E at \in DOMAIN s : s[at] \in T
<1> SUFFICES ASSUME \A at \in DOMAIN s : s[at] \notin T PROVE FALSE
  OBVIOUS
<1>1. {at \in DOMAIN s : s[at] \in T} = {}
  OBVIOUS
<1>2. Count(s, T) = 0
  BY <1>1, FS_EmptySet DEF Count
<1> QED
  BY <1>2

(* A pool is exhausted by no fewer operations than it has blocks.          *)
LEMMA EveryBlockTaken ==
  ASSUME NEW ops \in Seq(Ops), NEW kind,
         \A b \in Blocks : \E at \in DOMAIN ops : ops[at] \in OfBlock(kind, b)
  PROVE  Capacity <= Count(ops, OfKind(kind))
<1> DEFINE P == {at \in DOMAIN ops : ops[at] \in OfKind(kind)}
           f == [b \in Blocks |-> CHOOSE at \in DOMAIN ops : ops[at] \in OfBlock(kind, b)]
<1>1. \A b \in Blocks : f[b] \in DOMAIN ops /\ ops[f[b]] \in OfBlock(kind, b)
  OBVIOUS
<1>2. \A b \in Blocks : f[b] \in P /\ ops[f[b]].block = b
  BY <1>1 DEF OfBlock, OfKind
<1>3. f \in [Blocks -> P]
  <2>1. f = [b \in Blocks |-> f[b]]
    OBVIOUS
  <2> HIDE DEF f, P
  <2> QED
    BY <1>2, <2>1
<1>4. f \in Injection(Blocks, P)
  <2> HIDE DEF f, P
  <2>1. \A a, b \in Blocks : f[a] = f[b] => a = b
    BY <1>2
  <2> QED
    BY <1>3, <2>1 DEF Injection, IsInjective
<1>5. IsFiniteSet(P) /\ Cardinality(P) = Count(ops, OfKind(kind))
  BY CountType DEF Count
<1>6. Cardinality(Blocks) = Capacity
  <2>1. Cardinality(0 .. Capacity - 1) = (Capacity - 1) - 0 + 1
    BY CapacityAssumption, FS_Interval
  <2> QED
    BY <2>1, CapacityAssumption DEF Blocks
<1> HIDE DEF f, P
<1>7. Cardinality(Blocks) <= Cardinality(P)
  <2>1. IsFiniteSet(P)
    BY <1>5
  <2> QED
    BY ONLY <1>4, <2>1, FS_Injection
<1> QED
  BY <1>5, <1>6, <1>7

(* num numbers the requests and notifications of ops: from lo on, below    *)
(* hi, increasing, and those that have gone out before those that have not.*)
Numbered(ops, num, lo, hi) ==
  /\ num \in Seq(Nat) /\ Len(num) = Len(ops)
  /\ \A n \in 1 .. Len(ops) :
       ops[n].kind # "recv" =>
         lo <= num[n] /\ num[n] < hi /\ ops[n].block = num[n] % Capacity
  /\ \A m, n \in 1 .. Len(ops) :
       /\ (ops[m].kind = "notif" /\ ops[n].kind = "send" => num[m] < num[n])
       /\ (m < n /\ ops[m].kind = ops[n].kind /\ ops[n].kind # "recv" => num[m] < num[n])

LEMMA NumberedEmpty == Numbered(<<>>, <<>>, 0, 0)
<1>1. <<>> \in Seq(Nat) /\ Len(<<>>) = 0
  OBVIOUS
<1> QED
  BY <1>1 DEF Numbered

(* An operation is added: a receive, whose number does not matter, a       *)
(* notification of a number beyond those of notifications and below those  *)
(* of requests, or a request of a number beyond all.                       *)
LEMMA NumberedAppend ==
  ASSUME NEW ops \in Seq(Ops), NEW num, NEW lo \in Nat, NEW hi \in Nat, NEW top \in Nat,
         Numbered(ops, num, lo, hi), hi <= top,
         NEW x \in Ops, NEW k \in Nat,
         x.kind # "recv" => lo <= k /\ k < top /\ x.block = k % Capacity,
         \A n \in 1 .. Len(ops) :
           /\ (x.kind = "notif" /\ ops[n].kind = "notif" => num[n] < k)
           /\ (x.kind = "notif" /\ ops[n].kind = "send" => k < num[n])
           /\ (x.kind = "send" /\ ops[n].kind # "recv" => num[n] < k)
  PROVE  Numbered(Append(ops, x), Append(num, k), lo, top)
<1> DEFINE o == Append(ops, x)
           u == Append(num, k)
           len == Len(ops)
<1>1. /\ len \in Nat /\ num \in Seq(Nat) /\ Len(num) = len
      /\ \A n \in 1 .. len : ops[n] \in Ops /\ num[n] \in Nat
  BY LenProperties, ElementOfSeq DEF Numbered
<1>2. /\ o \in Seq(Ops) /\ Len(o) = len + 1
      /\ \A n \in 1 .. len + 1 : o[n] = IF n = len + 1 THEN x ELSE ops[n]
  <2>1. /\ Len(o) = Len(ops) + 1 /\ o \in Seq(Ops)
        /\ \A n \in 1 .. Len(ops) : o[n] = ops[n]
        /\ o[Len(ops) + 1] = x
    BY AppendProperties
  <2> QED
    BY <1>1, <2>1
<1>3. /\ u \in Seq(Nat) /\ Len(u) = len + 1
      /\ \A n \in 1 .. len + 1 : u[n] = IF n = len + 1 THEN k ELSE num[n]
  <2>1. /\ Len(u) = Len(num) + 1 /\ u \in Seq(Nat)
        /\ \A n \in 1 .. Len(num) : u[n] = num[n]
        /\ u[Len(num) + 1] = k
    BY <1>1, AppendProperties
  <2> QED
    BY <1>1, <2>1
<1>4. /\ \A n \in 1 .. len :
           ops[n].kind # "recv" =>
             lo <= num[n] /\ num[n] < hi /\ ops[n].block = num[n] % Capacity
      /\ \A m, n \in 1 .. len :
           /\ (ops[m].kind = "notif" /\ ops[n].kind = "send" => num[m] < num[n])
           /\ (m < n /\ ops[m].kind = ops[n].kind /\ ops[n].kind # "recv" => num[m] < num[n])
  BY DEF Numbered
<1>5. /\ x.kind \in {"send", "recv", "notif"}
      /\ \A n \in 1 .. len : ops[n].kind \in {"send", "recv", "notif"}
  BY <1>1 DEF Ops
<1> HIDE DEF o, u, len
<1>6. ASSUME NEW n \in 1 .. len + 1, o[n].kind # "recv"
      PROVE  lo <= u[n] /\ u[n] < top /\ o[n].block = u[n] % Capacity
  <2>1. CASE n = len + 1
    BY <1>1, <1>2, <1>3, <1>6, <2>1
  <2>2. CASE n # len + 1
    <3>1. n \in 1 .. len /\ o[n] = ops[n] /\ u[n] = num[n]
      BY <1>1, <1>2, <1>3, <2>2
    <3> QED
      BY <1>1, <1>4, <1>6, <3>1
  <2> QED
    BY <2>1, <2>2
<1>7. ASSUME NEW m \in 1 .. len + 1, NEW n \in 1 .. len + 1
      PROVE  /\ (o[m].kind = "notif" /\ o[n].kind = "send" => u[m] < u[n])
             /\ (m < n /\ o[m].kind = o[n].kind /\ o[n].kind # "recv" => u[m] < u[n])
  <2>1. CASE m = len + 1 /\ n = len + 1
    BY <1>1, <1>2, <1>3, <2>1
  <2>2. CASE m = len + 1 /\ n # len + 1
    <3>1. n \in 1 .. len /\ ~(m < n) /\ o[n] = ops[n] /\ u[n] = num[n] /\ o[m] = x /\ u[m] = k
      BY <1>1, <1>2, <1>3, <2>2
    <3> QED
      BY <3>1 DEF len
  <2>3. CASE m # len + 1 /\ n = len + 1
    <3>1. m \in 1 .. len /\ o[m] = ops[m] /\ u[m] = num[m] /\ o[n] = x /\ u[n] = k
      BY <1>1, <1>2, <1>3, <2>3
    <3> QED
      BY <1>5, <3>1 DEF len
  <2>4. CASE m # len + 1 /\ n # len + 1
    <3> HIDE DEF o, u
    <3>0. m \in 1 .. len /\ n \in 1 .. len
      BY <1>1, <2>4
    <3>1. o[m] = ops[m] /\ u[m] = num[m]
      BY ONLY <1>2, <1>3, <2>4, m \in 1 .. len + 1
    <3>2. o[n] = ops[n] /\ u[n] = num[n]
      BY ONLY <1>2, <1>3, <2>4, n \in 1 .. len + 1
    <3> QED
      BY <1>4, <3>0, <3>1, <3>2
  <2> QED
    BY <2>1, <2>2, <2>3, <2>4
<1>8. Len(u) = Len(o) /\ Len(o) = len + 1 /\ u \in Seq(Nat)
  BY <1>2, <1>3
<1>9. Numbered(o, u, lo, top)
  BY <1>6, <1>7, <1>8 DEF Numbered
<1> QED
  BY <1>9 DEF o, u

(* An operation completes, and the numbers may begin beyond its own.       *)
LEMMA NumberedRemove ==
  ASSUME NEW ops \in Seq(Ops), NEW num, NEW lo, NEW hi, NEW low,
         Numbered(ops, num, lo, hi), NEW n \in DOMAIN ops,
         \A at \in 1 .. Len(ops) : at # n /\ ops[at].kind # "recv" => low <= num[at]
  PROVE  /\ Numbered(RemoveAt(ops, n), RemoveAt(num, n), low, hi)
         /\ RemoveAt(ops, n) \in Seq(Ops)
<1> DEFINE o == RemoveAt(ops, n)
           u == RemoveAt(num, n)
           len == Len(ops)
           old(at) == IF at < n THEN at ELSE at + 1
<1>1. /\ num \in Seq(Nat) /\ Len(num) = len /\ len \in Nat /\ DOMAIN num = 1 .. len
      /\ DOMAIN ops = 1 .. len
  BY LenProperties DEF Numbered
<1>2. /\ o \in Seq(Ops) /\ len \in Nat \ {0} /\ n \in 1 .. len /\ Len(o) = len - 1
      /\ \A at \in 1 .. len - 1 : o[at] = ops[old(at)]
  BY RemovedAt
<1>3. /\ u \in Seq(Nat) /\ Len(u) = len - 1
      /\ \A at \in 1 .. len - 1 : u[at] = num[old(at)]
  <2>1. n \in DOMAIN num
    BY <1>1
  <2>2. /\ u \in Seq(Nat) /\ Len(u) = Len(num) - 1
        /\ \A at \in 1 .. Len(num) - 1 : u[at] = num[old(at)]
    <3>1. num \in Seq(Nat)
      BY <1>1
    <3> QED
      BY ONLY <2>1, <3>1, RemovedAt
  <2> QED
    BY <1>1, <2>2
<1>4. /\ \A at \in 1 .. len :
           ops[at].kind # "recv" =>
             lo <= num[at] /\ num[at] < hi /\ ops[at].block = num[at] % Capacity
      /\ \A at, j \in 1 .. len :
           /\ (ops[at].kind = "notif" /\ ops[j].kind = "send" => num[at] < num[j])
           /\ (at < j /\ ops[at].kind = ops[j].kind /\ ops[j].kind # "recv" => num[at] < num[j])
  BY DEF Numbered
<1>5. /\ \A at \in 1 .. len - 1 : old(at) \in 1 .. len /\ old(at) # n
      /\ \A at, j \in 1 .. len - 1 : at < j => old(at) < old(j)
  BY <1>2
<1>6. \A at \in 1 .. len : at # n /\ ops[at].kind # "recv" => low <= num[at]
  OBVIOUS
<1> HIDE DEF o, u, len, old
<1>7. ASSUME NEW at \in 1 .. len - 1, o[at].kind # "recv"
      PROVE  low <= u[at] /\ u[at] < hi /\ o[at].block = u[at] % Capacity
  BY <1>2, <1>3, <1>4, <1>5, <1>6, <1>7
<1>8. ASSUME NEW at \in 1 .. len - 1, NEW j \in 1 .. len - 1
      PROVE  /\ (o[at].kind = "notif" /\ o[j].kind = "send" => u[at] < u[j])
             /\ (at < j /\ o[at].kind = o[j].kind /\ o[j].kind # "recv" => u[at] < u[j])
  <2> DEFINE x == old(at)
             y == old(j)
  <2>1. /\ o[at] = ops[x] /\ u[at] = num[x] /\ x \in 1 .. len
        /\ o[j] = ops[y] /\ u[j] = num[y] /\ y \in 1 .. len
    BY <1>2, <1>3, <1>5
  <2>2. at < j => x < y
    BY <1>5
  <2> HIDE DEF x, y
  <2>3. /\ ops[x].kind = "notif" /\ ops[y].kind = "send" => num[x] < num[y]
        /\ x < y /\ ops[x].kind = ops[y].kind /\ ops[y].kind # "recv" => num[x] < num[y]
    BY <1>4, <2>1
  <2> QED
    BY ONLY <2>1, <2>2, <2>3
<1>9. Numbered(o, u, low, hi)
  BY <1>2, <1>3, <1>7, <1>8 DEF Numbered
<1> QED
  BY <1>2, <1>9 DEF o, u

(* With no more than Capacity numbers, no two requests or notifications    *)
(* name the same block.                                                    *)
LEMMA NumberedBlocksDiffer ==
  ASSUME NEW ops \in Seq(Ops), NEW num, NEW lo \in Nat, NEW hi \in Nat,
         Numbered(ops, num, lo, hi), hi - lo <= Capacity,
         NEW m \in 1 .. Len(ops), NEW n \in 1 .. Len(ops),
         ops[m].kind # "recv", ops[n].kind # "recv", ops[m].block = ops[n].block
  PROVE  m = n
<1>1. /\ Len(ops) \in Nat /\ num[m] \in Nat /\ num[n] \in Nat
      /\ ops[m] \in Ops /\ ops[n] \in Ops
  BY LenProperties, ElementOfSeq DEF Numbered
<1>2. Capacity \in Nat
  BY CapacityAssumption
<1>3. /\ lo <= num[m] /\ num[m] < hi /\ ops[m].block = num[m] % Capacity
      /\ lo <= num[n] /\ num[n] < hi /\ ops[n].block = num[n] % Capacity
  BY DEF Numbered
<1>4. num[m] = num[n]
  <2>1. num[m] % Capacity = num[n] % Capacity
    BY <1>3
  <2>2. CASE num[m] <= num[n]
    <3>1. num[n] - num[m] < Capacity
      BY <1>1, <1>2, <1>3
    <3> QED
      BY <1>1, <2>1, <2>2, <3>1, SameResidue
  <2>3. CASE num[n] <= num[m]
    <3>1. num[m] - num[n] < Capacity
      BY <1>1, <1>2, <1>3
    <3> QED
      BY <1>1, <2>1, <2>3, <3>1, SameResidue
  <2> QED
    BY <1>1, <2>2, <2>3
<1>5. ops[m].kind \in {"send", "notif"} /\ ops[n].kind \in {"send", "notif"}
  BY <1>1 DEF Ops
<1>6. /\ (ops[m].kind = "notif" /\ ops[n].kind = "send" => num[m] < num[n])
      /\ (ops[n].kind = "notif" /\ ops[m].kind = "send" => num[n] < num[m])
      /\ (m < n /\ ops[m].kind = ops[n].kind => num[m] < num[n])
      /\ (n < m /\ ops[n].kind = ops[m].kind => num[n] < num[m])
  BY DEF Numbered
<1>7. ops[m].kind = ops[n].kind
  BY <1>1, <1>4, <1>5, <1>6
<1>8. ~(m < n) /\ ~(n < m)
  BY <1>1, <1>4, <1>6, <1>7
<1> QED
  BY <1>1, <1>8

(***************************************************************************)
(* The blocks that are out.                                                *)
(***************************************************************************)

PostedAt(kind, b) == IF Posted /\ Head(cqes).kind = kind /\ Head(cqes).block = b THEN 1 ELSE 0

(* Operations of a kind with block b that the client has not handled.      *)
At(kind, b) == Under(OfBlock(kind, b)) + PostedAt(kind, b)

Out(p, b) == IF p.state[b] = "CheckedOut" THEN 1 ELSE 0

(* The block of a receive is out for as long as the receive is under way   *)
(* or posted; that of a request no longer, for a notification checks it in *)
(* a second time when it may be out for another.                           *)
PoolInv ==
  ~stupid =>
    \A b \in Blocks : Out(large, b) = At("recv", b) /\ Out(small, b) <= At("send", b)

InOrder == ~stupid /\ ~short /\ ~overtaken /\ Capacity >= Window

(* As long as requests go out in order, blocks are handed out in a circle. *)
OrderInv ==
  InOrder =>
    /\ small.next_index = send_index % Capacity
    /\ \E num : Numbered(in_kernel \o sq, num, acknowledged, send_index)

BlocksInv == CountsInv /\ PoolInv /\ OrderInv /\ PoolsLast

LEMMA OneOfBlock ==
  ASSUME NEW op \in Ops, NEW kind, NEW b
  PROVE  One(op, OfBlock(kind, b)) = IF op.kind = kind /\ op.block = b THEN 1 ELSE 0
BY DEF One, OfBlock

LEMMA AtType ==
  ASSUME Rings, NEW kind, NEW b
  PROVE  /\ At(kind, b) \in Nat /\ PostedAt(kind, b) \in {0, 1}
         /\ Under(OfBlock(kind, b)) \in Nat
<1>1. Under(OfBlock(kind, b)) \in Nat
  BY UnderType
<1>2. PostedAt(kind, b) \in {0, 1}
  BY DEF PostedAt
<1> QED
  BY <1>1, <1>2 DEF At

LEMMA PrepareAt ==
  ASSUME Rings, NEW op \in Ops, sq' = Append(sq, op), in_kernel' = in_kernel, cqes' = cqes,
         NEW kind, NEW b
  PROVE  At(kind, b)' = At(kind, b) + (IF op.kind = kind /\ op.block = b THEN 1 ELSE 0)
<1>1. Under(OfBlock(kind, b))' = Under(OfBlock(kind, b)) + One(op, OfBlock(kind, b))
  BY PrepareCounts
<1>2. PostedAt(kind, b)' = PostedAt(kind, b)
  BY DEF PostedAt, Posted
<1>3. At(kind, b)' = Under(OfBlock(kind, b))' + PostedAt(kind, b)'
  BY DEF At
<1> QED
  BY <1>1, <1>2, <1>3, AtType, OneOfBlock DEF At

LEMMA SubmitAt ==
  ASSUME Rings, in_kernel' = in_kernel \o sq, sq' = <<>>, cqes' = cqes, NEW kind, NEW b
  PROVE  At(kind, b)' = At(kind, b)
<1>1. Under(OfBlock(kind, b))' = Under(OfBlock(kind, b))
  BY SubmitCounts
<1>2. PostedAt(kind, b)' = PostedAt(kind, b)
  BY DEF PostedAt, Posted
<1> QED
  BY <1>1, <1>2 DEF At

(* A completion takes one operation out and posts it; a request may leave  *)
(* its notification behind.                                                *)
LEMMA CompletesShape ==
  ASSUME CountsInv, NEW n, KernelStep(n)
  PROVE  \E added \in {<<>>, <<[kind |-> "notif", block |-> in_kernel[n].block]>>},
            res \in -1 .. PageSize :
           Post(in_kernel[n], res) /\ in_kernel' = RemoveAt(in_kernel, n) \o added
<1>1. Rings /\ n \in DOMAIN in_kernel
  BY KernelLeaves
<1>2. PageSize \in Nat \ {0}
  BY SimpleIouClientAssumption
<1>3. RemoveAt(in_kernel, n) \in Seq(Ops)
  BY <1>1, RemovedAt DEF Rings
<1> DEFINE rest == RemoveAt(in_kernel, n)
<1> HIDE DEF rest
<1>4. rest \o <<>> = rest
  BY <1>3, ConcatEmptySeq DEF rest
<1>5. in_kernel' = rest => in_kernel' = RemoveAt(in_kernel, n) \o <<>>
  BY <1>4 DEF rest
<1>6. CASE SendCompletes(n)
  <2>1. 1 \in -1 .. PageSize /\ Post(in_kernel[n], 1)
    BY <1>2, <1>6 DEF SendCompletes
  <2>2. CASE registered
    BY <1>6, <2>1, <2>2 DEF SendCompletes
  <2>3. CASE ~registered
    BY <1>6, <2>1, <2>3 DEF SendCompletes
  <2> QED
    BY <2>2, <2>3
<1>7. CASE Notification(n)
  <2>1. 0 \in -1 .. PageSize /\ Post(in_kernel[n], 0) /\ in_kernel' = rest
    BY <1>2, <1>7 DEF Notification, rest
  <2> QED
    BY <1>5, <2>1
<1>8. CASE RecvCompletes(n)
  <2>1. PICK ints \in 1 .. PageSize : Post(in_kernel[n], ints)
    BY <1>8 DEF RecvCompletes
  <2>2. ints \in -1 .. PageSize /\ in_kernel' = rest
    BY <1>2, <1>8 DEF RecvCompletes, rest
  <2> QED
    BY <1>5, <2>1, <2>2
<1>9. CASE CompletesClosed(n)
  <2>1. PICK res \in {0, -1} : Post(in_kernel[n], res)
    BY <1>9 DEF CompletesClosed
  <2>2. res \in -1 .. PageSize /\ in_kernel' = rest
    BY <1>2, <1>9 DEF CompletesClosed, rest
  <2> QED
    BY <1>5, <2>1, <2>2
<1> QED
  BY <1>6, <1>7, <1>8, <1>9 DEF KernelStep, Completes

LEMMA CompleteAt ==
  ASSUME CountsInv, NEW n, KernelStep(n), NEW kind \in {"send", "recv"}, NEW b
  PROVE  At(kind, b)' = At(kind, b)
<1>1. /\ Rings /\ n \in DOMAIN in_kernel /\ in_kernel[n] \in Ops /\ cqes = <<>> /\ sq' = sq
  BY KernelLeaves
<1> DEFINE op == in_kernel[n]
           notif == [kind |-> "notif", block |-> op.block]
           T == OfBlock(kind, b)
<1>2. PICK added \in {<<>>, <<notif>>}, res \in -1 .. PageSize :
        Post(op, res) /\ in_kernel' = RemoveAt(in_kernel, n) \o added
  BY CompletesShape
<1>3. notif \in Ops /\ notif.kind = "notif"
  BY <1>1 DEF Ops
<1> HIDE DEF notif, T
<1>4. added \in Seq(Ops) /\ Count(added, T) = 0
  <2>1. One(notif, T) = 0
    BY <1>3, OneOfBlock DEF T
  <2>2. <<notif>> \in Seq(Ops) /\ <<>> \in Seq(Ops)
    BY <1>3
  <2> QED
    BY <1>2, <2>1, <2>2, CountSingleton, CountEmpty
<1>5. Rings' /\ Under(T)' + One(op, T) = Under(T) + 0
  BY <1>1, <1>2, <1>4, CompleteCounts
<1>6. PostedAt(kind, b)' = One(op, T) /\ PostedAt(kind, b) = 0
  <2>1. Posted' /\ Head(cqes').kind = op.kind /\ Head(cqes').block = op.block
    BY <1>1, <1>2, PostOne
  <2> QED
    BY <1>1, <2>1, OneOfBlock DEF PostedAt, Posted, T
<1>7. Under(T)' \in Nat
  <2>1. Count(in_kernel', T) \in Nat /\ Count(sq', T) \in Nat
    BY <1>5, CountType DEF Rings
  <2> QED
    BY <2>1 DEF Under
<1>8. PICK u \in Nat : Under(T)' = u
  BY <1>7
<1>9. u + One(op, T) = Under(T) + 0 /\ One(op, T) \in Nat /\ Under(T) \in Nat
  BY <1>1, <1>5, <1>8, UnderType DEF One
<1>10. At(kind, b)' = u + One(op, T)
  BY <1>6, <1>8 DEF At, T
<1>11. At(kind, b) = Under(T) + 0
  BY <1>6 DEF At, T
<1> QED
  BY <1>9, <1>10, <1>11

(* The requests that the server has not acknowledged, and the receives     *)
(* prepared, are no more than the windows let through: as long as every    *)
(* receive is a whole page, what is counted was acknowledged before.       *)
LEMMA Lag ==
  ASSUME CountsInv, ~stupid, ~short
  PROVE  /\ iterations_received + PostedRecv <= acknowledged
         /\ send_index - acknowledged
              <= (send_index - recv_index) + (recv_index - iterations_received)
         /\ send_index - acknowledged <= Window
         /\ SendsUnder <= (send_index - recv_index) + (recv_index - iterations_received)
         /\ RecvsUnder <= recv_index - iterations_received
         /\ Window \in Nat
<1> USE SimpleIouClientAssumption
<1>1. TypeOK /\ RingInv /\ Windows /\ Totals
  BY DEF CountsInv
<1>2. /\ send_index \in Nat /\ recv_index \in Nat /\ iterations_received \in Nat
      /\ acknowledged \in Nat /\ PostedRecv \in {0, 1} /\ SendsUnder \in Nat
      /\ NotifsUnder \in Nat /\ RecvsUnder \in Nat /\ consumed \in Nat
  BY <1>1, Numbers
<1>3. /\ consumed = PageSize * (iterations_received + PostedRecv)
      /\ recv_index = iterations_received + RecvsUnder + PostedRecv
  BY <1>1 DEF Totals, CountedExactly
<1>4. iterations_received + PostedRecv <= acknowledged
  <2> DEFINE seen == iterations_received + PostedRecv
  <2>1. seen \in Nat
    BY <1>2
  <2>2. PageSize * seen <= acknowledged * PageSize
    BY <1>1, <1>3, Numbers
  <2> HIDE DEF seen
  <2>3. CASE seen - acknowledged >= 1
    <3>1. PageSize * (seen - acknowledged) >= PageSize * 1
      BY <1>2, <2>1, <2>3
    <3>2. PageSize * (seen - acknowledged) = PageSize * seen - acknowledged * PageSize
      BY <1>2, <2>1
    <3>3. PageSize * seen \in Nat /\ acknowledged * PageSize \in Nat
      BY <1>2, <2>1
    <3> QED
      BY <2>2, <3>1, <3>2, <3>3
  <2>4. CASE seen - acknowledged <= 0
    <3>1. seen <= acknowledged
      BY <1>2, <2>1, <2>4
    <3> QED
      BY <3>1 DEF seen
  <2> QED
    BY <1>2, <2>1, <2>3, <2>4
<1>5. /\ send_index - recv_index <= RingSize \div 4
      /\ recv_index - iterations_received <= RingSize \div 2
  BY <1>1 DEF Windows
<1>6. RingSize \div 4 \in Nat /\ RingSize \div 2 \in Nat
  OBVIOUS
<1>7. Window \in Nat /\ Window = RingSize \div 4 + RingSize \div 2
  BY <1>6 DEF Window
<1>8. acknowledged + SendsUnder + NotifsUnder <= send_index
  BY <1>1 DEF Totals, SentFirst
<1> QED
  BY <1>2, <1>3, <1>4, <1>5, <1>6, <1>7, <1>8

(* The initial state: all blocks are free, and nothing is numbered.        *)
LEMMA InitBlocks == Init => BlocksInv
<1> SUFFICES ASSUME Init PROVE BlocksInv
  OBVIOUS
<1>1. CountsInv
  BY InitCounts
<1>2. Rings /\ sq = <<>> /\ in_kernel = <<>> /\ cqes = <<>> /\ phase = "send"
  BY <1>1 DEF Init, CountsInv, TypeOK, Rings
<1>3. PoolInv
  <2>1. ASSUME NEW b \in Blocks
        PROVE  Out(large, b) = At("recv", b) /\ Out(small, b) <= At("send", b)
    <3>1. Out(large, b) = 0 /\ Out(small, b) = 0
      BY DEF Init, NewPool, Out
    <3>2. At("recv", b) = 0 /\ At("send", b) = 0
      BY <1>2, CountEmpty DEF At, Under, PostedAt, Posted
    <3> QED
      BY <3>1, <3>2
  <2> QED
    BY <2>1 DEF PoolInv
<1>4. OrderInv
  <2>1. small.next_index = 0 /\ send_index = 0 /\ acknowledged = 0
    BY DEF Init, NewPool
  <2>2. 0 % Capacity = 0
    BY CapacityAssumption
  <2>3. in_kernel \o sq = <<>>
    BY <1>2
  <2> QED
    BY <2>1, <2>2, <2>3, NumberedEmpty DEF OrderInv
<1>5. PoolsLast
  BY <1>2 DEF PoolsLast
<1> QED
  BY <1>1, <1>3, <1>4, <1>5 DEF BlocksInv

(* In order, the block of the next request is where the search begins:     *)
(* its last user was acknowledged at least Capacity requests ago.          *)
LEMMA NextInCircle ==
  ASSUME BlocksInv, InOrder, Sending, CanCheckOut(small)
  PROVE  NextFree(small) = send_index % Capacity
<1>1. /\ CountsInv /\ TypeOK /\ RingInv /\ Rings /\ PoolInv
      /\ ~stupid /\ ~short /\ Capacity >= Window
  BY DEF BlocksInv, CountsInv, TypeOK, Rings, InOrder
<1>2. PICK num : Numbered(in_kernel \o sq, num, acknowledged, send_index)
  BY DEF BlocksInv, OrderInv
<1>3. small.next_index = send_index % Capacity
  BY DEF BlocksInv, OrderInv
<1> DEFINE b == small.next_index
           ops == in_kernel \o sq
<1>4. small \in Pools /\ b \in Blocks
  BY <1>1 DEF TypeOK, Pools
<1>5. /\ send_index \in Nat /\ acknowledged \in Nat /\ recv_index \in Nat
      /\ iterations_received \in Nat
  BY <1>1, Numbers
<1>6. send_index - acknowledged < Capacity
  <2>1. send_index - recv_index < RingSize \div 4 /\ cqes = <<>>
    BY <1>1 DEF Sending, MoreToSend, RingInv
  <2>2. /\ send_index - acknowledged
             <= (send_index - recv_index) + (recv_index - iterations_received)
        /\ recv_index - iterations_received <= RingSize \div 2
    BY <1>1, Lag DEF CountsInv, Windows
  <2>3. RingSize \div 4 \in Nat /\ RingSize \div 2 \in Nat /\ Capacity \in Nat
        /\ Capacity >= RingSize \div 4 + RingSize \div 2
    BY <1>1, SimpleIouClientAssumption, CapacityAssumption DEF Window
  <2> QED
    BY <1>5, <2>1, <2>2, <2>3
<1>7. small.state[b] = "Free"
  <2> SUFFICES ASSUME small.state[b] # "Free" PROVE FALSE
    OBVIOUS
  <2>1. small.state[b] = "CheckedOut"
    BY <1>4 DEF Pools, BufferStates
  <2>2. At("send", b) >= 1
    <3>1. Out(small, b) <= At("send", b) /\ Out(small, b) = 1
      BY <1>1, <1>4, <2>1 DEF PoolInv, Out
    <3> QED
      BY <1>1, <3>1, AtType
  <2>3. PostedAt("send", b) = 0
    BY <1>1 DEF PostedAt, Posted, RingInv, Sending
  <2>4. ops \in Seq(Ops) /\ Count(ops, OfBlock("send", b)) >= 1
    <3>1. Count(ops, OfBlock("send", b)) = Under(OfBlock("send", b)) /\ ops \in Seq(Ops)
      BY <1>1, CountConcat, ConcatProperties DEF Rings, Under
    <3>2. Under(OfBlock("send", b)) \in Nat
      BY <1>1, AtType
    <3> QED
      BY <2>2, <2>3, <3>1, <3>2 DEF At
  <2> HIDE DEF b, ops
  <2>5. PICK n \in DOMAIN ops : ops[n] \in OfBlock("send", b)
    BY <2>4, CountedSomewhere
  <2>6. /\ acknowledged <= num[n] /\ num[n] < send_index /\ num[n] \in Nat
        /\ b = num[n] % Capacity
    <3>1. n \in 1 .. Len(ops) /\ ops[n].kind = "send" /\ ops[n].block = b
      BY <2>4, <2>5, LenProperties DEF OfBlock
    <3>2. num \in Seq(Nat) /\ Len(num) = Len(ops)
      BY <1>2 DEF Numbered, ops
    <3>3. num[n] \in Nat
      BY <3>1, <3>2, ElementOfSeq
    <3> QED
      BY <1>2, <3>1, <3>3 DEF Numbered, ops
  <2>7. num[n] <= send_index /\ send_index - num[n] < Capacity
    BY <1>5, <1>6, <2>6, CapacityAssumption
  <2>8. num[n] % Capacity = send_index % Capacity
    BY <1>3, <2>6 DEF b
  <2>9. num[n] = send_index
    BY <1>5, <2>6, <2>7, <2>8, SameResidue
  <2> QED
    BY <1>5, <2>6, <2>9
<1>8. b \in FreeBlocks(small) /\ Distance(small, b) <= 0
  BY <1>4, <1>7, AtNoDistance DEF FreeBlocks
<1>9. /\ NextFree(small) \in FreeBlocks(small)
      /\ Distance(small, NextFree(small)) <= Distance(small, b)
  BY <1>4, <1>8, NextFreeIsNearest
<1>10. NextFree(small) \in Blocks
  BY <1>9 DEF FreeBlocks
<1> HIDE DEF b
<1>11. Distance(small, NextFree(small)) <= 0
  <2>1. Distance(small, NextFree(small)) \in Nat /\ Distance(small, b) \in Nat
    BY <1>4, <1>10, AtNoDistance
  <2> QED
    BY <1>8, <1>9, <2>1
<1> QED
  BY <1>3, <1>4, <1>10, <1>11, AtNoDistance

LEMMA AppendBehind ==
  ASSUME NEW S, NEW s \in Seq(S), NEW t \in Seq(S), NEW x \in S
  PROVE  s \o Append(t, x) = Append(s \o t, x)
<1> DEFINE one == <<x>>
<1>1. one \in Seq(S)
  OBVIOUS
<1>2. s \o t \in Seq(S)
  BY ConcatProperties
<1>3. Append(t, x) = t \o one /\ Append(s \o t, x) = (s \o t) \o one
  BY <1>2, AppendIsConcat
<1> HIDE DEF one
<1>4. (s \o t) \o one = s \o (t \o one)
  BY ONLY <1>1, s \in Seq(S), t \in Seq(S), ConcatAssociative
<1> QED
  BY <1>3, <1>4

LEMMA PrepareSendBlocks ==
  ASSUME BlocksInv, PrepareSend
  PROVE  PoolInv' /\ OrderInv' /\ PoolsLast'
<1>1. /\ CountsInv /\ TypeOK /\ RingInv /\ Rings /\ PoolInv /\ small \in Pools
  BY DEF BlocksInv, CountsInv, TypeOK, Rings
<1> DEFINE b0 == Block(small)
           op == [kind |-> "send", block |-> b0]
<1>2. /\ sq' = Append(sq, op) /\ in_kernel' = in_kernel /\ cqes' = cqes /\ phase' = phase /\ phase = "send"
      /\ small' = After(small) /\ send_index' = send_index + 1 /\ Sending /\ Lasts(small)
      /\ UNCHANGED <<stupid, large, acknowledged, short, overtaken>>
  BY DEF PrepareSend, modeVars, netVars, Sending
<1>3. PoolsLast'
  BY <1>2 DEF PoolsLast
<1>4. ASSUME ~stupid
      PROVE  /\ b0 = NextFree(small) /\ b0 \in Blocks /\ op \in Ops
             /\ CanCheckOut(small)
             /\ small'.next_index = (b0 + 1) % Capacity
             /\ small'.state = [small.state EXCEPT ![b0] = "CheckedOut"]
  <2>1. b0 = NextFree(small) /\ CanCheckOut(small) /\ small' = CheckOut(small)
    BY <1>2, <1>4 DEF Block, Lasts, After
  <2> HIDE DEF b0
  <2>2. b0 \in Blocks
    BY <1>1, <2>1, CheckOutType
  <2> QED
    BY <1>1, <2>1, <2>2, CheckOutType DEF Ops
<1>5. PoolInv'
  <2>1. ASSUME ~stupid, NEW b \in Blocks
        PROVE  Out(large, b)' = At("recv", b)' /\ Out(small, b)' <= At("send", b)'
    <3>1. /\ At("recv", b)' = At("recv", b) + 0
          /\ At("send", b)' = At("send", b) + (IF b0 = b THEN 1 ELSE 0)
      BY <1>1, <1>2, <1>4, <2>1, PrepareAt
    <3>2. At("recv", b) \in Nat /\ At("send", b) \in Nat
      BY <1>1, AtType
    <3>3. Out(large, b) = At("recv", b) /\ Out(small, b) <= At("send", b)
      BY <1>1, <2>1 DEF PoolInv
    <3>4. Out(large, b)' = Out(large, b)
      BY <1>2 DEF Out
    <3>5. Out(small, b)' = IF b0 = b THEN 1 ELSE Out(small, b)
      BY <1>1, <1>4, <2>1 DEF Out, Pools
    <3> HIDE DEF b0
    <3>6. Out(small, b)' <= At("send", b) + (IF b0 = b THEN 1 ELSE 0)
      BY <3>2, <3>3, <3>5 DEF Out
    <3> QED
      BY <3>1, <3>2, <3>3, <3>4, <3>6
  <2> QED
    BY <1>2, <2>1 DEF PoolInv
<1>6. OrderInv'
  <2> SUFFICES ASSUME InOrder'
               PROVE  /\ small'.next_index = (send_index + 1) % Capacity
                      /\ \E num : Numbered(in_kernel \o Append(sq, op), num, acknowledged,
                                          send_index + 1)
    BY <1>2 DEF OrderInv
  <2>1. InOrder
    BY <1>2 DEF InOrder
  <2>2. ~stupid
    BY <2>1 DEF InOrder
  <2>3. b0 = send_index % Capacity
    BY <1>2, <1>4, <2>1, <2>2, NextInCircle
  <2>4. send_index \in Nat /\ acknowledged \in Nat /\ acknowledged <= send_index
    BY <1>1, Numbers
  <2>5. small'.next_index = (send_index + 1) % Capacity
    BY <1>4, <2>2, <2>3, <2>4, NextResidue
  <2>6. PICK num : Numbered(in_kernel \o sq, num, acknowledged, send_index)
    BY <2>1 DEF BlocksInv, OrderInv
  <2> DEFINE ops == in_kernel \o sq
  <2>7. ops \in Seq(Ops) /\ op \in Ops /\ op.kind = "send" /\ op.block = b0
    BY <1>1, <1>4, <2>2, ConcatProperties DEF Rings
  <2>8. in_kernel \o Append(sq, op) = Append(ops, op)
    BY ONLY <1>1, <2>7, AppendBehind DEF Rings
  <2> HIDE DEF op, b0
  <2>9. \A n \in 1 .. Len(ops) : ops[n].kind # "recv" => num[n] < send_index
    BY <2>6 DEF Numbered
  <2>10. Numbered(ops, num, acknowledged, send_index)
    BY <2>6
  <2> HIDE DEF ops
  <2>11. Numbered(Append(ops, op), Append(num, send_index), acknowledged, send_index + 1)
    <3>1. /\ send_index <= send_index + 1 /\ send_index + 1 \in Nat
          /\ acknowledged <= send_index /\ send_index < send_index + 1
          /\ op.block = send_index % Capacity
      BY <2>3, <2>4, <2>7
    <3> QED
      BY <2>4, <2>7, <2>9, <2>10, <3>1, NumberedAppend
  <2> QED
    BY <2>5, <2>8, <2>11
<1> QED
  BY <1>3, <1>5, <1>6

LEMMA PrepareRecvBlocks ==
  ASSUME BlocksInv, PrepareRecv
  PROVE  PoolInv' /\ OrderInv' /\ PoolsLast'
<1>1. /\ CountsInv /\ TypeOK /\ RingInv /\ Rings /\ PoolInv /\ large \in Pools
  BY DEF BlocksInv, CountsInv, TypeOK, Rings
<1> DEFINE b0 == Block(large)
           op == [kind |-> "recv", block |-> b0]
<1>2. /\ sq' = Append(sq, op) /\ in_kernel' = in_kernel /\ cqes' = cqes /\ phase' = "recv"
      /\ large' = After(large) /\ Lasts(large)
      /\ UNCHANGED <<stupid, small, send_index, acknowledged, short, overtaken>>
  BY DEF PrepareRecv, modeVars, netVars
<1>3. PoolsLast'
  BY <1>2 DEF PoolsLast
<1>4. ASSUME ~stupid
      PROVE  /\ b0 \in Blocks /\ op \in Ops /\ large.state[b0] = "Free"
             /\ large'.state = [large.state EXCEPT ![b0] = "CheckedOut"]
  <2>1. b0 = NextFree(large) /\ CanCheckOut(large) /\ large' = CheckOut(large)
    BY <1>2, <1>4 DEF Block, Lasts, After
  <2> HIDE DEF b0
  <2>2. b0 \in Blocks
    BY <1>1, <2>1, CheckOutType
  <2> QED
    BY <1>1, <2>1, <2>2, CheckOutType DEF Ops
<1>5. PoolInv'
  <2>1. ASSUME ~stupid, NEW b \in Blocks
        PROVE  Out(large, b)' = At("recv", b)' /\ Out(small, b)' <= At("send", b)'
    <3>1. /\ At("send", b)' = At("send", b) + 0
          /\ At("recv", b)' = At("recv", b) + (IF b0 = b THEN 1 ELSE 0)
      BY <1>1, <1>2, <1>4, <2>1, PrepareAt
    <3>2. At("recv", b) \in Nat /\ At("send", b) \in Nat
      BY <1>1, AtType
    <3>3. Out(large, b) = At("recv", b) /\ Out(small, b) <= At("send", b)
      BY <1>1, <2>1 DEF PoolInv
    <3>4. Out(small, b)' = Out(small, b)
      BY <1>2 DEF Out
    <3>5. /\ Out(large, b)' = (IF b0 = b THEN 1 ELSE Out(large, b))
          /\ (b0 = b => Out(large, b) = 0)
      BY <1>1, <1>4, <2>1 DEF Out, Pools
    <3> HIDE DEF b0
    <3>6. Out(large, b)' = At("recv", b) + (IF b0 = b THEN 1 ELSE 0)
      BY <3>2, <3>3, <3>5
    <3> QED
      BY <3>1, <3>2, <3>3, <3>4, <3>6
  <2> QED
    BY <1>2, <2>1 DEF PoolInv
<1>6. OrderInv'
  <2> SUFFICES ASSUME InOrder'
               PROVE  /\ small.next_index = send_index % Capacity
                      /\ \E num : Numbered(in_kernel \o Append(sq, op), num, acknowledged,
                                          send_index)
    BY <1>2 DEF OrderInv
  <2>1. InOrder /\ ~stupid
    BY <1>2 DEF InOrder
  <2>2. small.next_index = send_index % Capacity
    BY <2>1 DEF BlocksInv, OrderInv
  <2>3. send_index \in Nat /\ acknowledged \in Nat
    BY <1>1, Numbers
  <2>4. PICK num : Numbered(in_kernel \o sq, num, acknowledged, send_index)
    BY <2>1 DEF BlocksInv, OrderInv
  <2> DEFINE ops == in_kernel \o sq
  <2>5. ops \in Seq(Ops) /\ op \in Ops /\ op.kind = "recv"
    BY <1>1, <1>4, <2>1, ConcatProperties DEF Rings
  <2>6. in_kernel \o Append(sq, op) = Append(ops, op)
    BY ONLY <1>1, <2>5, AppendBehind DEF Rings
  <2> HIDE DEF op, b0
  <2>7. Numbered(ops, num, acknowledged, send_index)
    BY <2>4
  <2> HIDE DEF ops
  <2>8. Numbered(Append(ops, op), Append(num, 0), acknowledged, send_index)
    <3>1. send_index <= send_index /\ 0 \in Nat
      BY <2>3
    <3> QED
      BY <2>3, <2>5, <2>7, <3>1, NumberedAppend
  <2> QED
    BY <2>2, <2>6, <2>8
<1> QED
  BY <1>3, <1>5, <1>6

LEMMA SubmitBlocks ==
  ASSUME BlocksInv, Submit
  PROVE  PoolInv' /\ OrderInv' /\ PoolsLast'
<1>1. CountsInv /\ Rings /\ PoolInv /\ OrderInv
  BY DEF BlocksInv, CountsInv, TypeOK, Rings
<1>2. /\ in_kernel' = in_kernel \o sq /\ sq' = <<>> /\ cqes' = cqes /\ phase' = "reap"
      /\ UNCHANGED <<stupid, small, large, send_index, acknowledged, short, overtaken>>
  BY DEF Submit, modeVars, indexVars, poolVars, netVars
<1>3. PoolsLast'
  BY <1>2 DEF PoolsLast
<1>4. PoolInv'
  <2>1. ASSUME ~stupid, NEW b \in Blocks
        PROVE  Out(large, b)' = At("recv", b)' /\ Out(small, b)' <= At("send", b)'
    <3>1. At("send", b)' = At("send", b) /\ At("recv", b)' = At("recv", b)
      BY <1>1, <1>2, SubmitAt
    <3>2. Out(large, b)' = Out(large, b) /\ Out(small, b)' = Out(small, b)
      BY <1>2 DEF Out
    <3> QED
      BY <1>1, <2>1, <3>1, <3>2 DEF PoolInv
  <2> QED
    BY <1>2, <2>1 DEF PoolInv
<1>5. OrderInv'
  <2>1. InOrder' => InOrder
    BY <1>2 DEF InOrder
  <2> DEFINE ops == in_kernel \o sq
  <2>2. ops \in Seq(Ops)
    BY <1>1, ConcatProperties DEF Rings
  <2> HIDE DEF ops
  <2>3. ops \o <<>> = ops
    BY <2>2, ConcatEmptySeq
  <2>4. in_kernel' \o sq' = in_kernel \o sq
    BY <1>2, <2>3 DEF ops
  <2> QED
    BY <1>1, <1>2, <2>1, <2>4 DEF OrderInv
<1> QED
  BY <1>3, <1>4, <1>5

LEMMA ReapBlocks ==
  ASSUME BlocksInv, Reap
  PROVE  PoolInv' /\ OrderInv' /\ PoolsLast'
<1> DEFINE cqe == Head(cqes)
<1>1. /\ CountsInv /\ TypeOK /\ RingInv /\ Rings /\ PoolInv /\ OrderInv
      /\ small \in Pools /\ large \in Pools
  BY DEF BlocksInv, CountsInv, TypeOK, Rings
<1>2. /\ cqes' = Tail(cqes) /\ phase' = phase /\ phase = "reap" /\ Posted /\ GiveBack(cqe)
      /\ UNCHANGED <<stupid, send_index, acknowledged, short, overtaken, sq, in_kernel>>
  BY DEF Reap, modeVars, netVars, Posted
<1>3. cqe \in Cqes /\ cqes' = <<>>
  BY <1>1, <1>2, Numbers
<1>4. cqe.block \in Blocks /\ cqe.kind \in {"send", "recv", "notif"}
  BY <1>3 DEF Cqes
<1>5. PoolsLast'
  BY <1>2 DEF PoolsLast
<1> DEFINE b0 == cqe.block
<1>6. ASSUME ~stupid
      PROVE  /\ small' = (IF cqe.kind = "recv" THEN small ELSE CheckIn(small, b0))
             /\ large' = (IF cqe.kind = "recv" THEN CheckIn(large, b0) ELSE large)
  BY <1>2, <1>6 DEF GiveBack
<1>7. PoolInv'
  <2>1. ASSUME ~stupid, NEW b \in Blocks
        PROVE  Out(large, b)' = At("recv", b)' /\ Out(small, b)' <= At("send", b)'
    <3> DEFINE r == Under(OfBlock("recv", b))
               s == Under(OfBlock("send", b))
    <3>1. r \in Nat /\ s \in Nat
      BY <1>1, AtType
    <3>2. At("recv", b)' = r + 0 /\ At("send", b)' = s + 0
      BY <1>2, <1>3 DEF At, Under, PostedAt, Posted
    <3>3. /\ At("recv", b) = r + (IF cqe.kind = "recv" /\ b0 = b THEN 1 ELSE 0)
          /\ At("send", b) = s + (IF cqe.kind = "send" /\ b0 = b THEN 1 ELSE 0)
      BY <1>2 DEF At, PostedAt
    <3> HIDE DEF r, s
    <3>4. Out(large, b) = At("recv", b) /\ Out(small, b) <= At("send", b)
      BY <1>1, <2>1 DEF PoolInv
    <3>5. Out(large, b) \in {0, 1} /\ Out(small, b) \in {0, 1}
      BY DEF Out
    <3>6. Out(large, b)' = IF cqe.kind = "recv" /\ b0 = b THEN 0 ELSE Out(large, b)
      <4>1. CheckIn(large, b0).state = [large.state EXCEPT ![b0] = "Free"]
        BY <1>1, <1>4, CheckInType
      <4> HIDE DEF b0
      <4>2. CASE cqe.kind = "recv"
        <5>1. large'.state[b] = IF b0 = b THEN "Free" ELSE large.state[b]
          BY <1>1, <1>6, <2>1, <4>1, <4>2 DEF Pools
        <5> QED
          BY <4>2, <5>1 DEF Out
      <4>3. CASE cqe.kind # "recv"
        BY <1>6, <2>1, <4>3 DEF Out
      <4> QED
        BY <4>2, <4>3
    <3>7. Out(small, b)' = IF cqe.kind # "recv" /\ b0 = b THEN 0 ELSE Out(small, b)
      <4>1. CheckIn(small, b0).state = [small.state EXCEPT ![b0] = "Free"]
        BY <1>1, <1>4, CheckInType
      <4> HIDE DEF b0
      <4>2. CASE cqe.kind # "recv"
        <5>1. small'.state[b] = IF b0 = b THEN "Free" ELSE small.state[b]
          BY <1>1, <1>6, <2>1, <4>1, <4>2 DEF Pools
        <5> QED
          BY <4>2, <5>1 DEF Out
      <4>3. CASE cqe.kind = "recv"
        BY <1>6, <2>1, <4>3 DEF Out
      <4> QED
        BY <4>2, <4>3
    <3> HIDE DEF b0, cqe
    <3>8. Out(large, b)' = r
      <4>1. CASE cqe.kind = "recv" /\ b0 = b
        BY <3>1, <3>3, <3>4, <3>5, <3>6, <4>1
      <4>2. CASE ~(cqe.kind = "recv" /\ b0 = b)
        BY <3>1, <3>3, <3>4, <3>5, <3>6, <4>2
      <4> QED
        BY <4>1, <4>2
    <3>9. Out(small, b)' <= s
      <4>1. CASE cqe.kind # "recv" /\ b0 = b
        BY <3>1, <3>7, <4>1
      <4>2. CASE ~(cqe.kind # "recv" /\ b0 = b)
        <5>1. Out(small, b)' = Out(small, b)
          BY <3>7, <4>2
        <5>2. At("send", b) = s + 0
          BY <3>3, <4>2
        <5>3. Out(small, b) <= s
          BY <3>1, <3>4, <3>5, <5>2
        <5> QED
          BY <5>1, <5>3
      <4> QED
        BY <4>1, <4>2
    <3>10. r + 0 = r /\ s + 0 = s
      BY <3>1
    <3> QED
      BY <3>2, <3>8, <3>9, <3>10
  <2> QED
    BY <1>2, <2>1 DEF PoolInv
<1>8. OrderInv'
  <2> SUFFICES ASSUME InOrder'
               PROVE  /\ small'.next_index = send_index % Capacity
                      /\ \E num : Numbered(in_kernel \o sq, num, acknowledged, send_index)
    BY <1>2 DEF OrderInv
  <2>1. InOrder /\ ~stupid
    BY <1>2 DEF InOrder
  <2>2. small'.next_index = small.next_index
    <3>1. CheckIn(small, b0).next_index = small.next_index
      BY <1>1, <1>4, CheckInType
    <3> QED
      BY <1>6, <2>1, <3>1
  <2> QED
    BY <1>1, <2>1, <2>2 DEF OrderInv
<1> QED
  BY <1>5, <1>7, <1>8

(* The numbers of what is left after a completion in order.                *)
LEMMA KernelKeepsOrder ==
  ASSUME BlocksInv, NEW n, KernelStep(n)
  PROVE  OrderInv'
<1> SUFFICES ASSUME InOrder' PROVE OrderInv'
  BY DEF OrderInv
<1>1. CountsInv
  BY DEF BlocksInv
<1>2. /\ TypeOK /\ RingInv /\ Rings /\ n \in DOMAIN in_kernel /\ in_kernel[n] \in Ops /\ sq = <<>>
      /\ UNCHANGED <<registered, stupid, send_index, small, sq>>
  BY <1>1, KernelLeaves
<1>3. send_index \in Nat /\ acknowledged \in Nat
  BY <1>2, Numbers
<1>4. in_kernel \o <<>> = in_kernel /\ DOMAIN in_kernel = 1 .. Len(in_kernel) /\ Len(in_kernel) \in Nat
  BY <1>2, ConcatEmptySeq, LenProperties DEF Rings
<1>5. ASSUME InOrder, NEW u, Numbered(in_kernel', u, acknowledged', send_index), in_kernel' \in Seq(Ops)
      PROVE  OrderInv'
  <2>1. small.next_index = send_index % Capacity
    BY <1>5 DEF BlocksInv, OrderInv
  <2> DEFINE k == in_kernel'
  <2>2. k \in Seq(Ops)
    BY <1>5
  <2> HIDE DEF k
  <2>3. k \o <<>> = k
    BY <2>2, ConcatEmptySeq
  <2>4. in_kernel' \o sq' = in_kernel'
    BY <1>2, <2>3 DEF k
  <2> QED
    BY <1>2, <1>5, <2>1, <2>4 DEF OrderInv
<1>6. ASSUME InOrder
      PROVE  \E num : Numbered(in_kernel, num, acknowledged, send_index)
  BY <1>2, <1>4, <1>6 DEF BlocksInv, OrderInv
<1>7. ASSUME InOrder, in_kernel' = RemoveAt(in_kernel, n), NEW num, NEW low,
             Numbered(in_kernel, num, acknowledged, send_index), acknowledged' = low,
             \A at \in 1 .. Len(in_kernel) : at # n /\ in_kernel[at].kind # "recv" => low <= num[at]
      PROVE  OrderInv'
  <2>1. /\ Numbered(RemoveAt(in_kernel, n), RemoveAt(num, n), low, send_index)
        /\ RemoveAt(in_kernel, n) \in Seq(Ops)
    BY <1>2, <1>7, NumberedRemove DEF Rings
  <2> QED
    BY <1>5, <1>7, <2>1
<1> DEFINE Follows(num) ==
      /\ num \in Seq(Nat) /\ Len(num) = Len(in_kernel)
      /\ \A at \in 1 .. Len(in_kernel) :
           /\ num[at] \in Nat
           /\ (in_kernel[at].kind # "recv" => acknowledged <= num[at] /\ num[at] < send_index
                                          /\ in_kernel[at].block = num[at] % Capacity)
      /\ \A at, j \in 1 .. Len(in_kernel) :
           /\ (in_kernel[at].kind = "notif" /\ in_kernel[j].kind = "send" => num[at] < num[j])
           /\ (at < j /\ in_kernel[at].kind = in_kernel[j].kind /\ in_kernel[j].kind # "recv"
                 => num[at] < num[j])
<1>8. ASSUME NEW num, Numbered(in_kernel, num, acknowledged, send_index)
      PROVE  Follows(num)
  <2>1. num \in Seq(Nat) /\ Len(num) = Len(in_kernel)
    BY <1>8 DEF Numbered
  <2>2. ASSUME NEW at \in 1 .. Len(in_kernel) PROVE num[at] \in Nat
    BY <2>1, ElementOfSeq
  <2> QED
    BY <1>8, <2>1, <2>2 DEF Numbered
<1>9. \A at \in 1 .. Len(in_kernel) : in_kernel[at].kind \in {"send", "recv", "notif"}
  <2>1. ASSUME NEW at \in 1 .. Len(in_kernel) PROVE in_kernel[at] \in Ops
    BY <1>2, ElementOfSeq DEF Rings
  <2> QED
    BY <2>1 DEF Ops
<1>10. n \in 1 .. Len(in_kernel)
  BY <1>2, <1>4
<1>11. CASE SendCompletes(n)
  <2>1. InOrder /\ \A k \in 1 .. n - 1 : in_kernel[k].kind # "send"
    BY <1>2, <1>11 DEF SendCompletes, InOrder
  <2>2. PICK num : Numbered(in_kernel, num, acknowledged, send_index)
    BY <1>6, <2>1
  <2>3. Follows(num)
    BY <1>8, <2>2
  <2>4. in_kernel[n].kind = "send"
    BY <1>11 DEF SendCompletes
  <2>5. ASSUME NEW at \in 1 .. Len(in_kernel), at # n, in_kernel[at].kind = "send"
        PROVE  num[n] < num[at]
    <3>1. n < at
      BY <1>4, <1>10, <2>1, <2>5
    <3> QED
      BY <1>10, <2>3, <2>4, <2>5, <3>1
  <2>6. CASE ~registered
    <3>1. in_kernel' = RemoveAt(in_kernel, n) /\ acknowledged' = acknowledged + 1
      <4>1. RemoveAt(in_kernel, n) \in Seq(Ops)
        BY <1>2, RemovedAt DEF Rings
      <4> DEFINE rest == RemoveAt(in_kernel, n)
      <4> HIDE DEF rest
      <4>2. rest \o <<>> = rest
        BY <4>1, ConcatEmptySeq DEF rest
      <4> QED
        BY <1>11, <2>6, <4>2 DEF SendCompletes, rest
    <3>2. ASSUME NEW at \in 1 .. Len(in_kernel), at # n, in_kernel[at].kind # "recv"
          PROVE  acknowledged + 1 <= num[at]
      <4>1. in_kernel[at].kind = "send"
        BY <1>2, <1>4, <1>9, <2>6, <3>2 DEF RingInv
      <4>2. num[n] < num[at] /\ acknowledged <= num[n] /\ num[at] \in Nat /\ num[n] \in Nat
        BY <1>10, <2>3, <2>4, <2>5, <3>2, <4>1
      <4> QED
        BY <1>3, <4>2
    <3> QED
      BY <1>7, <2>1, <2>2, <3>1, <3>2
  <2>7. CASE registered
    <3> DEFINE notif == [kind |-> "notif", block |-> in_kernel[n].block]
               rest == RemoveAt(in_kernel, n)
               restnum == RemoveAt(num, n)
    <3>1. in_kernel' = rest \o <<notif>> /\ acknowledged' = acknowledged
      BY <1>11, <2>7 DEF SendCompletes
    <3>2. notif \in Ops /\ notif.kind = "notif" /\ notif.block = in_kernel[n].block
      BY <1>2 DEF Ops
    <3>3. \A at \in 1 .. Len(in_kernel) : at # n /\ in_kernel[at].kind # "recv" => acknowledged <= num[at]
      BY <2>3
    <3>4. /\ Numbered(rest, restnum, acknowledged, send_index) /\ rest \in Seq(Ops)
          /\ \A at \in 1 .. Len(rest) :
               \E j \in 1 .. Len(in_kernel) :
                 j # n /\ rest[at] = in_kernel[j] /\ restnum[at] = num[j]
      <4>1. in_kernel \in Seq(Ops) /\ n \in DOMAIN in_kernel
        BY <1>2 DEF Rings
      <4> QED
        <5>1. Numbered(rest, restnum, acknowledged, send_index) /\ rest \in Seq(Ops)
          BY ONLY <2>2, <3>3, <4>1, NumberedRemove
        <5>2. ASSUME NEW at \in 1 .. Len(rest)
              PROVE  \E j \in 1 .. Len(in_kernel) :
                       j # n /\ rest[at] = in_kernel[j] /\ restnum[at] = num[j]
          <6>1. /\ Len(in_kernel) \in Nat \ {0} /\ n \in 1 .. Len(in_kernel)
                /\ DOMAIN in_kernel = 1 .. Len(in_kernel)
            BY ONLY <4>1, RemovedAt, LenProperties
          <6>2. /\ Len(rest) = Len(in_kernel) - 1
                /\ \A k \in 1 .. Len(in_kernel) - 1 : rest[k] = in_kernel[IF k < n THEN k ELSE k + 1]
            BY ONLY <4>1, RemovedAt DEF rest
          <6>3. \A k \in 1 .. Len(in_kernel) - 1 : restnum[k] = num[IF k < n THEN k ELSE k + 1]
            <7>1. num \in Seq(Nat) /\ Len(num) = Len(in_kernel) /\ n \in DOMAIN num
              BY <2>3, <6>1, LenProperties
            <7>2. \A k \in 1 .. Len(num) - 1 : restnum[k] = num[IF k < n THEN k ELSE k + 1]
              BY ONLY <7>1, RemovedAt DEF restnum
            <7> QED
              BY ONLY <7>1, <7>2
          <6> HIDE DEF rest, restnum
          <6>4. at \in 1 .. Len(in_kernel) - 1
            BY ONLY <5>2, <6>2
          <6> DEFINE j == IF at < n THEN at ELSE at + 1
          <6>5. j \in 1 .. Len(in_kernel) /\ j # n
            BY ONLY <6>1, <6>4
          <6> QED
            BY ONLY <6>2, <6>3, <6>4, <6>5
        <5> QED
          BY <5>1, <5>2
    <3>5. /\ num[n] \in Nat /\ acknowledged <= num[n] /\ num[n] < send_index
          /\ in_kernel[n].block = num[n] % Capacity
      BY <1>10, <2>3, <2>4
    <3> HIDE DEF rest, restnum, notif
    <3>6. ASSUME NEW at \in 1 .. Len(rest)
          PROVE  /\ (rest[at].kind = "notif" => restnum[at] < num[n])
                 /\ (rest[at].kind = "send" => num[n] < restnum[at])
      <4>1. PICK j \in 1 .. Len(in_kernel) : j # n /\ rest[at] = in_kernel[j] /\ restnum[at] = num[j]
        BY <3>4
      <4>2. in_kernel[j].kind = "send" => num[n] < num[j]
        BY <2>5, <4>1
      <4>3. in_kernel[j].kind = "notif" => num[j] < num[n]
        BY <1>10, <2>3, <2>4
      <4> QED
        BY <4>1, <4>2, <4>3
    <3>7. Numbered(Append(rest, notif), Append(restnum, num[n]), acknowledged, send_index)
      <4>1. send_index <= send_index
        BY <1>3
      <4> QED
        BY <1>3, <3>2, <3>4, <3>5, <3>6, <4>1, NumberedAppend
    <3>8. in_kernel' = Append(rest, notif) /\ in_kernel' \in Seq(Ops)
      <4>1. Append(rest, notif) = rest \o <<notif>> /\ Append(rest, notif) \in Seq(Ops)
        BY <3>2, <3>4, AppendIsConcat, AppendProperties
      <4> QED
        BY <3>1, <4>1
    <3> QED
      BY <1>5, <2>1, <3>1, <3>7, <3>8
  <2> QED
    BY <2>6, <2>7
<1>12. CASE Notification(n)
  <2>1. /\ InOrder /\ in_kernel[n].kind = "notif" /\ in_kernel' = RemoveAt(in_kernel, n)
        /\ acknowledged' = acknowledged + 1
        /\ \A k \in 1 .. n - 1 : in_kernel[k].kind # "notif"
    BY <1>2, <1>12 DEF Notification, InOrder
  <2>2. PICK num : Numbered(in_kernel, num, acknowledged, send_index)
    BY <1>6, <2>1
  <2>3. Follows(num)
    BY <1>8, <2>2
  <2>4. ASSUME NEW at \in 1 .. Len(in_kernel), at # n, in_kernel[at].kind # "recv"
        PROVE  acknowledged + 1 <= num[at]
    <3>1. num[n] < num[at]
      <4>1. CASE in_kernel[at].kind = "send"
        BY <1>10, <2>1, <2>3, <4>1
      <4>2. CASE in_kernel[at].kind = "notif"
        <5>1. n < at
          BY <1>4, <1>10, <2>1, <2>4, <4>2
        <5> QED
          BY <1>10, <2>1, <2>3, <4>2, <5>1
      <4> QED
        BY <1>9, <2>4, <4>1, <4>2
    <3>2. acknowledged <= num[n] /\ num[at] \in Nat /\ num[n] \in Nat
      BY <1>10, <2>1, <2>3
    <3> QED
      BY <1>3, <3>1, <3>2
  <2> QED
    BY <1>7, <2>1, <2>2, <2>4
<1>13. CASE RecvCompletes(n)
  <2>1. InOrder /\ in_kernel' = RemoveAt(in_kernel, n) /\ acknowledged' = acknowledged
    <3>1. PICK ints \in 1 .. PageSize : short' = (short \/ ints < PageSize)
      BY <1>13 DEF RecvCompletes
    <3> QED
      BY <1>2, <1>13, <3>1 DEF RecvCompletes, InOrder
  <2>2. PICK num : Numbered(in_kernel, num, acknowledged, send_index)
    BY <1>6, <2>1
  <2>3. \A at \in 1 .. Len(in_kernel) : at # n /\ in_kernel[at].kind # "recv" => acknowledged <= num[at]
    BY <1>8, <2>2
  <2> QED
    BY <1>7, <2>1, <2>2, <2>3
<1>14. CASE CompletesClosed(n)
  BY <1>14 DEF CompletesClosed, InOrder
<1> QED
  BY <1>11, <1>12, <1>13, <1>14 DEF KernelStep, Completes

LEMMA KernelBlocks ==
  ASSUME BlocksInv, NEW n, KernelStep(n)
  PROVE  PoolInv' /\ OrderInv' /\ PoolsLast'
<1>1. CountsInv /\ PoolInv
  BY DEF BlocksInv
<1>2. phase = "reap" /\ UNCHANGED <<stupid, phase, small, large>>
  BY <1>1, KernelLeaves
<1>3. PoolInv'
  <2>1. ASSUME ~stupid, NEW b \in Blocks
        PROVE  Out(large, b)' = At("recv", b)' /\ Out(small, b)' <= At("send", b)'
    <3>1. At("send", b)' = At("send", b) /\ At("recv", b)' = At("recv", b)
      BY <1>1, CompleteAt
    <3>2. Out(large, b)' = Out(large, b) /\ Out(small, b)' = Out(small, b)
      BY <1>2 DEF Out
    <3> QED
      BY <1>1, <2>1, <3>1, <3>2 DEF PoolInv
  <2> QED
    BY <1>2, <2>1 DEF PoolInv
<1>4. PoolsLast'
  BY <1>2 DEF PoolsLast
<1> QED
  BY <1>3, <1>4, KernelKeepsOrder

(* A pool of Window blocks is not exhausted while pages arrive whole: the  *)
(* windows let no Window operations of one kind under way at once.         *)
LEMMA NotExhausted ==
  ASSUME BlocksInv, OutOfBlocks
  PROVE  short \/ Capacity < Window
<1> SUFFICES ASSUME ~short, ~(Capacity < Window) PROVE FALSE
  OBVIOUS
<1>1. CountsInv /\ TypeOK /\ RingInv /\ Windows /\ Rings /\ PoolInv
  BY DEF BlocksInv, CountsInv, TypeOK, Rings
<1>2. ~stupid /\ phase \in {"send", "recv"} /\ (~Sending => Receiving)
      /\ (Sending => ~CanCheckOut(small)) /\ (~Sending => ~CanCheckOut(large))
  BY DEF OutOfBlocks, Lasts, Sending, Receiving
<1>3. cqes = <<>>
  BY <1>1, <1>2 DEF RingInv
<1>4. ASSUME NEW kind, \A b \in Blocks : At(kind, b) >= 1
      PROVE  Capacity <= Under(OfKind(kind))
  <2> DEFINE ops == in_kernel \o sq
  <2>1. /\ ops \in Seq(Ops) /\ DOMAIN ops = 1 .. Len(ops)
        /\ \A T : Count(ops, T) = Count(in_kernel, T) + Count(sq, T)
    BY <1>1, ConcatProperties, LenProperties, CountConcat DEF Rings
  <2> HIDE DEF ops
  <2>2. ASSUME NEW b \in Blocks
        PROVE  \E at \in DOMAIN ops : ops[at] \in OfBlock(kind, b)
    <3>1. Count(ops, OfBlock(kind, b)) >= 1
      <4>1. PostedAt(kind, b) = 0
        BY <1>3 DEF PostedAt, Posted
      <4>2. Under(OfBlock(kind, b)) \in Nat
        BY <1>1, AtType
      <4>3. Under(OfBlock(kind, b)) >= 1
        BY <1>4, <4>1, <4>2 DEF At
      <4> QED
        BY <2>1, <4>3 DEF Under
    <3> QED
      BY ONLY <2>1, <3>1, CountedSomewhere
  <2>3. Capacity <= Count(ops, OfKind(kind))
    BY ONLY <2>1, <2>2, EveryBlockTaken
  <2> QED
    BY <2>1, <2>3 DEF Under
<1>5. /\ send_index \in Nat /\ recv_index \in Nat /\ iterations_received \in Nat
      /\ SendsUnder \in Nat /\ RecvsUnder \in Nat /\ Capacity \in Nat
      /\ RingSize \div 4 \in Nat /\ RingSize \div 2 \in Nat
      /\ Window = RingSize \div 4 + RingSize \div 2
  BY <1>1, Numbers, CapacityAssumption, SimpleIouClientAssumption DEF Window
<1>6. /\ SendsUnder <= (send_index - recv_index) + (recv_index - iterations_received)
      /\ RecvsUnder <= recv_index - iterations_received
      /\ recv_index - iterations_received <= RingSize \div 2
  BY <1>1, <1>2, Lag DEF Windows
<1>7. CASE Sending
  <2>1. ASSUME NEW b \in Blocks PROVE At("send", b) >= 1
    <3>1. small.state[b] = "CheckedOut"
      BY <1>1, <1>2, <1>7 DEF TypeOK, Pools, BufferStates, CanCheckOut, FreeBlocks
    <3>2. 1 <= At("send", b) /\ At("send", b) \in Nat
      BY <1>1, <1>2, <3>1, AtType DEF PoolInv, Out
    <3> QED
      BY <3>2
  <2>2. Capacity <= SendsUnder
    BY <1>4, <2>1 DEF SendsUnder
  <2>3. send_index - recv_index < RingSize \div 4
    BY <1>7 DEF Sending, MoreToSend
  <2> QED
    BY <1>5, <1>6, <2>2, <2>3
<1>8. CASE ~Sending
  <2>1. ASSUME NEW b \in Blocks PROVE At("recv", b) >= 1
    <3>1. large.state[b] = "CheckedOut"
      BY <1>1, <1>2, <1>8 DEF TypeOK, Pools, BufferStates, CanCheckOut, FreeBlocks
    <3>2. 1 = At("recv", b)
      BY <1>1, <1>2, <3>1 DEF PoolInv, Out
    <3> QED
      BY <3>2
  <2>2. Capacity <= RecvsUnder
    BY <1>4, <2>1 DEF RecvsUnder
  <2>3. recv_index - iterations_received < RingSize \div 2
    BY <1>2, <1>8 DEF Receiving, MoreToRecv
  <2> QED
    BY <1>5, <1>6, <2>2, <2>3
<1> QED
  BY <1>7, <1>8

(* A step that only moves the thread on, or closes the connection.         *)
LEMMA ThreadMovesBlocks ==
  ASSUME BlocksInv,
         OutOfBlocks \/ Fail \/ EndPass \/ ServerCloses \/ Terminated \/ UNCHANGED vars
  PROVE  PoolInv' /\ OrderInv' /\ PoolsLast'
<1>1. PoolInv /\ OrderInv /\ PoolsLast
  BY DEF BlocksInv
<1>2. UNCHANGED <<stupid, send_index, small, large, sq, in_kernel, cqes, acknowledged, short, overtaken>>
  BY DEF OutOfBlocks, Fail, EndPass, ServerCloses, Terminated, vars, modeVars, indexVars,
         poolVars, ringVars, netVars
<1>3. PoolsLast'
  <2>1. CASE OutOfBlocks
    BY <1>2, <2>1, NotExhausted DEF PoolsLast
  <2>2. CASE Fail \/ EndPass
    BY <2>2 DEF Fail, EndPass, PoolsLast
  <2>3. CASE ServerCloses \/ Terminated \/ UNCHANGED vars
    BY <1>1, <1>2, <2>3 DEF ServerCloses, Terminated, vars, PoolsLast
  <2> QED
    BY <2>1, <2>2, <2>3
<1>4. PoolInv'
  <2>1. ASSUME NEW b \in Blocks, NEW kind PROVE At(kind, b)' = At(kind, b)
    BY <1>2 DEF At, Under, PostedAt, Posted
  <2>2. ASSUME NEW b \in Blocks
        PROVE  Out(large, b)' = Out(large, b) /\ Out(small, b)' = Out(small, b)
    BY <1>2 DEF Out
  <2> QED
    BY <1>1, <1>2, <2>1, <2>2 DEF PoolInv
<1>5. OrderInv'
  BY <1>1, <1>2 DEF OrderInv, InOrder
<1> QED
  BY <1>3, <1>4, <1>5

LEMMA NextKeepsBlocks ==
  ASSUME BlocksInv, [Next]_vars
  PROVE  BlocksInv'
<1>1. CountsInv'
  BY NextKeepsCounts DEF BlocksInv
<1>2. PoolInv' /\ OrderInv' /\ PoolsLast'
  <2>1. CASE PrepareSend
    BY <2>1, PrepareSendBlocks
  <2>2. CASE PrepareRecv
    BY <2>2, PrepareRecvBlocks
  <2>3. CASE Submit
    BY <2>3, SubmitBlocks
  <2>4. CASE Reap
    BY <2>4, ReapBlocks
  <2>5. CASE Kernel
    <3>1. PICK n : KernelStep(n)
      BY <2>5 DEF Kernel, KernelStep
    <3> QED
      BY <3>1, KernelBlocks
  <2>6. CASE OutOfBlocks \/ Fail \/ EndPass \/ ServerCloses \/ Terminated \/ UNCHANGED vars
    BY <2>6, ThreadMovesBlocks
  <2> QED
    BY <2>1, <2>2, <2>3, <2>4, <2>5, <2>6 DEF Next, Thread
<1> QED
  BY <1>1, <1>2 DEF BlocksInv

(* What the invariant says of two operations that name one block.          *)
LEMMA BlocksApart ==
  ASSUME BlocksInv
  PROVE  NotReusedEarly
<1> DEFINE ops == sq \o in_kernel
<1> SUFFICES ASSUME InOrder, NEW m \in DOMAIN ops, NEW n \in DOMAIN ops, m # n,
                    ops[m].block = ops[n].block
             PROVE  (ops[m].kind = "recv") # (ops[n].kind = "recv")
  BY DEF NotReusedEarly, InOrder
<1>1. CountsInv /\ TypeOK /\ Rings /\ PoolInv /\ OrderInv /\ ~stupid /\ ~short
      /\ Capacity >= Window
  BY DEF BlocksInv, CountsInv, TypeOK, Rings, InOrder
<1>2. /\ ops \in Seq(Ops)
      /\ \A T : Count(ops, T) = Count(sq, T) + Count(in_kernel, T)
  BY <1>1, ConcatProperties, CountConcat DEF Rings
<1>3. ASSUME NEW T PROVE Count(ops, T) = Under(T)
  <2>1. Count(ops, T) = Count(sq, T) + Count(in_kernel, T)
    BY <1>2
  <2>2. Count(sq, T) \in Nat /\ Count(in_kernel, T) \in Nat
    BY <1>1, CountType DEF Rings
  <2> HIDE DEF ops
  <2> QED
    BY <2>1, <2>2 DEF Under
<1> HIDE DEF ops
<1>4. ops[m] \in Ops /\ ops[n] \in Ops
  BY <1>2, LenProperties, ElementOfSeq
<1> DEFINE b == ops[m].block
<1>5. b \in Blocks /\ b = ops[n].block
  BY <1>4 DEF Ops
<1> HIDE DEF b
<1>6. ASSUME NEW T, Count(ops, T) <= 1, ops[m] \in T, ops[n] \in T PROVE FALSE
  BY <1>2, <1>6, CountAtMostOne
<1>7. ASSUME ops[m].kind = "recv", ops[n].kind = "recv" PROVE FALSE
  <2>1. ops[m] \in OfBlock("recv", b) /\ ops[n] \in OfBlock("recv", b)
    BY <1>4, <1>5, <1>7 DEF OfBlock, b
  <2>2. Out(large, b) = At("recv", b) /\ Out(large, b) <= 1
    BY <1>1, <1>5 DEF PoolInv, Out
  <2>3. Under(OfBlock("recv", b)) <= 1
    BY <1>1, <2>2, AtType DEF At
  <2> QED
    BY <1>3, <1>6, <2>1, <2>3
<1>8. ASSUME ops[m].kind # "recv", ops[n].kind # "recv" PROVE FALSE
  <2> DEFINE T == {op \in Ops : op.kind # "recv" /\ op.block = b}
             rest == in_kernel \o sq
  <2>1. ops[m] \in T /\ ops[n] \in T
    BY <1>4, <1>5, <1>8 DEF b
  <2>2. rest \in Seq(Ops) /\ Count(rest, T) = Under(T) /\ DOMAIN rest = 1 .. Len(rest)
    BY <1>1, ConcatProperties, CountConcat, LenProperties DEF Rings, Under
  <2>3. PICK num : Numbered(rest, num, acknowledged, send_index)
    BY <1>1 DEF OrderInv
  <2>4. acknowledged \in Nat /\ send_index \in Nat /\ send_index - acknowledged <= Capacity
    <3>1. acknowledged \in Nat /\ send_index \in Nat
      BY <1>1, Numbers DEF CountsInv
    <3>2. send_index - acknowledged <= Window /\ Window \in Nat
      BY <1>1, Lag
    <3> QED
      BY <1>1, <3>1, <3>2, CapacityAssumption
  <2> HIDE DEF rest
  <2>5. ASSUME NEW at \in DOMAIN rest, NEW j \in DOMAIN rest, rest[at] \in T, rest[j] \in T
        PROVE  at = j
    BY ONLY <2>2, <2>3, <2>4, <2>5, NumberedBlocksDiffer
  <2> HIDE DEF T
  <2>6. Count(rest, T) <= 1
    BY ONLY <2>2, <2>5, CountAtMostOne
  <2> QED
    BY <1>3, <1>6, <2>1, <2>2, <2>6
<1> QED
  BY <1>7, <1>8

(* As long as every receive is a whole page, a pool of Window blocks is    *)
(* never exhausted (check_out would throw, buffer_pool.hpp:145), and if    *)
(* requests go out in order too no block is handed out while the kernel    *)
(* still reads it, although the first completion of a send_zc checks it in *)
(* (simple_iou_client.cpp:250).                                            *)
THEOREM BlocksSufficeAlways == Spec => []BlocksSuffice
<1>1. Init => BlocksInv
  BY InitBlocks
<1>2. BlocksInv /\ [Next]_vars => BlocksInv'
  BY NextKeepsBlocks
<1>3. BlocksInv => BlocksSuffice
  BY BlocksApart DEF BlocksInv, CountsInv, BlocksSuffice
<1> QED
  BY <1>1, <1>2, <1>3, PTL DEF Spec

(***************************************************************************)
(* get_page: a step of Programs is one of its own.                         *)
(***************************************************************************)

LEMMA Dispatch ==
  ASSUME [ProgramNext]_programs
  PROVE  /\ program' = program
         /\ program = "pages" => [Pages!Next]_(Pages!getpage)
         /\ program = "batches" => [Batches!Next]_(Batches!getpageiou)
<1>1. KeepUnused => program' = program
  BY DEF KeepUnused
<1>2. CASE UNCHANGED programs
  BY <1>2 DEF programs
<1>3. CASE ProgramNext
  BY <1>1, <1>3 DEF ProgramNext, SetupStep, ServeStep, MaxStep, PairStep, PagesStep, BatchesStep,
       FramesStep, FuturesStep, TasksStep, RunStep
<1> QED
  BY <1>2, <1>3

LEMMA InitOf ==
  ASSUME ProgramInit
  PROVE  /\ program = "pages" => Pages!Init
         /\ program = "batches" => Batches!Init
BY DEF ProgramInit

(***************************************************************************)
(* The get_page client and server (GetPage): at most one request or its    *)
(* answer is on the connection or partly read.                             *)
(***************************************************************************)

Values(f) == \A key \in DOMAIN f : f[key] \in Int

LEMMA ConfigTypes ==
  ASSUME NEW file, NEW environment, Values(file), Values(environment),
         NEW c, c = Pages!load_config(file, environment)
  PROVE  /\ c.throws \in BOOLEAN
         /\ ~c.throws => c.config.NUM_REQUESTS \in Nat \ {0} /\ c.config.PAGE_COUNT \in Nat
<1> DEFINE lines == Pages!parse_env_line(file)
           conf == [key \in DOMAIN Pages!Default |->
                      Pages!get_env_var(environment, key,
                                        Pages!get_env_var(lines, key, Pages!Default[key]))]
           taken == [conf EXCEPT !.PORT = Pages!in_port_t(@)]
<1>1. c = IF \/ \E key \in DOMAIN lines : lines[key] < 0
             \/ \E key \in DOMAIN Pages!Default : conf[key] < 0
             \/ taken.PORT = 0 \/ taken.NUM_REQUESTS = 0
          THEN [throws |-> TRUE]
          ELSE [throws |-> FALSE, config |-> taken]
  BY DEF Pages!load_config
<1>2. Values(lines)
  BY DEF Values, Pages!parse_env_line
<1>3. /\ \A key \in DOMAIN Pages!Default : Pages!Default[key] \in Int
      /\ DOMAIN Pages!Default = {"PORT", "NUM_REQUESTS", "PAGE_COUNT", "CLIENT_THREADS"}
  BY DEF Pages!Default
<1> HIDE DEF lines
<1>4. \A key \in DOMAIN Pages!Default : conf[key] \in Int
  BY <1>2, <1>3 DEF Values, Pages!get_env_var
<1>5. conf["NUM_REQUESTS"] \in Int /\ conf["PAGE_COUNT"] \in Int
      /\ taken.NUM_REQUESTS = conf["NUM_REQUESTS"] /\ taken.PAGE_COUNT = conf["PAGE_COUNT"]
  BY <1>3, <1>4
<1> HIDE DEF conf, taken
<1>6. c.throws \in BOOLEAN
  BY <1>1
<1>7. ~c.throws => /\ ~(conf["NUM_REQUESTS"] < 0) /\ ~(conf["PAGE_COUNT"] < 0)
                   /\ ~(taken.NUM_REQUESTS = 0) /\ c.config = taken
  BY <1>1, <1>3
<1> QED
  BY <1>5, <1>6, <1>7

(* A word of two digits.                                                   *)
Word == 0 .. Pages!Digits * Pages!Digits - 1

(* Swapping a word's digits twice changes nothing.                         *)
LEMMA SwappedTwice == \A w \in Word : Pages!ntohl(Pages!htonl(w)) = w
<1> SUFFICES ASSUME NEW w \in Word
             PROVE  Pages!ntohl(Pages!htonl(w)) = w
  OBVIOUS
<1> DEFINE q == w \div 4
           m == w % 4
           v == m * 4 + q
<1>1. q \in 0 .. 3 /\ m \in 0 .. 3 /\ w = 4 * q + m
  BY DEF Word, Pages!Digits
<1>2. Pages!htonl(w) = v /\ Pages!ntohl(v) = (v % 4) * 4 + v \div 4
  BY DEF Pages!htonl, Pages!ntohl, Pages!Digits
<1> HIDE DEF q, m
<1>3. v % 4 = q /\ v \div 4 = m
  BY <1>1
<1> HIDE DEF v
<1> QED
  BY <1>1, <1>2, <1>3

LEMMA Remainder ==
  ASSUME NEW k \in Nat, NEW p \in Nat \ {0}
  PROVE  k % p \in Nat /\ k % p < p /\ k % p <= k
<1>1. k % p \in 0 .. p - 1 /\ k \div p \in Nat
  BY Residue
<1>2. k = p * (k \div p) + (k % p)
  BY Residue
<1> DEFINE d == k \div p
<1>3. p * d \in Nat
  BY <1>1
<1> QED
  BY <1>1, <1>2, <1>3

LEMMA OrdersCancel ==
  ASSUME NEW id \in Word, NEW page \in Word
  PROVE  LET host == Pages!to_host_order(Pages!to_network_order(Pages!GetPageRequest(id, page)))
         IN  host.request_id = id /\ host.page_number = page
BY SwappedTwice DEF Pages!to_host_order, Pages!to_network_order, Pages!GetPageRequest

(* The request with the id k, its answer, and whether the server has the   *)
(* page.                                                                   *)
Question(k) == Pages!to_network_order(Pages!GetPageRequest(k, k % Pages!page_count))
AnswerTo(k) == Pages!GetPageResponse(Question(k), server_config.config.PAGE_COUNT)
Known(k) == k % Pages!page_count < server_config.config.PAGE_COUNT

LEMMA AnswerIsOwn ==
  ASSUME NEW k \in Word, k % Pages!page_count \in Word
  PROVE  /\ Pages!to_host_order(AnswerTo(k).header).request_id = k
         /\ Pages!to_host_order(AnswerTo(k).header).page_number = k % Pages!page_count
         /\ Pages!to_host_order(AnswerTo(k).header).status = Pages!SUCCESS <=> Known(k)
         /\ AnswerTo(k).content = Pages!get_value_at(k % Pages!page_count) <=> Known(k)
<1> DEFINE page == k % Pages!page_count
           host == Pages!to_host_order(Question(k))
           status == IF Known(k) THEN Pages!SUCCESS ELSE Pages!INVALID_PAGE_NUMBER
           plain == [request_id |-> k, page_number |-> page, status |-> status]
<1>1. host.request_id = k /\ host.page_number = page
  BY OrdersCancel DEF Question
<1>2. AnswerTo(k) = [header |-> Pages!to_network_order(plain),
                     content |-> IF Known(k) THEN "AA" ELSE "FA"]
  BY <1>1 DEF AnswerTo, Pages!GetPageResponse, Pages!PageOf, Known
<1>3. status \in Word /\ (status = Pages!SUCCESS <=> Known(k))
  BY DEF Word, Pages!Digits, Pages!SUCCESS, Pages!INVALID_PAGE_NUMBER
<1> HIDE DEF status, page
<1>4. LET h == Pages!to_host_order(Pages!to_network_order(plain))
      IN  h.request_id = k /\ h.page_number = page /\ h.status = status
  BY <1>3, SwappedTwice DEF page, Pages!to_host_order, Pages!to_network_order
<1> HIDE DEF plain
<1>5. AnswerTo(k).header = Pages!to_network_order(plain)
      /\ AnswerTo(k).content = IF Known(k) THEN "AA" ELSE "FA"
  BY <1>2
<1> QED
  BY <1>3, <1>4, <1>5 DEF page, Pages!get_value_at

(* A response of which part may have been read, and the part not read yet: *)
(* whole, or cut short by a reset.                                         *)
Pieces(answer) == Pages!ResponsePieces(answer)
WholeAnswer(answer) ==
  {<< <<>>, Pieces(answer)>>, << << <<1, answer>> >>, << <<2, answer>> >> >>}
CutAnswer(answer) ==
  {<< <<>>, <<>> >>, << <<>>, << <<1, answer>> >> >>, << << <<1, answer>> >>, <<>> >>}

PagesTypes ==
  /\ pc \in {"load_config", "connect", "send", "read", "check", "returned", "failed", "threw",
             "killed"}
  /\ conn \in {"none", "queued", "open", "client closed", "server closed", "reset", "broken",
               "dead"}
  /\ i \in Nat /\ correct \in Nat /\ incorrect \in Nat /\ unsent \in Nat /\ lost \in Nat
  /\ client_config.throws \in BOOLEAN /\ server_config.throws \in BOOLEAN
  /\ ~client_config.throws =>
       /\ Pages!num_requests \in Nat \ {0} /\ Pages!page_count \in Nat
       /\ Pages!num_requests <= Pages!Digits * Pages!Digits
  /\ ~server_config.throws => server_config.config.PAGE_COUNT \in Nat

(* Where the server is, and what a connection depends on.                  *)
PagesServer ==
  /\ conn = "queued" => thread = "none"
  /\ conn = "none" /\ process = "accept" => thread = "none"
  /\ thread = "handle_client" => conn # "none"
  /\ server_config.throws => process = "exited"
  /\ conn # "none" => ~client_config.throws /\ ~server_config.throws
  /\ client_config.throws => pc \in {"load_config", "threw"}
  /\ pc \in {"load_config", "connect", "failed", "threw"} => conn = "none"
  /\ pc \in {"send", "read", "check", "returned", "killed"} => conn # "none"
  /\ conn = "client closed" => pc = "returned"
  /\ pc \in {"read", "check"} => i < Pages!num_requests /\ Pages!page_count > 0

(* What is on the connection.                                              *)
PagesExchange ==
  /\ pc # "read" => up = <<>> /\ down = <<>>
  /\ pc = "check" => response = Pieces(AnswerTo(i))
  /\ pc = "read" =>
       \/ /\ up = Pages!RequestPieces(Question(i)) /\ down = <<>> /\ response = <<>>
          /\ conn \in {"queued", "open"}
       \/ up = <<>> /\ <<response, down>> \in WholeAnswer(AnswerTo(i))
       \/ /\ up = <<>> /\ <<response, down>> \in CutAnswer(AnswerTo(i))
          /\ conn \notin {"queued", "open"}

PagesReport ==
  /\ pc \in {"load_config", "connect"} =>
       i = 0 /\ correct = 0 /\ incorrect = 0 /\ unsent = 0 /\ lost = 0
  /\ pc \in {"send", "read", "check", "returned", "killed"} =>
       /\ correct + incorrect + unsent + lost = i
       /\ i <= Pages!num_requests
       /\ unsent + lost = 0 => correct = Cardinality({k \in 0 .. i - 1 : Known(k)})
  /\ pc = "returned" => i = Pages!num_requests

PagesLost ==
  /\ conn = "dead" => unsent + lost > 0
  /\ conn = "broken" => unsent + lost > 0 \/ (pc = "read" /\ response = <<>> /\ down = <<>>)
  /\ pc = "killed" => Pages!page_count = 0 \/ unsent + lost > 0

PagesInv == PagesTypes /\ PagesServer /\ PagesExchange /\ PagesReport /\ PagesLost

LEMMA InitPages == ASSUME Pages!Init PROVE PagesInv
<1>1. PICK s \in ClientSources : client_config = Pages!load_config(s[1], s[2])
  BY DEF Pages!Init
<1>2. PICK t \in ServerSources : server_config = Pages!load_config(t[1], t[2])
  BY DEF Pages!Init
<1>3. Values(s[1]) /\ Values(s[2]) /\ Values(t[1]) /\ Values(t[2])
  BY PagesAssumption DEF Values
<1>4. /\ client_config.throws \in BOOLEAN
      /\ ~client_config.throws =>
           /\ client_config.config.NUM_REQUESTS \in Nat \ {0}
           /\ client_config.config.PAGE_COUNT \in Nat
  BY <1>1, <1>3, ConfigTypes
<1>5. /\ server_config.throws \in BOOLEAN
      /\ ~server_config.throws => server_config.config.PAGE_COUNT \in Nat
  BY <1>2, <1>3, ConfigTypes
<1>6. ~client_config.throws =>
        client_config.config.NUM_REQUESTS <= Pages!Digits * Pages!Digits
  BY <1>1, PagesAssumption
<1>7. PagesTypes
  BY <1>4, <1>5, <1>6 DEF Pages!Init, PagesTypes, Pages!num_requests, Pages!page_count
<1>8. PagesServer
  BY <1>4, <1>5 DEF Pages!Init, PagesServer
<1>9. PagesExchange /\ PagesReport /\ PagesLost
  BY DEF Pages!Init, PagesExchange, PagesReport, PagesLost
<1> QED
  BY <1>7, <1>8, <1>9 DEF PagesInv

(* Nothing that the configurations decide ever changes.                    *)
LEMMA PagesConfigured ==
  ASSUME UNCHANGED <<client_config, server_config>>
  PROVE  /\ Pages!num_requests' = Pages!num_requests /\ Pages!page_count' = Pages!page_count
         /\ \A k : /\ Question(k)' = Question(k) /\ AnswerTo(k)' = AnswerTo(k)
                   /\ Known(k)' = Known(k)
<1>1. Pages!num_requests' = Pages!num_requests /\ Pages!page_count' = Pages!page_count
  BY DEF Pages!num_requests, Pages!page_count
<1>2. \A k : Question(k)' = Question(k)
  BY <1>1 DEF Question
<1> QED
  BY <1>1, <1>2 DEF AnswerTo, Known

LEMMA ShortTuples ==
  ASSUME NEW a, NEW b
  PROVE  /\ SubSeq(<<a, b>>, 1, 1) = <<a>> /\ SubSeq(<<a, b>>, 2, 2) = <<b>>
         /\ SubSeq(<<a, b>>, 1, 2) = <<a, b>> /\ SubSeq(<<a, b>>, 3, 2) = <<>>
         /\ SubSeq(<<a>>, 1, 1) = <<a>> /\ SubSeq(<<a>>, 2, 1) = <<>>
         /\ <<>> \o <<a>> = <<a>> /\ <<>> \o <<a, b>> = <<a, b>> /\ <<a>> \o <<b>> = <<a, b>>
         /\ Len(<<a, b>>) = 2 /\ Len(<<a>>) = 1 /\ Len(<<>>) = 0
<1> DEFINE S == {a, b}
<1>1. <<a, b>> \in Seq(S) /\ <<a>> \in Seq(S) /\ <<b>> \in Seq(S) /\ <<>> \in Seq(S)
      /\ Len(<<a, b>>) = 2 /\ Len(<<a>>) = 1 /\ Len(<<b>>) = 1 /\ Len(<<>>) = 0
  OBVIOUS
<1>2. <<a, b>>[1] = a /\ <<a, b>>[2] = b /\ <<a>>[1] = a /\ <<b>>[1] = b
  OBVIOUS
<1> HIDE DEF S
<1>3. \A k \in 1 .. 2 : k = 1 \/ k = 2
  OBVIOUS
<1>4. \A k \in 1 .. 1 : k = 1
  OBVIOUS
<1>5. SubSeq(<<a, b>>, 1, 1) = <<a>>
  <2>1. /\ SubSeq(<<a, b>>, 1, 1) \in Seq(S) /\ Len(SubSeq(<<a, b>>, 1, 1)) = 1
        /\ SubSeq(<<a, b>>, 1, 1)[1] = a
    BY <1>1, <1>2
  <2>2. \A k \in 1 .. 1 : SubSeq(<<a, b>>, 1, 1)[k] = <<a>>[k]
    BY <1>2, <1>4, <2>1
  <2> QED
    BY <1>1, <2>1, <2>2, SeqEqual
<1>6. SubSeq(<<a, b>>, 2, 2) = <<b>>
  <2>1. /\ SubSeq(<<a, b>>, 2, 2) \in Seq(S) /\ Len(SubSeq(<<a, b>>, 2, 2)) = 1
        /\ SubSeq(<<a, b>>, 2, 2)[1] = b
    BY <1>1, <1>2
  <2> QED
    BY <1>1, <1>2, <1>4, <2>1, SeqEqual
<1>7. SubSeq(<<a, b>>, 1, 2) = <<a, b>>
  <2>1. /\ SubSeq(<<a, b>>, 1, 2) \in Seq(S) /\ Len(SubSeq(<<a, b>>, 1, 2)) = 2
        /\ SubSeq(<<a, b>>, 1, 2)[1] = a /\ SubSeq(<<a, b>>, 1, 2)[2] = b
    BY <1>1, <1>2
  <2> QED
    <3> DEFINE s == SubSeq(<<a, b>>, 1, 2)
               t == <<a, b>>
    <3>1. s \in Seq(S) /\ t \in Seq(S) /\ Len(s) = 2 /\ Len(t) = 2
      BY <1>1, <2>1
    <3>2. s[1] = t[1] /\ s[2] = t[2]
      BY <1>2, <2>1
    <3> HIDE DEF s, t
    <3>3. \A k \in 1 .. 2 : s[k] = t[k]
      BY <1>3, <3>2
    <3>4. s = t
      BY <3>1, <3>3, SeqEqual
    <3> QED
      BY <3>4 DEF s, t
<1>8. SubSeq(<<a>>, 1, 1) = <<a>>
  <2>1. /\ SubSeq(<<a>>, 1, 1) \in Seq(S) /\ Len(SubSeq(<<a>>, 1, 1)) = 1
        /\ SubSeq(<<a>>, 1, 1)[1] = a
    BY <1>1, <1>2
  <2>2. \A k \in 1 .. 1 : SubSeq(<<a>>, 1, 1)[k] = <<a>>[k]
    BY <1>2, <1>4, <2>1
  <2> QED
    BY <1>1, <2>1, <2>2, SeqEqual
<1>9. SubSeq(<<a, b>>, 3, 2) = <<>> /\ SubSeq(<<a>>, 2, 1) = <<>>
  <2>1. 3 \in Int /\ 2 \in Int /\ 1 \in Int /\ 2 < 3 /\ 1 < 2
    OBVIOUS
  <2> QED
    BY <2>1, SubSeqEmpty
<1>10. <<>> \o <<a>> = <<a>> /\ <<>> \o <<a, b>> = <<a, b>>
  BY <1>1, ConcatEmptySeq
<1>11. <<a>> \o <<b>> = <<a, b>>
  <2>1. /\ <<a>> \o <<b>> \in Seq(S) /\ Len(<<a>> \o <<b>>) = 2
        /\ (<<a>> \o <<b>>)[1] = a /\ (<<a>> \o <<b>>)[2] = b
    BY <1>1, <1>2
  <2> QED
    <3> DEFINE s == <<a>> \o <<b>>
               t == <<a, b>>
    <3>1. s \in Seq(S) /\ t \in Seq(S) /\ Len(s) = 2 /\ Len(t) = 2
      BY <1>1, <2>1
    <3>2. s[1] = t[1] /\ s[2] = t[2]
      BY <1>2, <2>1
    <3> HIDE DEF s, t
    <3>3. \A k \in 1 .. 2 : s[k] = t[k]
      BY <1>3, <3>2
    <3>4. s = t
      BY <3>1, <3>3, SeqEqual
    <3> QED
      BY <3>4 DEF s, t
<1> QED
  BY <1>1, <1>5, <1>6, <1>7, <1>8, <1>9, <1>10, <1>11

(* The server closes its socket: what was left unread is a request of      *)
(* which nothing was answered.                                             *)
LEMMA SocketClosed ==
  ASSUME PagesInv, NEW rest, Pages!CloseSocket(rest),
         rest # <<>> => pc = "read" /\ response = <<>> /\ down = <<>>,
         thread' = "closed", UNCHANGED Pages!client, UNCHANGED <<server_config, down>>,
         process' \in {process, "exited"}, conn = "none" => process' = "exited"
  PROVE  PagesInv'
<1>1. /\ UNCHANGED <<client_config, server_config, pc, i, response, correct, incorrect, unsent,
                     lost, down>>
      /\ up' = <<>>
      /\ conn \notin {"queued", "open"} => conn' = conn
      /\ conn \in {"queued", "open"} => conn' \in {"server closed", "broken", "reset"}
      /\ conn \in {"queued", "open"} /\ conn' = "broken" => rest # <<>>
  BY DEF Pages!CloseSocket, Pages!client
<1>2. /\ Pages!num_requests' = Pages!num_requests /\ Pages!page_count' = Pages!page_count
      /\ \A k : /\ Question(k)' = Question(k) /\ AnswerTo(k)' = AnswerTo(k)
                /\ Known(k)' = Known(k)
  BY <1>1, PagesConfigured
<1>3. PagesTypes'
  BY <1>1, <1>2 DEF PagesInv, PagesTypes
<1>4. PagesServer'
  BY <1>1, <1>2 DEF PagesInv, PagesServer, PagesTypes
<1>5. PagesExchange'
  <2>1. CASE pc # "read"
    BY <1>1, <1>2, <2>1 DEF PagesInv, PagesExchange, Pieces
  <2>2. CASE pc = "read"
    <3>1. \/ <<response, down>> \in WholeAnswer(AnswerTo(i))
          \/ <<response, down>> \in CutAnswer(AnswerTo(i))
      BY <2>2 DEF PagesInv, PagesExchange, CutAnswer
    <3>2. conn' \notin {"queued", "open"}
      BY <1>1
    <3>3. /\ WholeAnswer(AnswerTo(i))' = WholeAnswer(AnswerTo(i))
          /\ CutAnswer(AnswerTo(i))' = CutAnswer(AnswerTo(i))
      BY <1>1, <1>2 DEF WholeAnswer, CutAnswer, Pieces, Pages!ResponsePieces
    <3> QED
      BY <1>1, <2>2, <3>1, <3>2, <3>3 DEF PagesExchange
  <2> QED
    BY <2>1, <2>2
<1>6. PagesReport'
  BY <1>1, <1>2 DEF PagesInv, PagesReport
<1>7. PagesLost'
  BY <1>1, <1>2 DEF PagesInv, PagesLost
<1> QED
  BY <1>3, <1>4, <1>5, <1>6, <1>7 DEF PagesInv

LEMMA LoadConnectKeep ==
  ASSUME PagesInv, Pages!Load \/ Pages!Connect
  PROVE  PagesInv'
<1>1. /\ pc = "load_config" \/ pc = "connect"
      /\ UNCHANGED <<client_config, i, response, correct, incorrect, unsent, lost, server_config,
                     up, down, process, thread>>
      /\ \/ pc' \in {"threw", "connect", "failed"} /\ UNCHANGED conn
         \/ /\ pc = "connect" /\ pc' = "send" /\ conn' = "queued"
            /\ process = "accept"
      /\ pc' = "connect" => ~client_config.throws
      /\ pc = "load_config" /\ client_config.throws => pc' = "threw"
  BY DEF Pages!Load, Pages!Connect, Pages!Listening, PagesInv, PagesTypes
<1>2. /\ Pages!num_requests' = Pages!num_requests /\ Pages!page_count' = Pages!page_count
      /\ \A k : /\ Question(k)' = Question(k) /\ AnswerTo(k)' = AnswerTo(k)
                /\ Known(k)' = Known(k)
  BY <1>1, PagesConfigured
<1>3. conn = "none" /\ i = 0 /\ correct = 0 /\ incorrect = 0 /\ unsent = 0 /\ lost = 0
      /\ up = <<>> /\ down = <<>>
  BY <1>1 DEF PagesInv, PagesServer, PagesReport, PagesExchange
<1>4. PagesTypes'
  BY <1>1, <1>2 DEF PagesInv, PagesTypes
<1>5. PagesServer'
  BY <1>1, <1>2, <1>3 DEF PagesInv, PagesServer, PagesTypes
<1>6. PagesExchange'
  BY <1>1, <1>3 DEF PagesExchange
<1>7. PagesReport'
  <2>1. pc' = "send" => ~client_config.throws
    BY <1>1 DEF PagesInv, PagesServer
  <2>6. ~client_config.throws => Pages!num_requests \in Nat \ {0}
    BY DEF PagesInv, PagesTypes
  <2>7. \A k \in Nat \ {0} : 0 <= k
    OBVIOUS
  <2>2. pc' = "send" => 0 <= Pages!num_requests
    BY <2>1, <2>6, <2>7
  <2>3. {k \in 0 .. 0 - 1 : Known(k)} = {} /\ Cardinality({}) = 0
    BY FS_EmptySet
  <2>4. Cardinality({k \in 0 .. i' - 1 : Known(k)}) = 0
    BY <1>1, <1>3, <2>3
  <2>5. Cardinality({k \in 0 .. i - 1 : Known(k)})' = Cardinality({k \in 0 .. i' - 1 : Known(k)})
    <3>1. {k \in 0 .. i - 1 : Known(k)}' = {k \in 0 .. i' - 1 : Known(k)}
      BY <1>2
    <3> QED
      BY <3>1
  <2> QED
    BY <1>1, <1>2, <1>3, <2>2, <2>4, <2>5 DEF PagesReport
<1>8. PagesLost'
  <2>1. conn' \in {"none", "queued"} /\ pc' # "killed"
    BY <1>1, <1>3
  <2> QED
    BY <2>1 DEF PagesLost
<1> QED
  BY <1>4, <1>5, <1>6, <1>7, <1>8 DEF PagesInv

LEMMA AskKeeps == ASSUME PagesInv, Pages!Send PROVE PagesInv'
<1>1. /\ pc = "send" /\ i < Pages!num_requests
      /\ UNCHANGED <<client_config, correct, incorrect, lost, server_config, down, process,
                     thread>>
      /\ \/ /\ Pages!page_count = 0 \/ conn \in {"broken", "dead"}
            /\ pc' = "killed" /\ UNCHANGED <<i, unsent, response, up, conn>>
         \/ /\ conn = "reset" /\ i' = i + 1 /\ unsent' = unsent + 1 /\ conn' = "dead"
            /\ UNCHANGED <<pc, response, up>>
         \/ /\ Pages!page_count # 0 /\ conn \notin {"broken", "dead", "reset"}
            /\ pc' = "read" /\ response' = <<>> /\ UNCHANGED <<i, unsent>>
            /\ IF conn = "server closed"
               THEN conn' = "broken" /\ UNCHANGED up
               ELSE up' = up \o Pages!RequestPieces(Question(i)) /\ UNCHANGED conn
  BY DEF Pages!Send, Pages!Request, Question
<1>2. /\ Pages!num_requests' = Pages!num_requests /\ Pages!page_count' = Pages!page_count
      /\ \A k : /\ Question(k)' = Question(k) /\ AnswerTo(k)' = AnswerTo(k)
                /\ Known(k)' = Known(k)
  BY <1>1, PagesConfigured
<1>3. /\ up = <<>> /\ down = <<>> /\ conn \notin {"none", "client closed"}
      /\ ~client_config.throws
      /\ correct + incorrect + unsent + lost = i
      /\ unsent + lost = 0 => correct = Cardinality({k \in 0 .. i - 1 : Known(k)})
  BY <1>1 DEF PagesInv, PagesExchange, PagesServer, PagesReport
<1>4. /\ i \in Nat /\ correct \in Nat /\ incorrect \in Nat /\ unsent \in Nat /\ lost \in Nat
      /\ Pages!num_requests \in Nat \ {0} /\ Pages!page_count \in Nat
  BY <1>3 DEF PagesInv, PagesTypes
<1>10. /\ pc = "send" /\ i < Pages!num_requests
       /\ correct' = correct /\ incorrect' = incorrect /\ lost' = lost
       /\ client_config' = client_config /\ server_config' = server_config
       /\ process' = process /\ thread' = thread
       /\ \/ /\ i' = i /\ unsent' = unsent /\ pc' = "killed" /\ conn' = conn
             /\ Pages!page_count = 0 \/ conn \in {"broken", "dead"}
          \/ i' = i + 1 /\ unsent' = unsent + 1 /\ pc' = "send" /\ conn' = "dead"
          \/ /\ i' = i /\ unsent' = unsent /\ pc' = "read" /\ Pages!page_count # 0
             /\ \/ conn' = conn /\ conn \notin {"broken", "dead"}
                \/ conn' = "broken" /\ up' = <<>> /\ response' = <<>> /\ down' = <<>>
  BY <1>1, <1>3
<1>5. PagesTypes'
  <2>1. i' \in Nat /\ unsent' \in Nat
    BY <1>4, <1>10
  <2> QED
    BY <1>2, <1>10, <2>1 DEF PagesInv, PagesTypes
<1>6. PagesServer'
  <2>1. pc' = "read" => i' < Pages!num_requests' /\ Pages!page_count' > 0
    BY <1>2, <1>4, <1>10
  <2>2. conn' \notin {"none", "queued", "client closed"} \/ conn' = conn
    BY <1>10
  <2>3. pc' \in {"killed", "send", "read"}
    BY <1>10
  <2> QED
    BY <1>3, <1>10, <2>1, <2>2, <2>3 DEF PagesInv, PagesServer
<1>7. PagesExchange'
  <2>1. CASE pc' # "read"
    BY <1>1, <1>3, <2>1 DEF PagesExchange
  <2>2. CASE pc' = "read" /\ conn = "server closed"
    BY <1>1, <1>3, <2>2 DEF PagesExchange, CutAnswer
  <2>3. CASE pc' = "read" /\ conn # "server closed"
    <3>1. conn \in {"queued", "open"}
      BY <1>1, <1>3, <2>3 DEF PagesInv, PagesTypes
    <3>2. <<>> \o Pages!RequestPieces(Question(i)) = Pages!RequestPieces(Question(i))
      BY ShortTuples DEF Pages!RequestPieces
    <3>3. /\ up' = Pages!RequestPieces(Question(i))' /\ conn' = conn
          /\ response' = <<>> /\ down' = <<>>
      BY <1>1, <1>2, <1>3, <2>3, <3>2 DEF Pages!RequestPieces
    <3> QED
      BY <2>3, <3>1, <3>3 DEF PagesExchange
  <2> QED
    BY <2>1, <2>2, <2>3
<1>8. PagesReport'
  <2>1. (i' = i /\ unsent' = unsent) \/ (i' = i + 1 /\ unsent' = unsent + 1)
    BY <1>10
  <2>2. correct' + incorrect' + unsent' + lost' = i' /\ i' <= Pages!num_requests
    <3>1. correct + incorrect + unsent + lost = i /\ i < Pages!num_requests
      BY <1>3, <1>10
    <3>2. correct' = correct /\ incorrect' = incorrect /\ lost' = lost
      BY <1>10
    <3>3. CASE i' = i /\ unsent' = unsent
      BY <1>4, <3>1, <3>2, <3>3
    <3>4. CASE i' = i + 1 /\ unsent' = unsent + 1
      BY <1>4, <3>1, <3>2, <3>4
    <3> QED
      BY <2>1, <3>3, <3>4
  <2>3. unsent' + lost' = 0 => i' = i /\ unsent' = unsent
    BY <1>4, <1>10, <2>1
  <2>4. i' = i => {k \in 0 .. i - 1 : Known(k)}' = {k \in 0 .. i - 1 : Known(k)}
    BY <1>2
  <2>5. unsent' + lost' = 0 => correct' = Cardinality({k \in 0 .. i - 1 : Known(k)})'
    BY <1>1, <1>3, <2>3, <2>4
  <2>6. pc' \notin {"load_config", "connect", "returned"}
    BY <1>1
  <2> QED
    BY <1>2, <2>2, <2>5, <2>6 DEF PagesReport
<1>9. PagesLost'
  <2>1. conn' = "dead" => unsent' + lost' > 0
    BY <1>4, <1>10 DEF PagesInv, PagesLost
  <2>2. conn = "broken" \/ conn = "dead" => unsent + lost > 0
    BY <1>10 DEF PagesInv, PagesLost
  <2>3. /\ conn' = "broken" =>
             unsent' + lost' > 0 \/ (pc' = "read" /\ response' = <<>> /\ down' = <<>>)
        /\ pc' = "killed" => Pages!page_count' = 0 \/ unsent' + lost' > 0
    BY <1>2, <1>4, <1>10, <2>2
  <2> QED
    BY <2>1, <2>3 DEF PagesLost
<1> QED
  BY <1>5, <1>6, <1>7, <1>8, <1>9 DEF PagesInv

(* A read of n pieces.                                                     *)
PartRead(n, got, there, got1, there1) ==
  /\ n \in 1 .. Len(there) /\ n <= 2 - Len(got)
  /\ got1 = got \o SubSeq(there, 1, n)
  /\ there1 = SubSeq(there, n + 1, Len(there))

LEMMA PiecesRead ==
  ASSUME NEW answer, NEW got, NEW there, NEW n, NEW got1, NEW there1,
         PartRead(n, got, there, got1, there1),
         <<got, there>> \in WholeAnswer(answer) \cup CutAnswer(answer)
  PROVE  IF Len(got1) = 2
         THEN got1 = Pieces(answer) /\ there1 = <<>>
         ELSE /\ <<got, there>> \in WholeAnswer(answer) =>
                   <<got1, there1>> \in WholeAnswer(answer)
              /\ <<got, there>> \in CutAnswer(answer) => <<got1, there1>> \in CutAnswer(answer)
<1> DEFINE a == <<1, answer>>
           b == <<2, answer>>
<1>1. Pieces(answer) = <<a, b>>
  BY DEF Pieces, Pages!ResponsePieces
<1>2. /\ WholeAnswer(answer) = {<< <<>>, <<a, b>> >>, << <<a>>, <<b>> >>}
      /\ CutAnswer(answer) = {<< <<>>, <<>> >>, << <<>>, <<a>> >>, << <<a>>, <<>> >>}
  BY <1>1 DEF WholeAnswer, CutAnswer
<1>3. /\ Len(<<a, b>>) = 2 /\ Len(<<a>>) = 1 /\ Len(<<b>>) = 1 /\ Len(<<>>) = 0
      /\ SubSeq(<<a, b>>, 1, 1) = <<a>> /\ SubSeq(<<a, b>>, 2, 2) = <<b>>
      /\ SubSeq(<<a, b>>, 1, 2) = <<a, b>> /\ SubSeq(<<a, b>>, 3, 2) = <<>>
      /\ SubSeq(<<a>>, 1, 1) = <<a>> /\ SubSeq(<<a>>, 2, 1) = <<>>
      /\ SubSeq(<<b>>, 1, 1) = <<b>> /\ SubSeq(<<b>>, 2, 1) = <<>>
      /\ <<>> \o <<a>> = <<a>> /\ <<>> \o <<a, b>> = <<a, b>> /\ <<a>> \o <<b>> = <<a, b>>
  <2> HIDE DEF a, b
  <2>1. /\ Len(<<a, b>>) = 2 /\ Len(<<a>>) = 1 /\ Len(<<>>) = 0
        /\ SubSeq(<<a, b>>, 1, 1) = <<a>> /\ SubSeq(<<a, b>>, 2, 2) = <<b>>
        /\ SubSeq(<<a, b>>, 1, 2) = <<a, b>> /\ SubSeq(<<a, b>>, 3, 2) = <<>>
        /\ SubSeq(<<a>>, 1, 1) = <<a>> /\ SubSeq(<<a>>, 2, 1) = <<>>
        /\ <<>> \o <<a>> = <<a>> /\ <<>> \o <<a, b>> = <<a, b>> /\ <<a>> \o <<b>> = <<a, b>>
    BY ONLY ShortTuples
  <2>2. Len(<<b>>) = 1 /\ SubSeq(<<b>>, 1, 1) = <<b>> /\ SubSeq(<<b>>, 2, 1) = <<>>
    BY ONLY ShortTuples
  <2> QED
    BY <2>1, <2>2
<1> DEFINE none == <<>>
           one == <<a>>
           other == <<b>>
           both == <<a, b>>
<1>4. /\ \A x, y : <<x, y>> \in WholeAnswer(answer) <=>
                     \/ x = none /\ y = both
                     \/ x = one /\ y = other
      /\ \A x, y : <<x, y>> \in CutAnswer(answer) <=>
                     \/ x = none /\ y = none
                     \/ x = none /\ y = one
                     \/ x = one /\ y = none
  BY <1>2
<1>5. /\ Len(both) = 2 /\ Len(one) = 1 /\ Len(other) = 1 /\ Len(none) = 0
      /\ SubSeq(both, 1, 1) = one /\ SubSeq(both, 2, 2) = other
      /\ SubSeq(both, 1, 2) = both /\ SubSeq(both, 3, 2) = none
      /\ SubSeq(one, 1, 1) = one /\ SubSeq(one, 2, 1) = none
      /\ SubSeq(other, 1, 1) = other /\ SubSeq(other, 2, 1) = none
      /\ none \o one = one /\ none \o both = both /\ one \o other = both
      /\ Pieces(answer) = both
  BY <1>1, <1>3
<1> HIDE DEF none, one, other, both
<1> DEFINE count == Len(there)
<1>6. count \in {0, 1, 2} /\ (there = both => count = 2) /\ (there = one => count = 1)
      /\ (there = other => count = 1) /\ (there = none => count = 0)
  BY <1>4, <1>5
<1>7. /\ n \in 1 .. count /\ got1 = got \o SubSeq(there, 1, n)
      /\ there1 = SubSeq(there, n + 1, count)
  BY DEF PartRead
<1> HIDE DEF count
<1>8. there # none /\ (there = both => n = 1 \/ n = 2) /\ (there = one => n = 1)
      /\ (there = other => n = 1)
  BY <1>6, <1>7
<1>9. /\ 1 + 1 = 2 /\ 2 + 1 = 3 /\ 1 # 2 /\ 0 # 2 /\ 0 # 1
  OBVIOUS
<1>10. both # one /\ both # other /\ both # none /\ one # none /\ other # none
  BY <1>5, <1>9
<1>11. CASE got = none /\ there = both /\ n = 1
  <2>1. got1 = one /\ there1 = other
    BY <1>5, <1>6, <1>7, <1>9, <1>11
  <2> QED
    <3>1. Len(got1) # 2
      BY ONLY <1>5, <1>9, <2>1
    <3>2. <<got1, there1>> \in WholeAnswer(answer)
      BY ONLY <1>4, <2>1
    <3>3. <<got, there>> \notin CutAnswer(answer)
      BY ONLY <1>4, <1>10, <1>11
    <3> QED
      BY ONLY <3>1, <3>2, <3>3
<1>12. CASE got = none /\ there = both /\ n = 2
  <2>1. got1 = both /\ there1 = none
    BY <1>5, <1>6, <1>7, <1>9, <1>12
  <2> QED
    BY <1>5, <2>1 DEF none
<1>13. CASE got = one /\ there = other /\ n = 1
  <2>1. got1 = both /\ there1 = none
    BY <1>5, <1>6, <1>7, <1>9, <1>13
  <2> QED
    BY <1>5, <2>1 DEF none
<1>14. CASE got = none /\ there = one /\ n = 1
  <2>1. got1 = one /\ there1 = none
    BY <1>5, <1>6, <1>7, <1>9, <1>14
  <2> QED
    <3>1. Len(got1) # 2
      BY ONLY <1>5, <1>9, <2>1
    <3>2. <<got1, there1>> \in CutAnswer(answer)
      BY ONLY <1>4, <2>1
    <3>3. <<got, there>> \notin WholeAnswer(answer)
      BY ONLY <1>4, <1>10, <1>14
    <3> QED
      BY ONLY <3>1, <3>2, <3>3
<1>15. (got = none /\ there = both) \/ (got = one /\ there = other) \/ (got = none /\ there = one)
  BY <1>4, <1>8
<1> QED
  BY <1>8, <1>11, <1>12, <1>13, <1>14, <1>15

LEMMA OneMore ==
  ASSUME NEW k \in Nat
  PROVE  Cardinality({j \in 0 .. k : Known(j)}) =
           Cardinality({j \in 0 .. k - 1 : Known(j)}) + (IF Known(k) THEN 1 ELSE 0)
<1> DEFINE Below == {j \in 0 .. k - 1 : Known(j)}
           Upto == {j \in 0 .. k : Known(j)}
<1>1. IsFiniteSet(Below)
  <2>1. IsFiniteSet(0 .. k - 1)
    BY FS_Interval
  <2> QED
    BY <2>1, FS_Subset
<1>2. \A j : j \in 0 .. k <=> j \in 0 .. k - 1 \/ j = k
  OBVIOUS
<1>3. k \notin 0 .. k - 1
  OBVIOUS
<1>4. CASE Known(k)
  <2>1. Upto = Below \cup {k} /\ k \notin Below
    BY <1>2, <1>3, <1>4
  <2>2. Cardinality(Below \cup {k}) = Cardinality(Below) + 1
    BY <1>1, <2>1, FS_AddElement
  <2> QED
    BY <1>4, <2>1, <2>2
<1>5. CASE ~Known(k)
  <2>1. Upto = Below
    BY <1>2, <1>3, <1>5
  <2>2. Cardinality(Below) \in Nat
    BY <1>1, FS_CardinalityType
  <2> QED
    BY <1>5, <2>1, <2>2
<1> QED
  BY <1>4, <1>5

LEMMA ReadKeeps == ASSUME PagesInv, Pages!Read PROVE PagesInv'
<1>1. /\ pc = "read"
      /\ UNCHANGED <<client_config, correct, incorrect, unsent, server_config, up, process,
                     thread>>
      /\ \/ \E n \in 1 .. Len(down) :
              /\ n <= 2 - Len(response)
              /\ response' = response \o SubSeq(down, 1, n)
              /\ down' = SubSeq(down, n + 1, Len(down))
              /\ pc' = (IF Len(response') = 2 THEN "check" ELSE "read")
              /\ conn' = conn /\ i' = i /\ lost' = lost
         \/ /\ down = <<>> /\ conn \in {"server closed", "broken", "reset", "dead"}
            /\ conn' = IF conn = "reset" THEN "dead" ELSE conn
            /\ lost' = lost + 1 /\ i' = i + 1 /\ pc' = "send"
            /\ UNCHANGED <<response, down>>
  BY DEF Pages!Read, Pages!ReadAfter
<1>2. /\ Pages!num_requests' = Pages!num_requests /\ Pages!page_count' = Pages!page_count
      /\ \A k : /\ Question(k)' = Question(k) /\ AnswerTo(k)' = AnswerTo(k)
                /\ Known(k)' = Known(k)
  BY <1>1, PagesConfigured
<1>3. /\ conn \notin {"none", "client closed"} /\ ~client_config.throws
      /\ i < Pages!num_requests
      /\ correct + incorrect + unsent + lost = i
  BY <1>1 DEF PagesInv, PagesServer, PagesReport
<1>4. /\ i \in Nat /\ correct \in Nat /\ incorrect \in Nat /\ unsent \in Nat /\ lost \in Nat
      /\ Pages!num_requests \in Nat \ {0} /\ Pages!page_count \in Nat
  BY <1>3 DEF PagesInv, PagesTypes
<1>5. CASE /\ down = <<>> /\ conn \in {"server closed", "broken", "reset", "dead"}
           /\ conn' = IF conn = "reset" THEN "dead" ELSE conn
           /\ lost' = lost + 1 /\ i' = i + 1 /\ pc' = "send"
           /\ UNCHANGED <<response, down>>
  <2>1. lost' \in Nat /\ i' \in Nat /\ unsent' + lost' > 0 /\ i' <= Pages!num_requests
        /\ correct' + incorrect' + unsent' + lost' = i'
    <3>1. correct' = correct /\ incorrect' = incorrect /\ unsent' = unsent
      BY <1>1
    <3>2. lost' = lost + 1 /\ i' = i + 1 /\ i < Pages!num_requests
          /\ correct + incorrect + unsent + lost = i
      BY <1>3, <1>5
    <3> QED
      BY <1>4, <3>1, <3>2
  <2>2. conn' \in {"server closed", "broken", "dead"}
    BY <1>5
  <2>3. PagesTypes'
    BY <1>1, <1>2, <1>5, <2>1, <2>2 DEF PagesInv, PagesTypes
  <2>4. PagesServer'
    BY <1>1, <1>2, <1>3, <1>5, <2>2 DEF PagesInv, PagesServer
  <2>5. PagesExchange'
    <3>1. up = <<>>
      BY <1>1, <1>5 DEF PagesInv, PagesExchange
    <3> QED
      BY <1>1, <1>5, <3>1 DEF PagesExchange
  <2>6. PagesReport'
    <3>1. unsent' + lost' # 0
      BY <2>1
    <3> QED
      BY <1>2, <1>5, <2>1, <3>1 DEF PagesReport
  <2>7. PagesLost'
    BY <1>5, <2>1 DEF PagesLost
  <2> QED
    BY <2>3, <2>4, <2>5, <2>6, <2>7 DEF PagesInv
<1>6. ASSUME NEW n \in 1 .. Len(down), n <= 2 - Len(response),
             response' = response \o SubSeq(down, 1, n),
             down' = SubSeq(down, n + 1, Len(down)),
             pc' = (IF Len(response') = 2 THEN "check" ELSE "read"),
             conn' = conn, i' = i, lost' = lost
      PROVE  PagesInv'
  <2>1. down # <<>>
    BY <1>6, ShortTuples
  <2>2. up = <<>> /\ <<response, down>> \in WholeAnswer(AnswerTo(i)) \cup CutAnswer(AnswerTo(i))
        /\ (<<response, down>> \notin WholeAnswer(AnswerTo(i)) =>
              /\ <<response, down>> \in CutAnswer(AnswerTo(i))
              /\ conn \notin {"queued", "open"})
    BY <1>1, <2>1 DEF PagesInv, PagesExchange
  <2>3. IF Len(response') = 2
        THEN response' = Pieces(AnswerTo(i)) /\ down' = <<>>
        ELSE /\ <<response, down>> \in WholeAnswer(AnswerTo(i)) =>
                  <<response', down'>> \in WholeAnswer(AnswerTo(i))
             /\ <<response, down>> \in CutAnswer(AnswerTo(i)) =>
                  <<response', down'>> \in CutAnswer(AnswerTo(i))
    <3>1. PartRead(n, response, down, response', down')
      BY <1>6 DEF PartRead
    <3> QED
      BY <2>2, <3>1, PiecesRead
  <2>4. /\ Pieces(AnswerTo(i))' = Pieces(AnswerTo(i))
        /\ WholeAnswer(AnswerTo(i))' = WholeAnswer(AnswerTo(i))
        /\ CutAnswer(AnswerTo(i))' = CutAnswer(AnswerTo(i))
    BY <1>2, <1>6 DEF WholeAnswer, CutAnswer, Pieces, Pages!ResponsePieces
  <2>5. pc' \in {"check", "read"} /\ up' = <<>> /\ (pc' = "check" <=> Len(response') = 2)
    BY <1>1, <1>6, <2>2
  <2>6. PagesTypes'
    BY <1>1, <1>2, <1>6, <2>5 DEF PagesInv, PagesTypes
  <2>7. PagesServer'
    BY <1>1, <1>2, <1>3, <1>6, <2>5 DEF PagesInv, PagesServer
  <2>8. PagesExchange'
    <3>1. CASE pc' = "check"
      BY <2>3, <2>4, <2>5, <3>1 DEF PagesExchange
    <3>2. CASE pc' = "read"
      <4>1. \/ <<response', down'>> \in WholeAnswer(AnswerTo(i))
            \/ <<response', down'>> \in CutAnswer(AnswerTo(i)) /\ conn' \notin {"queued", "open"}
        BY <1>6, <2>2, <2>3, <2>5, <3>2
      <4> QED
        BY <2>4, <2>5, <3>2, <4>1 DEF PagesExchange
    <3> QED
      BY <2>5, <3>1, <3>2
  <2>9. PagesReport'
    <3>1. {k \in 0 .. i - 1 : Known(k)}' = {k \in 0 .. i - 1 : Known(k)}
      BY <1>2, <1>6
    <3> QED
      BY <1>1, <1>2, <1>6, <2>5, <3>1 DEF PagesInv, PagesReport
  <2>10. PagesLost'
    <3>1. /\ conn' = "broken" => unsent + lost > 0
          /\ conn' = "dead" => unsent + lost > 0
      BY <1>6, <2>1 DEF PagesInv, PagesLost
    <3> QED
      BY <1>1, <1>6, <2>5, <3>1 DEF PagesLost
  <2> QED
    BY <2>6, <2>7, <2>8, <2>9, <2>10 DEF PagesInv
<1> QED
  BY <1>1, <1>5, <1>6

LEMMA CheckKeeps == ASSUME PagesInv, Pages!Check PROVE PagesInv'
<1> DEFINE header == Pages!to_host_order(response[1][2].header)
           good == /\ header.status = Pages!SUCCESS
                   /\ Pages!verify(response[2][2].content, header.page_number, Pages!page_count)
<1>1. /\ pc = "check" /\ pc' = "send" /\ i' = i + 1
      /\ IF good THEN correct' = correct + 1 /\ incorrect' = incorrect
                 ELSE incorrect' = incorrect + 1 /\ correct' = correct
      /\ UNCHANGED <<client_config, response, unsent, lost, server_config, up, down, conn,
                     process, thread>>
  BY DEF Pages!Check
<1>2. /\ Pages!num_requests' = Pages!num_requests /\ Pages!page_count' = Pages!page_count
      /\ \A k : /\ Question(k)' = Question(k) /\ AnswerTo(k)' = AnswerTo(k)
                /\ Known(k)' = Known(k)
  BY <1>1, PagesConfigured
<1>3. /\ conn \notin {"none", "client closed"} /\ ~client_config.throws
      /\ i < Pages!num_requests /\ Pages!page_count > 0
      /\ response = Pieces(AnswerTo(i)) /\ up = <<>> /\ down = <<>>
  BY <1>1 DEF PagesInv, PagesServer, PagesExchange
<1>4. /\ i \in Nat /\ correct \in Nat /\ incorrect \in Nat /\ unsent \in Nat /\ lost \in Nat
      /\ Pages!num_requests \in Nat \ {0} /\ Pages!page_count \in Nat
      /\ Pages!num_requests <= Pages!Digits * Pages!Digits
  BY <1>3 DEF PagesInv, PagesTypes
<1>5. correct + incorrect + unsent + lost = i
  BY <1>1 DEF PagesInv, PagesReport
<1>6. unsent + lost = 0 => correct = Cardinality({k \in 0 .. i - 1 : Known(k)})
  BY <1>1 DEF PagesInv, PagesReport
<1>7. good <=> Known(i)
  <2>6. i < Pages!num_requests /\ Pages!page_count > 0
    BY <1>3
  <2>7. Pages!page_count \in Nat \ {0}
    BY <1>4, <2>6
  <2>1. i \in Word /\ i % Pages!page_count \in Word /\ i % Pages!page_count < Pages!page_count
    <3>2. /\ i % Pages!page_count \in Nat /\ i % Pages!page_count <= i
          /\ i % Pages!page_count < Pages!page_count
      BY <1>4, <2>7, Remainder
    <3>3. i \in 0 .. Pages!num_requests - 1
      BY <1>4, <2>6
    <3> QED
      BY <1>4, <3>2, <3>3 DEF Word, Pages!Digits
  <2>2. response[1][2] = AnswerTo(i) /\ response[2][2] = AnswerTo(i)
    BY <1>3 DEF Pieces, Pages!ResponsePieces
  <2>3. header = Pages!to_host_order(AnswerTo(i).header)
    BY <2>2
  <2>4. /\ header.page_number = i % Pages!page_count
        /\ header.status = Pages!SUCCESS <=> Known(i)
        /\ AnswerTo(i).content = Pages!get_value_at(i % Pages!page_count) <=> Known(i)
    BY <2>1, <2>3, AnswerIsOwn
  <2>5. header.page_number < Pages!page_count
    BY <2>1, <2>4
  <2>8. response[2][2].content = Pages!get_value_at(header.page_number) <=> Known(i)
    BY <2>2, <2>4
  <2> HIDE DEF header
  <2> QED
    BY <2>4, <2>5, <2>8 DEF Pages!verify
<1> HIDE DEF good
<1>8. correct' \in Nat /\ incorrect' \in Nat /\ i' \in Nat /\ i' <= Pages!num_requests
      /\ correct' + incorrect' + unsent' + lost' = i'
  <2>1. (correct' = correct + 1 /\ incorrect' = incorrect)
        \/ (incorrect' = incorrect + 1 /\ correct' = correct)
    BY <1>1
  <2>2. unsent' = unsent /\ lost' = lost /\ i' = i + 1 /\ i < Pages!num_requests
    BY <1>1, <1>3
  <2>3. CASE correct' = correct + 1 /\ incorrect' = incorrect
    BY <1>4, <1>5, <2>2, <2>3
  <2>4. CASE incorrect' = incorrect + 1 /\ correct' = correct
    BY <1>4, <1>5, <2>2, <2>4
  <2> QED
    BY <2>1, <2>3, <2>4
<1>9. PagesTypes'
  BY <1>1, <1>2, <1>8 DEF PagesInv, PagesTypes
<1>10. PagesServer'
  BY <1>1, <1>2, <1>3 DEF PagesInv, PagesServer
<1>11. PagesExchange'
  BY <1>1, <1>3 DEF PagesExchange
<1>12. PagesReport'
  <2>1. unsent' + lost' = 0 => correct' = Cardinality({k \in 0 .. i - 1 : Known(k)})'
    <3>1. i' - 1 = i /\ unsent' = unsent /\ lost' = lost
      BY <1>1, <1>4
    <3>2. {k \in 0 .. i - 1 : Known(k)}' = {k \in 0 .. i : Known(k)}
      BY <1>2, <3>1
    <3>3. Cardinality({k \in 0 .. i : Known(k)}) =
            Cardinality({k \in 0 .. i - 1 : Known(k)}) + (IF Known(i) THEN 1 ELSE 0)
      BY <1>4, OneMore
    <3> DEFINE before == Cardinality({k \in 0 .. i - 1 : Known(k)})
    <3>4. unsent' + lost' = 0 => correct = before
      BY <1>6, <3>1
    <3>5. Cardinality({k \in 0 .. i - 1 : Known(k)})' = before + (IF Known(i) THEN 1 ELSE 0)
      BY <3>2, <3>3
    <3> HIDE DEF before
    <3>6. unsent' + lost' = 0 => correct' = before + (IF Known(i) THEN 1 ELSE 0)
      <4>1. CASE Known(i)
        BY <1>1, <1>7, <3>4, <4>1
      <4>2. CASE ~Known(i)
        BY <1>1, <1>4, <1>7, <3>4, <4>2
      <4> QED
        BY <4>1, <4>2
    <3> QED
      BY <3>5, <3>6
  <2> QED
    BY <1>1, <1>2, <1>8, <2>1 DEF PagesReport
<1>13. PagesLost'
  BY <1>1 DEF PagesInv, PagesLost
<1> QED
  BY <1>9, <1>10, <1>11, <1>12, <1>13 DEF PagesInv

LEMMA ReturnKeeps == ASSUME PagesInv, Pages!Return PROVE PagesInv'
<1>1. /\ pc = "send" /\ i = Pages!num_requests /\ pc' = "returned"
      /\ conn' = (IF conn \in {"queued", "open"} THEN "client closed" ELSE conn)
      /\ UNCHANGED <<client_config, i, response, correct, incorrect, unsent, lost, server_config,
                     up, down, process, thread>>
  BY DEF Pages!Return
<1>2. /\ Pages!num_requests' = Pages!num_requests /\ Pages!page_count' = Pages!page_count
      /\ \A k : /\ Question(k)' = Question(k) /\ AnswerTo(k)' = AnswerTo(k)
                /\ Known(k)' = Known(k)
  BY <1>1, PagesConfigured
<1>3. conn \notin {"none", "client closed"} /\ up = <<>> /\ down = <<>>
  BY <1>1 DEF PagesInv, PagesServer, PagesExchange
<1>4. conn' \notin {"none", "queued"} /\ (conn' \in {"dead", "broken"} => conn' = conn)
  BY <1>1, <1>3
<1>5. PagesTypes'
  BY <1>1, <1>2 DEF PagesInv, PagesTypes
<1>6. PagesServer'
  BY <1>1, <1>2, <1>3, <1>4 DEF PagesInv, PagesServer
<1>7. PagesExchange'
  BY <1>1, <1>3 DEF PagesExchange
<1>8. PagesReport'
  <2>1. {k \in 0 .. i - 1 : Known(k)}' = {k \in 0 .. i - 1 : Known(k)}
    BY <1>1, <1>2
  <2> QED
    BY <1>1, <1>2, <2>1 DEF PagesInv, PagesReport
<1>9. PagesLost'
  <2>1. conn' \in {"dead", "broken"} => unsent + lost > 0
    BY <1>1, <1>4 DEF PagesInv, PagesLost
  <2> QED
    BY <1>1, <2>1 DEF PagesLost
<1> QED
  BY <1>5, <1>6, <1>7, <1>8, <1>9 DEF PagesInv

LEMMA AcceptKeeps == ASSUME PagesInv, Pages!Accept PROVE PagesInv'
<1>1. /\ thread = "none" /\ conn \in {"queued", "client closed"}
      /\ conn' = (IF conn = "queued" THEN "open" ELSE conn)
      /\ thread' = "handle_client"
      /\ UNCHANGED <<client_config, pc, i, response, correct, incorrect, unsent, lost,
                     server_config, up, down, process>>
  BY DEF Pages!Accept, Pages!client
<1>2. /\ Pages!num_requests' = Pages!num_requests /\ Pages!page_count' = Pages!page_count
      /\ \A k : /\ Question(k)' = Question(k) /\ AnswerTo(k)' = AnswerTo(k)
                /\ Known(k)' = Known(k)
  BY <1>1, PagesConfigured
<1>3. conn' \in {"open", "client closed"} /\ (conn' = "client closed" => conn = "client closed")
  BY <1>1
<1>4. PagesTypes'
  BY <1>1, <1>2, <1>3 DEF PagesInv, PagesTypes
<1>5. PagesServer'
  BY <1>1, <1>2, <1>3 DEF PagesInv, PagesServer
<1>6. PagesExchange'
  <2>1. CASE pc # "read"
    BY <1>1, <1>2, <2>1 DEF PagesInv, PagesExchange, Pieces
  <2>2. CASE pc = "read"
    <3>1. conn = "queued" /\ conn' = "open"
      BY <1>1, <2>2 DEF PagesInv, PagesServer
    <3>2. \/ up = Pages!RequestPieces(Question(i)) /\ down = <<>> /\ response = <<>>
          \/ up = <<>> /\ <<response, down>> \in WholeAnswer(AnswerTo(i))
      BY <2>2, <3>1 DEF PagesInv, PagesExchange
    <3>3. /\ WholeAnswer(AnswerTo(i))' = WholeAnswer(AnswerTo(i))
          /\ Pages!RequestPieces(Question(i))' = Pages!RequestPieces(Question(i))
      BY <1>1, <1>2 DEF WholeAnswer, Pieces, Pages!ResponsePieces, Pages!RequestPieces
    <3> QED
      BY <1>1, <2>2, <3>1, <3>2, <3>3 DEF PagesExchange
  <2> QED
    BY <2>1, <2>2
<1>7. PagesReport'
  <2>1. {k \in 0 .. i - 1 : Known(k)}' = {k \in 0 .. i - 1 : Known(k)}
    BY <1>1, <1>2
  <2> QED
    BY <1>1, <1>2, <2>1 DEF PagesInv, PagesReport
<1>8. PagesLost'
  BY <1>1, <1>2, <1>3 DEF PagesInv, PagesLost
<1> QED
  BY <1>4, <1>5, <1>6, <1>7, <1>8 DEF PagesInv

LEMMA AcceptFailsKeeps == ASSUME PagesInv, Pages!AcceptFails PROVE PagesInv'
<1>1. /\ Pages!CloseSocket(up) /\ process' = "exited" /\ thread' = "closed"
      /\ UNCHANGED Pages!client /\ UNCHANGED <<server_config, down>>
  BY DEF Pages!AcceptFails
<1>2. up # <<>> => pc = "read" /\ response = <<>> /\ down = <<>>
  BY DEF PagesInv, PagesExchange
<1> QED
  BY <1>1, <1>2, SocketClosed

LEMMA ResetKeeps == ASSUME PagesInv, Pages!Reset PROVE PagesInv'
<1>1. /\ conn = "open" /\ conn' = "reset" /\ up' = <<>>
      /\ \E n \in 0 .. Len(down) : down' = SubSeq(down, 1, n)
      /\ UNCHANGED <<client_config, pc, i, response, correct, incorrect, unsent, lost,
                     server_config, process, thread>>
  BY DEF Pages!Reset, Pages!client
<1>2. /\ Pages!num_requests' = Pages!num_requests /\ Pages!page_count' = Pages!page_count
      /\ \A k : /\ Question(k)' = Question(k) /\ AnswerTo(k)' = AnswerTo(k)
                /\ Known(k)' = Known(k)
  BY <1>1, PagesConfigured
<1>3. PagesTypes'
  BY <1>1, <1>2 DEF PagesInv, PagesTypes
<1>4. PagesServer'
  BY <1>1, <1>2 DEF PagesInv, PagesServer
<1>5. PICK n \in 0 .. Len(down) : down' = SubSeq(down, 1, n)
  BY <1>1
<1>6. down = <<>> => down' = <<>>
  <2>1. CASE down = <<>>
    <3>1. n = 0
      BY <1>5, <2>1, ShortTuples
    <3> QED
      BY <1>5, <2>1, <3>1
  <2> QED
    BY <2>1
<1>7. PagesExchange'
  <2>1. CASE pc # "read"
    BY <1>1, <1>2, <1>6, <2>1 DEF PagesInv, PagesExchange, Pieces
  <2>2. CASE pc = "read"
    <3>1. (down = <<>> /\ response = <<>>) \/ <<response, down>> \in WholeAnswer(AnswerTo(i))
      BY <1>1, <2>2 DEF PagesInv, PagesExchange
    <3> DEFINE a == <<1, AnswerTo(i)>>
               b == <<2, AnswerTo(i)>>
    <3>2. \A x, y : <<x, y>> \in WholeAnswer(AnswerTo(i)) =>
                      (x = <<>> /\ y = <<a, b>>) \/ (x = <<a>> /\ y = <<b>>)
      BY DEF WholeAnswer, Pieces, Pages!ResponsePieces
    <3>3. CutAnswer(AnswerTo(i)) = {<< <<>>, <<>> >>, << <<>>, <<a>> >>, << <<a>>, <<>> >>}
      BY DEF CutAnswer
    <3>4. CutAnswer(AnswerTo(i))' = CutAnswer(AnswerTo(i))
      BY <1>1, <1>2 DEF CutAnswer
    <3>5. WholeAnswer(AnswerTo(i))' = {<< <<>>, <<a, b>> >>, << <<a>>, <<b>> >>}
      <4>1. WholeAnswer(AnswerTo(i))' = WholeAnswer(AnswerTo(i))
        BY <1>1, <1>2 DEF WholeAnswer, Pieces, Pages!ResponsePieces
      <4> QED
        BY <4>1 DEF WholeAnswer, Pieces, Pages!ResponsePieces
    <3> HIDE DEF a, b
    <3> DEFINE none == <<>>
               one == <<a>>
               other == <<b>>
               both == <<a, b>>
    <3>6. /\ <<none, none>> \in CutAnswer(AnswerTo(i))'
          /\ <<none, one>> \in CutAnswer(AnswerTo(i))'
          /\ <<one, none>> \in CutAnswer(AnswerTo(i))'
          /\ <<none, both>> \in WholeAnswer(AnswerTo(i))'
          /\ <<one, other>> \in WholeAnswer(AnswerTo(i))'
      BY <3>3, <3>4, <3>5
    <3>7. /\ SubSeq(both, 1, 0) = none /\ SubSeq(other, 1, 0) = none
          /\ SubSeq(both, 1, 1) = one /\ SubSeq(both, 1, 2) = both
          /\ SubSeq(other, 1, 1) = other /\ Len(both) = 2 /\ Len(other) = 1
      <4>1. 0 \in Int /\ 1 \in Int /\ 0 < 1
        OBVIOUS
      <4> QED
        BY <4>1, ShortTuples, SubSeqEmpty
    <3>8. \/ response = none /\ down = none
          \/ response = none /\ down = both
          \/ response = one /\ down = other
      BY <3>1, <3>2
    <3>9. down = none => down' = none
      BY <1>6
    <3>10. UNCHANGED response /\ UNCHANGED pc /\ up' = <<>> /\ conn' = "reset"
      BY <1>1
    <3> HIDE DEF none, one, other, both
    <3>11. /\ down = both => down' \in {none, one, both}
           /\ down = other => down' \in {none, other}
      <4>1. CASE down = both
        <5>2. Len(down) = 2
          BY <3>7, <4>1
        <5>1. n \in {0, 1, 2}
          BY <5>2
        <5> QED
          BY <1>5, <3>7, <4>1, <5>1
      <4>2. CASE down = other
        <5>2. Len(down) = 1
          BY <3>7, <4>2
        <5>1. n \in {0, 1}
          BY <5>2
        <5> QED
          BY <1>5, <3>7, <4>2, <5>1
      <4> QED
        BY <4>1, <4>2
    <3>12. \/ <<response', down'>> \in CutAnswer(AnswerTo(i))'
           \/ <<response', down'>> \in WholeAnswer(AnswerTo(i))'
      BY <3>6, <3>8, <3>9, <3>10, <3>11
    <3> QED
      BY <2>2, <3>10, <3>12 DEF PagesExchange
  <2> QED
    BY <2>1, <2>2
<1>8. PagesReport'
  <2>1. {k \in 0 .. i - 1 : Known(k)}' = {k \in 0 .. i - 1 : Known(k)}
    BY <1>1, <1>2
  <2> QED
    BY <1>1, <1>2, <2>1 DEF PagesInv, PagesReport
<1>9. PagesLost'
  BY <1>1, <1>2 DEF PagesInv, PagesLost
<1> QED
  BY <1>3, <1>4, <1>7, <1>8, <1>9 DEF PagesInv

LEMMA AnswerKeeps == ASSUME PagesInv, Pages!HandleClient PROVE PagesInv'
<1>1. thread = "handle_client" /\ UNCHANGED Pages!client /\ UNCHANGED <<server_config, process>>
  BY DEF Pages!HandleClient
<1>2. conn # "none" /\ conn # "queued"
  BY <1>1 DEF PagesInv, PagesServer
<1>3. up # <<>> => /\ pc = "read" /\ response = <<>> /\ down = <<>>
                   /\ up = Pages!RequestPieces(Question(i)) /\ conn = "open"
  BY <1>2 DEF PagesInv, PagesExchange
<1>4. ASSUME NEW rest, Pages!CloseSocket(rest), thread' = "closed", UNCHANGED down,
             rest # <<>> => up # <<>>
      PROVE  PagesInv'
  BY <1>1, <1>2, <1>3, <1>4, SocketClosed
<1>5. CASE up = <<>> /\ thread' = "closed" /\ Pages!CloseSocket(<<>>) /\ UNCHANGED down
  BY <1>4, <1>5
<1>6. ASSUME NEW n \in 1 .. Len(up)
      PROVE  up # <<>>
  <2>1. SUFFICES ASSUME up = <<>>
                 PROVE  FALSE
    OBVIOUS
  <2> QED
    BY <1>6, <2>1, ShortTuples
<1>7. ASSUME NEW n \in 1 .. Len(up), Pages!IsWhole(SubSeq(up, 1, n)),
             up' = SubSeq(up, n + 1, Len(up)),
             down' = IF conn = "open"
                     THEN down \o Pages!ResponsePieces(
                            Pages!GetPageResponse(SubSeq(up, 1, n)[1][2],
                                                  server_config.config.PAGE_COUNT))
                     ELSE down,
             UNCHANGED <<thread, conn>>
      PROVE  PagesInv'
  <2> DEFINE a == <<1, Question(i)>>
             b == <<2, Question(i)>>
             c == <<1, AnswerTo(i)>>
             d == <<2, AnswerTo(i)>>
  <2>1. up = <<a, b>> /\ pc = "read" /\ response = <<>> /\ down = <<>> /\ conn = "open"
    BY <1>3, <1>6, <1>7 DEF Pages!RequestPieces
  <2>2. Pages!ResponsePieces(AnswerTo(i)) = <<c, d>>
    BY DEF Pages!ResponsePieces
  <2>3. a[2] = Question(i)
    OBVIOUS
  <2> HIDE DEF a, b, c, d
  <2>18. <<a, b>>[1] = a
    OBVIOUS
  <2>4. Len(<<a, b>>) = 2 /\ Len(<<a>>) = 1
        /\ SubSeq(<<a, b>>, 1, 1) = <<a>> /\ SubSeq(<<a, b>>, 1, 2) = <<a, b>>
        /\ SubSeq(<<a, b>>, 3, 2) = <<>> /\ <<>> \o <<c, d>> = <<c, d>>
    BY ShortTuples
  <2>5. n = 1 \/ n = 2
    BY <1>7, <2>1, <2>4
  <2>6. n # 1
    <3>1. SUFFICES ASSUME n = 1
                   PROVE  FALSE
      OBVIOUS
    <3>2. SubSeq(up, 1, n) = <<a>>
      BY <2>1, <2>4, <3>1
    <3>3. Len(SubSeq(up, 1, n)) = 2
      BY <1>7 DEF Pages!IsWhole
    <3> QED
      BY <2>4, <3>2, <3>3
  <2>7. n = 2
    BY <2>5, <2>6
  <2>8. SubSeq(up, 1, n) = <<a, b>> /\ up' = <<>>
    <3>1. n + 1 = 3
      BY <2>7
    <3> QED
      BY <1>7, <2>1, <2>4, <2>7, <3>1
  <2>9. SubSeq(up, 1, n)[1][2] = Question(i)
    <3>1. SubSeq(up, 1, n)[1] = a
      BY <2>8, <2>18
    <3> QED
      BY <2>3, <3>1
  <2>10. down' = Pieces(AnswerTo(i))
    BY <1>7, <2>1, <2>2, <2>4, <2>9 DEF AnswerTo, Pieces
  <2>11. UNCHANGED <<client_config, pc, i, response, correct, incorrect, unsent, lost>>
    BY <1>1 DEF Pages!client
  <2>12. /\ Pages!num_requests' = Pages!num_requests /\ Pages!page_count' = Pages!page_count
         /\ \A k : /\ Question(k)' = Question(k) /\ AnswerTo(k)' = AnswerTo(k)
                   /\ Known(k)' = Known(k)
    BY <1>1, <2>11, PagesConfigured
  <2>13. PagesTypes'
    BY <1>1, <1>7, <2>11, <2>12 DEF PagesInv, PagesTypes
  <2>14. PagesServer'
    BY <1>1, <1>7, <2>11, <2>12 DEF PagesInv, PagesServer
  <2>15. PagesExchange'
    <3>1. WholeAnswer(AnswerTo(i))' = WholeAnswer(AnswerTo(i))
      BY <2>11, <2>12 DEF WholeAnswer, Pieces, Pages!ResponsePieces
    <3>2. <<response', down'>> \in WholeAnswer(AnswerTo(i))
      BY <2>1, <2>10, <2>11 DEF WholeAnswer
    <3>3. pc' = "read" /\ up' = <<>>
      BY <2>1, <2>8, <2>11
    <3> QED
      BY <3>1, <3>2, <3>3 DEF PagesExchange
  <2>16. PagesReport'
    BY <2>1, <2>11, <2>12 DEF PagesInv, PagesReport
  <2>17. PagesLost'
    <3>1. conn' = "open" /\ pc' = "read"
      BY <1>7, <2>1, <2>11
    <3> QED
      BY <3>1 DEF PagesLost
  <2> QED
    BY <2>13, <2>14, <2>15, <2>16, <2>17 DEF PagesInv
<1>8. ASSUME NEW n \in 1 .. Len(up), ~Pages!IsWhole(SubSeq(up, 1, n)),
             Pages!CloseSocket(SubSeq(up, n + 1, Len(up))), thread' = "closed", UNCHANGED down
      PROVE  PagesInv'
  BY <1>4, <1>6, <1>8
<1> QED
  BY <1>5, <1>7, <1>8 DEF Pages!HandleClient

LEMMA NextKeepsPages == ASSUME PagesInv, [Pages!Next]_Pages!getpage PROVE PagesInv'
<1>1. CASE UNCHANGED Pages!getpage
  <2>1. UNCHANGED <<client_config, pc, i, response, correct, incorrect, unsent, lost,
                    server_config, up, down, conn, process, thread>>
    BY <1>1 DEF Pages!getpage, Pages!client
  <2>2. /\ Pages!num_requests' = Pages!num_requests /\ Pages!page_count' = Pages!page_count
        /\ \A k : /\ Question(k)' = Question(k) /\ AnswerTo(k)' = AnswerTo(k)
                  /\ Known(k)' = Known(k)
    BY <2>1, PagesConfigured
  <2>3. PagesTypes' /\ PagesServer' /\ PagesLost'
    <3>1. PagesTypes'
      BY <2>1, <2>2 DEF PagesInv, PagesTypes
    <3>2. PagesServer'
      BY <2>1, <2>2 DEF PagesInv, PagesServer
    <3>3. PagesLost'
      BY <2>1, <2>2 DEF PagesInv, PagesLost
    <3> QED
      BY <3>1, <3>2, <3>3
  <2>4. PagesExchange'
    <3>1. /\ Pieces(AnswerTo(i))' = Pieces(AnswerTo(i))
          /\ WholeAnswer(AnswerTo(i))' = WholeAnswer(AnswerTo(i))
          /\ CutAnswer(AnswerTo(i))' = CutAnswer(AnswerTo(i))
          /\ Pages!RequestPieces(Question(i))' = Pages!RequestPieces(Question(i))
      BY <2>1, <2>2 DEF WholeAnswer, CutAnswer, Pieces, Pages!ResponsePieces,
         Pages!RequestPieces
    <3> QED
      BY <2>1, <3>1 DEF PagesInv, PagesExchange
  <2>5. PagesReport'
    <3>1. {k \in 0 .. i - 1 : Known(k)}' = {k \in 0 .. i - 1 : Known(k)}
      BY <2>1, <2>2
    <3> QED
      BY <2>1, <2>2, <3>1 DEF PagesInv, PagesReport
  <2> QED
    BY <2>3, <2>4, <2>5 DEF PagesInv
<1>2. CASE Pages!Client
  BY <1>2, LoadConnectKeep, AskKeeps, ReadKeeps, CheckKeeps, ReturnKeeps DEF Pages!Client
<1>3. CASE Pages!Accept \/ Pages!AcceptFails \/ Pages!HandleClient \/ Pages!Reset
  BY <1>3, AcceptKeeps, AcceptFailsKeeps, AnswerKeeps, ResetKeeps
<1>4. CASE Pages!Terminated
  BY <1>1, <1>4 DEF Pages!Terminated
<1> QED
  BY <1>1, <1>2, <1>3, <1>4 DEF Pages!Next

LEMMA PagesAgree ==
  ASSUME PagesInv
  PROVE  Pages!ResponseIsOwn /\ Pages!StreamsAligned /\ Pages!ReportAddsUp
         /\ Pages!KilledAfterLoss
<1>1. Pages!ResponseIsOwn
  <2>1. SUFFICES ASSUME pc = "check"
                 PROVE  /\ Pages!IsWhole(response)
                        /\ LET header == Pages!to_host_order(response[1][2].header)
                           IN  /\ header.request_id = i
                               /\ header.page_number = i % Pages!page_count
    BY DEF Pages!ResponseIsOwn
  <2>2. response = Pieces(AnswerTo(i)) /\ i < Pages!num_requests /\ Pages!page_count > 0
    BY <2>1 DEF PagesInv, PagesServer, PagesExchange
  <2>3. ~client_config.throws
    BY <2>1 DEF PagesInv, PagesServer
  <2>4. /\ i \in Nat /\ Pages!num_requests \in Nat \ {0} /\ Pages!page_count \in Nat
        /\ Pages!num_requests <= Pages!Digits * Pages!Digits
    BY <2>3 DEF PagesInv, PagesTypes
  <2>5. i \in Word /\ i % Pages!page_count \in Word
    <3>1. i < Pages!num_requests /\ Pages!page_count > 0
      BY <2>2
    <3>2. Pages!page_count \in Nat \ {0}
      BY <2>4, <3>1
    <3>3. i % Pages!page_count \in Nat /\ i % Pages!page_count <= i
      BY <2>4, <3>2, Remainder
    <3>4. i \in 0 .. Pages!num_requests - 1
      BY <2>4, <3>1
    <3> QED
      BY <2>4, <3>3, <3>4 DEF Word, Pages!Digits
  <2>6. response = << <<1, AnswerTo(i)>>, <<2, AnswerTo(i)>> >>
    BY <2>2 DEF Pieces, Pages!ResponsePieces
  <2>7. response[1][2] = AnswerTo(i) /\ response[1][1] = 1 /\ response[2] = <<2, AnswerTo(i)>>
        /\ Len(response) = 2
    BY <2>6
  <2>8. Pages!IsWhole(response)
    BY <2>7 DEF Pages!IsWhole
  <2> QED
    BY <2>5, <2>7, <2>8, AnswerIsOwn
<1>2. Pages!StreamsAligned
  BY DEF Pages!StreamsAligned, PagesInv, PagesExchange
<1>3. Pages!ReportAddsUp
  <2>1. \A S : Pages!Cardinality(S) = Cardinality(S)
    BY DEF Pages!Cardinality, Cardinality
  <2>2. pc = "returned" /\ unsent + lost = 0 =>
          correct = Cardinality({k \in 0 .. Pages!num_requests - 1 :
                                   k % Pages!page_count < server_config.config.PAGE_COUNT})
    BY DEF PagesInv, PagesReport, Known
  <2>3. pc = "send" => correct + incorrect + unsent + lost = i
    BY DEF PagesInv, PagesReport
  <2> QED
    BY <2>1, <2>2, <2>3 DEF Pages!ReportAddsUp
<1>4. Pages!KilledAfterLoss
  BY DEF Pages!KilledAfterLoss, PagesInv, PagesLost
<1> QED
  BY <1>1, <1>2, <1>3, <1>4

(* For whatever configurations the client and the server find: the         *)
(* response checked is whole and the request's own (client.cpp:82), a      *)
(* connection that works is empty between requests, the report adds up,    *)
(* and only a loss or an empty range of pages ends the client.             *)
THEOREM PagesAlwaysAnswered == ProgramSpec => []PagesAnswered
<1> DEFINE I == program = "pages" => PagesInv
<1>1. ProgramInit => I
  BY InitOf, InitPages
<1>2. I /\ [ProgramNext]_programs => I'
  BY Dispatch, NextKeepsPages
<1>3. I => PagesAnswered
  BY PagesAgree DEF PagesAnswered
<1> QED
  BY <1>1, <1>2, <1>3, PTL DEF ProgramSpec

(***************************************************************************)
(* get_page in batches (GetPageIou).                                       *)
(***************************************************************************)

BatchPcs == {"setup_socket", "send_requests", "receive_responses", "reap", "returned",
             "terminated", "crashed"}
BatchThreads == {"none", "event_loop", "closed", "crashed"}
BatchConns == {"none", "connecting", "open", "client closed", "server closed", "reset", "dead"}

(* What the rings hold.                                                    *)
Asks == [event : {"SEND", "RECEIVE"}, j : Nat]
AskEnds == [event : {"SEND", "RECEIVE"}, j : Nat, res : Int]
Serves == [event : {"READ", "WRITE"}]
Questions == [request_id : Int, page_number : Int]
ServeEnds == [event : {"READ"}, res : {0}] \cup [event : {"READ"}, res : Int, request : Questions]
            \cup [event : {"WRITE"}]
Answers == [header : [request_id : Int, page_number : Int, status : Int],
            content : {"AA", "FA", "00"}]

BatchRing == [sq : Seq(Asks) \cup Seq(Serves), kernel : SUBSET Asks, reads : Int, writes : Int,
              cq : Seq(AskEnds) \cup Seq(ServeEnds)]
BatchRings == [{"client", "server"} -> BatchRing]

AskSq == rings["client"].sq
AskOps == rings["client"].kernel
AskCq == rings["client"].cq
ServeSq == rings["server"].sq
ReadsUnder == rings["server"].reads
WritesUnder == rings["server"].writes
ServeCq == rings["server"].cq

OpsOf(ops, event) == Cardinality({o \in ops : o.event = event})

BatchTypes ==
  /\ pc \in BatchPcs /\ i \in Nat /\ left \in Int /\ losses \in Nat
  /\ thread \in BatchThreads /\ conn \in BatchConns
  /\ rings \in BatchRings /\ IsFiniteSet(AskOps)
  /\ AskSq \in Seq(Asks) /\ AskCq \in Seq(AskEnds)
  /\ rings["client"].reads = 0 /\ rings["client"].writes = 0
  /\ rings["server"].kernel = {}
  /\ ServeSq \in Seq(Serves) /\ ServeCq \in Seq(ServeEnds)
  /\ ReadsUnder \in Nat /\ WritesUnder \in Nat
  /\ up \in Seq({1, 2} \X Questions) /\ down \in Seq({1, 2} \X Answers) /\ frame \in Answers
  /\ DOMAIN responses = 0 .. BatchRequests - 1

(* The server's reads are always as many, and a write is submitted with a  *)
(* read.                                                                   *)
BatchServer ==
  /\ thread # "crashed"
  /\ thread = "event_loop" =>
       /\ Batches!Of(ServeSq, "READ") + ReadsUnder + Batches!Of(ServeCq, "READ") = BatchSize
       /\ Batches!Of(ServeSq, "WRITE") <= Batches!Of(ServeSq, "READ")
  /\ thread # "event_loop" =>
       ServeSq = <<>> /\ ReadsUnder = 0 /\ WritesUnder = 0 /\ ServeCq = <<>>

BatchEnd == IF BatchRequests < i + BatchSize THEN BatchRequests ELSE i + BatchSize
AskWorking == pc \in {"send_requests", "receive_responses", "reap"}

(* Where the client's requests and receives are.                           *)
BatchClient ==
  /\ pc # "crashed"
  /\ pc \in {"setup_socket", "returned"} => AskSq = <<>> /\ AskOps = {} /\ AskCq = <<>>
  /\ pc = "setup_socket" => conn = "none" /\ i = 0
  /\ conn = "none" => pc \in {"setup_socket", "returned"} /\ thread = "none" /\ up = <<>> /\ down = <<>>
  /\ pc = "send_requests" => AskSq = <<>>
  /\ pc = "receive_responses" => i < BatchRequests /\ AskSq \in {<<>>, Batches!Batch("SEND")}
  /\ pc = "reap" =>
       /\ i < BatchRequests /\ left > 0
       /\ AskSq \in {<<>>, Batches!Batch("RECEIVE"),
                     Batches!Batch("SEND") \o Batches!Batch("RECEIVE")}
       /\ left = Batches!Of(AskSq, "RECEIVE") + OpsOf(AskOps, "RECEIVE")
                   + Batches!Of(AskCq, "RECEIVE")
  /\ pc \in {"send_requests", "receive_responses"} => Batches!Of(AskCq, "RECEIVE") = 0
  /\ AskWorking =>
       \A o \in AskOps :
         /\ o.event = "RECEIVE" => pc = "reap" /\ AskSq = <<>> /\ o.j >= i /\ o.j < BatchEnd
         /\ o.event = "SEND" =>
              /\ pc = "send_requests" \/ Batches!Of(AskSq, "SEND") > 0 => o.j < i
              /\ o.j < i \/ o.j < BatchEnd

(* Receives and sends that have not ended. *)
Receives == Batches!Of(AskSq, "RECEIVE") + OpsOf(AskOps, "RECEIVE")
              + IF pc = "receive_responses" THEN BatchEnd - i ELSE 0
Sends == Batches!Of(AskSq, "SEND") + OpsOf(AskOps, "SEND")

(* Pieces that the client is to receive of requests that were sent.        *)
Onward == Len(up) + 2 * Batches!Of(ServeCq, "READ") + 2 * Batches!Of(ServeSq, "WRITE")
            + 2 * WritesUnder + Len(down)

(* Without a loss a receive is owed for every request that is not sent or  *)
(* not answered, and completes after it.                                   *)
BatchFlow ==
  losses = 0 /\ AskWorking =>
    /\ conn \in {"connecting", "open"}
    /\ \A k \in DOMAIN ServeCq : ServeCq[k].event = "READ" => ServeCq[k].res = 2
    /\ 2 * Receives = 2 * Sends + Onward
    /\ Receives = 0 /\ AskCq # <<>> => AskCq[Len(AskCq)].event = "RECEIVE"
    /\ pc = "send_requests" => AskCq = <<>>

(* What is asked and answered for the pages that both programs have.       *)
GoodQuestions == {q \in Questions : Batches!PageOf(q) >= 0 /\ Batches!PageOf(q) < ClientPages}
GoodAnswers ==
  {a \in Answers : /\ a.content = "AA"
                   /\ Batches!to_host_order(a.header).page_number < ClientPages}

Paired(q, Good) ==
  \E n \in 0 .. Len(q) :
    /\ Len(q) = 2 * n
    /\ \A m \in 1 .. n : /\ q[2 * m - 1][1] = 1 /\ q[2 * m - 1][2] \in Good
                         /\ q[2 * m] = <<2, q[2 * m - 1][2]>>

GoodPieces(pieces) ==
  /\ Batches!IsWhole(pieces)
  /\ pieces[1][2] \in GoodAnswers

AskDone(k) ==
  \/ k < i
  \/ /\ pc = "reap" /\ k < BatchEnd
     /\ \A o \in AskOps : ~(o.event = "RECEIVE" /\ o.j = k)
     /\ \A m \in DOMAIN AskSq : ~(AskSq[m].event = "RECEIVE" /\ AskSq[m].j = k)

BatchData ==
  losses = 0 /\ ClientPages <= ServerPages =>
    /\ AskWorking =>
         /\ Paired(up, GoodQuestions) /\ Paired(down, GoodAnswers)
         /\ \A k \in DOMAIN ServeCq :
              ServeCq[k].event = "READ" => ServeCq[k].request \in GoodQuestions
         /\ Batches!Of(ServeSq, "WRITE") + WritesUnder > 0 => frame \in GoodAnswers
         /\ \A k \in 0 .. BatchRequests - 1 : AskDone(k) => GoodPieces(responses[k])
    /\ pc = "returned" /\ conn # "none" =>
         \A k \in 0 .. BatchRequests - 1 : GoodPieces(responses[k])

BatchesInv == BatchTypes /\ BatchServer /\ BatchClient /\ BatchFlow /\ BatchData

(***************************************************************************)
(* How many there are of a kind.                                           *)
(***************************************************************************)

LEMMA BatchCardinality == \A S : Batches!Cardinality(S) = Cardinality(S)
BY DEF Batches!Cardinality, Cardinality

LEMMA OfIsCount ==
  ASSUME NEW S, NEW s \in Seq(S), NEW e
  PROVE  Batches!Of(s, e) = Count(s, {x \in S : x.event = e})
<1>1. \A k \in DOMAIN s : s[k] \in S
  BY LenProperties, ElementOfSeq
<1>2. {k \in DOMAIN s : s[k].event = e} = {k \in DOMAIN s : s[k] \in {x \in S : x.event = e}}
  BY <1>1
<1> DEFINE P == {k \in DOMAIN s : s[k].event = e}
<1>3. Batches!Of(s, e) = Batches!Cardinality(P)
  BY DEF Batches!Of
<1>4. Count(s, {x \in S : x.event = e}) = Cardinality(P)
  BY <1>2 DEF Count
<1> HIDE DEF P
<1> QED
  BY <1>3, <1>4, BatchCardinality

LEMMA OfType ==
  ASSUME NEW S, NEW s \in Seq(S), NEW e
  PROVE  Batches!Of(s, e) \in Nat /\ Batches!Of(s, e) <= Len(s)
<1> DEFINE T == {x \in S : x.event = e}
<1>1. Batches!Of(s, e) = Count(s, T)
  BY OfIsCount
<1> HIDE DEF T
<1> QED
  BY <1>1, CountType

LEMMA OfEmpty ==
  ASSUME NEW e
  PROVE  Batches!Of(<<>>, e) = 0
<1> DEFINE T == {x \in {} : x.event = e}
<1>1. <<>> \in Seq({})
  OBVIOUS
<1>2. Batches!Of(<<>>, e) = Count(<<>>, T)
  BY <1>1, OfIsCount
<1> HIDE DEF T
<1> QED
  BY <1>2, CountEmpty

LEMMA OfAppend ==
  ASSUME NEW S, NEW s \in Seq(S), NEW x \in S, NEW e
  PROVE  /\ Append(s, x) \in Seq(S)
         /\ Batches!Of(Append(s, x), e) = Batches!Of(s, e) + IF x.event = e THEN 1 ELSE 0
<1> DEFINE T == {y \in S : y.event = e}
<1>1. Append(s, x) \in Seq(S)
  OBVIOUS
<1>2. Batches!Of(s, e) = Count(s, T) /\ Batches!Of(Append(s, x), e) = Count(Append(s, x), T)
  BY <1>1, OfIsCount
<1>3. One(x, T) = IF x.event = e THEN 1 ELSE 0
  BY DEF One
<1> HIDE DEF T
<1>4. Count(Append(s, x), T) = Count(s, T) + One(x, T)
  BY CountAppend
<1> QED
  BY <1>1, <1>2, <1>3, <1>4

LEMMA OfTail ==
  ASSUME NEW S, NEW s \in Seq(S), s # <<>>, NEW e
  PROVE  /\ Tail(s) \in Seq(S) /\ Head(s) \in S
         /\ Batches!Of(s, e) = (IF Head(s).event = e THEN 1 ELSE 0) + Batches!Of(Tail(s), e)
<1> DEFINE T == {y \in S : y.event = e}
<1>1. Tail(s) \in Seq(S) /\ Head(s) \in S
  OBVIOUS
<1>2. Batches!Of(s, e) = Count(s, T) /\ Batches!Of(Tail(s), e) = Count(Tail(s), T)
  BY <1>1, OfIsCount
<1>3. One(Head(s), T) = IF Head(s).event = e THEN 1 ELSE 0
  BY <1>1 DEF One
<1> HIDE DEF T
<1>4. Count(s, T) = One(Head(s), T) + Count(Tail(s), T)
  BY CountTail
<1> QED
  BY <1>1, <1>2, <1>3, <1>4

LEMMA OfConcat ==
  ASSUME NEW S, NEW s \in Seq(S), NEW t \in Seq(S), NEW e
  PROVE  /\ s \o t \in Seq(S)
         /\ Batches!Of(s \o t, e) = Batches!Of(s, e) + Batches!Of(t, e)
<1> DEFINE T == {y \in S : y.event = e}
<1>1. s \o t \in Seq(S)
  BY ConcatProperties
<1>2. /\ Batches!Of(s, e) = Count(s, T) /\ Batches!Of(t, e) = Count(t, T)
      /\ Batches!Of(s \o t, e) = Count(s \o t, T)
  BY <1>1, OfIsCount
<1> HIDE DEF T
<1>3. Count(s \o t, T) = Count(s, T) + Count(t, T)
  BY CountConcat
<1> QED
  BY <1>1, <1>2, <1>3

(* Of two kinds together there are as many as there are elements.          *)
LEMMA OfBoth ==
  ASSUME NEW s \in Seq(Serves)
  PROVE  Len(s) = Batches!Of(s, "READ") + Batches!Of(s, "WRITE")
<1> DEFINE A == {k \in DOMAIN s : s[k].event = "READ"}
           B == {k \in DOMAIN s : s[k].event = "WRITE"}
<1>1. DOMAIN s = 1 .. Len(s) /\ Len(s) \in Nat /\ \A k \in DOMAIN s : s[k] \in Serves
  BY LenProperties, ElementOfSeq
<1>2. A \cup B = 1 .. Len(s) /\ A \cap B = {}
  BY <1>1 DEF Serves
<1>4. Batches!Of(s, "READ") = Cardinality(A) /\ Batches!Of(s, "WRITE") = Cardinality(B)
  <2>1. Batches!Of(s, "READ") = Batches!Cardinality(A)
        /\ Batches!Of(s, "WRITE") = Batches!Cardinality(B)
    BY DEF Batches!Of
  <2> HIDE DEF A, B
  <2> QED
    BY <2>1, BatchCardinality
<1> HIDE DEF A, B
<1>3. IsFiniteSet(A \cup B) /\ Cardinality(A \cup B) = Len(s)
  <2>1. 1 \in Int /\ Len(s) \in Int
    BY <1>1
  <2>2. IsFiniteSet(1 .. Len(s)) /\ Cardinality(1 .. Len(s)) = IF 1 > Len(s) THEN 0 ELSE Len(s) - 1 + 1
    BY <2>1, FS_Interval
  <2>3. Cardinality(1 .. Len(s)) = Len(s)
    BY <1>1, <2>2
  <2> QED
    BY <1>2, <2>2, <2>3
<1>5. IsFiniteSet(A) /\ IsFiniteSet(B)
  <2>1. A \subseteq A \cup B /\ B \subseteq A \cup B
    OBVIOUS
  <2> QED
    BY <1>3, <2>1, FS_Subset
<1>6. Cardinality(A \cup B) = Cardinality(A) + Cardinality(B) - Cardinality(A \cap B)
      /\ Cardinality(A) \in Nat /\ Cardinality(B) \in Nat
  BY <1>5, FS_Union, FS_CardinalityType
<1>7. Cardinality(A \cap B) = 0
  BY <1>2, FS_EmptySet
<1> QED
  BY <1>3, <1>4, <1>6, <1>7

LEMMA OpsType ==
  ASSUME NEW K, IsFiniteSet(K), NEW e
  PROVE  /\ OpsOf(K, e) \in Nat
         /\ OpsOf(K, e) = 0 <=> \A o \in K : o.event # e
<1> DEFINE A == {o \in K : o.event = e}
<1>1. A \subseteq K
  OBVIOUS
<1> HIDE DEF A
<1>2. IsFiniteSet(A)
  BY <1>1, FS_Subset
<1>3. Cardinality(A) \in Nat /\ (Cardinality(A) = 0 <=> A = {})
  BY <1>2, FS_CardinalityType, FS_EmptySet
<1> QED
  BY <1>3 DEF A, OpsOf

LEMMA OpsRemove ==
  ASSUME NEW K, IsFiniteSet(K), NEW o \in K, NEW e
  PROVE  /\ IsFiniteSet(K \ {o})
         /\ OpsOf(K, e) = OpsOf(K \ {o}, e) + IF o.event = e THEN 1 ELSE 0
<1> DEFINE A == {p \in K : p.event = e}
           B == {p \in K \ {o} : p.event = e}
<1>1. /\ A \subseteq K /\ B = A \ {o} /\ (o \in A <=> o.event = e)
      /\ OpsOf(K, e) = Cardinality(A) /\ OpsOf(K \ {o}, e) = Cardinality(B)
  BY DEF OpsOf
<1> HIDE DEF A, B
<1>2. IsFiniteSet(A) /\ IsFiniteSet(K \ {o})
  BY <1>1, FS_Subset
<1>3. Cardinality(A \ {o}) = IF o \in A THEN Cardinality(A) - 1 ELSE Cardinality(A)
  BY <1>2, FS_RemoveElement
<1>4. Cardinality(A) \in Nat
  BY <1>2, FS_CardinalityType
<1> QED
  BY <1>1, <1>2, <1>3, <1>4

LEMMA OpsJoined ==
  ASSUME NEW K, IsFiniteSet(K), NEW L, IsFiniteSet(L), NEW e,
         \A o \in K : \A p \in L : o.event = e /\ p.event = e => o # p
  PROVE  /\ IsFiniteSet(K \cup L)
         /\ OpsOf(K \cup L, e) = OpsOf(K, e) + OpsOf(L, e)
<1> DEFINE A == {o \in K : o.event = e}
           B == {o \in L : o.event = e}
           C == {o \in K \cup L : o.event = e}
<1>1. /\ A \subseteq K /\ B \subseteq L /\ C = A \cup B /\ A \cap B = {}
      /\ OpsOf(K, e) = Cardinality(A) /\ OpsOf(L, e) = Cardinality(B)
      /\ OpsOf(K \cup L, e) = Cardinality(C)
  BY DEF OpsOf
<1> HIDE DEF A, B, C
<1>2. IsFiniteSet(A) /\ IsFiniteSet(B)
  BY <1>1, FS_Subset
<1>3. Cardinality(A \cup B) = Cardinality(A) + Cardinality(B) - Cardinality(A \cap B)
      /\ IsFiniteSet(K \cup L) /\ Cardinality(A) \in Nat /\ Cardinality(B) \in Nat
  BY <1>2, FS_Union, FS_CardinalityType
<1>4. Cardinality(A \cap B) = 0
  BY <1>1, FS_EmptySet
<1> QED
  BY <1>1, <1>3, <1>4

(***************************************************************************)
(* A batch.                                                                *)
(***************************************************************************)

LEMMA BatchOf ==
  ASSUME i \in Nat, i < BatchRequests, NEW e \in {"SEND", "RECEIVE"}
  PROVE  LET n == BatchEnd - i
             b == Batches!Batch(e)
         IN  /\ BatchEnd \in Nat /\ BatchEnd <= BatchRequests /\ BatchEnd <= i + BatchSize
             /\ n \in 1 .. BatchSize
             /\ b \in Seq(Asks) /\ Len(b) = n /\ b # <<>>
             /\ \A k \in 1 .. n : b[k] = [event |-> e, j |-> i + k - 1]
             /\ \A m : m \in i .. BatchEnd - 1 <=>
                          \E k \in 1 .. n : b[k] = [event |-> e, j |-> m]
<1> DEFINE n == BatchEnd - i
           b == Batches!Batch(e)
<1>1. BatchRequests \in Nat /\ BatchSize \in Nat \ {0}
  BY BatchesAssumption
<1>2. /\ BatchEnd \in Nat /\ BatchEnd <= BatchRequests /\ BatchEnd <= i + BatchSize
      /\ n \in 1 .. BatchSize
  BY <1>1 DEF BatchEnd
<1>3. b = [k \in 1 .. n |-> [event |-> e, j |-> i + k - 1]]
  BY DEF Batches!Batch, BatchEnd
<1> HIDE DEF n, b
<1>4. \A k \in 1 .. n : [event |-> e, j |-> i + k - 1] \in Asks
  BY <1>2 DEF Asks
<1>5. b \in Seq(Asks) /\ Len(b) = n /\ DOMAIN b = 1 .. n
  <2>1. [k \in 1 .. n |-> [event |-> e, j |-> i + k - 1]] \in [1 .. n -> Asks]
    BY <1>4
  <2>2. n \in Nat
    BY <1>2
  <2>3. b \in [1 .. n -> Asks]
    BY <1>3, <2>1, Zenon
  <2> QED
    BY <2>2, <2>3
<1>6. \A k \in 1 .. n : b[k] = [event |-> e, j |-> i + k - 1]
  BY <1>3
<1>7. b # <<>>
  BY <1>2, <1>5
<1>8. \A m : m \in i .. BatchEnd - 1 <=> \E k \in 1 .. n : b[k] = [event |-> e, j |-> m]
  <2>1. ASSUME NEW m \in i .. BatchEnd - 1
        PROVE  \E k \in 1 .. n : b[k] = [event |-> e, j |-> m]
    <3>1. m - i + 1 \in 1 .. n /\ i + (m - i + 1) - 1 = m
      BY <1>2 DEF n
    <3> QED
      BY <1>6, <3>1
  <2>2. ASSUME NEW m, NEW k \in 1 .. n, b[k] = [event |-> e, j |-> m]
        PROVE  m \in i .. BatchEnd - 1
    <3>1. [event |-> e, j |-> m].j = [event |-> e, j |-> i + k - 1].j
      BY <1>6, <2>2
    <3>2. m = i + k - 1
      BY <3>1
    <3> QED
      BY <1>2, <3>2 DEF n
  <2> QED
    BY <2>1, <2>2
<1> QED
  BY <1>2, <1>5, <1>6, <1>7, <1>8 DEF n, b

LEMMA BatchCounts ==
  ASSUME i \in Nat, i < BatchRequests, NEW e \in {"SEND", "RECEIVE"},
         NEW f \in {"SEND", "RECEIVE"}
  PROVE  LET b == Batches!Batch(e)
         IN  /\ Batches!Of(b, f) = IF f = e THEN BatchEnd - i ELSE 0
             /\ IsFiniteSet(ToSet(b)) /\ ToSet(b) \subseteq Asks
             /\ OpsOf(ToSet(b), f) = IF f = e THEN BatchEnd - i ELSE 0
             /\ \A o : o \in ToSet(b) <=> \E m \in i .. BatchEnd - 1 : o = [event |-> e, j |-> m]
<1> DEFINE n == BatchEnd - i
           b == Batches!Batch(e)
<1>1. /\ BatchEnd \in Nat /\ n \in Nat /\ b \in Seq(Asks) /\ Len(b) = n
      /\ \A k \in 1 .. n : b[k] = [event |-> e, j |-> i + k - 1]
      /\ \A m : m \in i .. BatchEnd - 1 <=> \E k \in 1 .. n : b[k] = [event |-> e, j |-> m]
  <2>1. /\ BatchEnd \in Nat /\ n \in 1 .. BatchSize /\ b \in Seq(Asks) /\ Len(b) = n
        /\ \A k \in 1 .. n : b[k] = [event |-> e, j |-> i + k - 1]
        /\ \A m : m \in i .. BatchEnd - 1 <=> \E k \in 1 .. n : b[k] = [event |-> e, j |-> m]
    BY ONLY BatchOf, i \in Nat, i < BatchRequests, e \in {"SEND", "RECEIVE"}, Zenon
  <2>2. n \in Nat
    <3>1. n \in 1 .. BatchSize
      BY <2>1
    <3> HIDE DEF n
    <3> QED
      BY ONLY <3>1
  <2> HIDE DEF n, b
  <2> QED
    BY ONLY <2>1, <2>2, Zenon
<1>2. DOMAIN b = 1 .. n
  BY <1>1, LenProperties
<1> HIDE DEF n, b
<1>3. {k \in DOMAIN b : b[k].event = f} = IF f = e THEN 1 .. n ELSE {}
  BY <1>1, <1>2
<1>4. Batches!Of(b, f) = IF f = e THEN n ELSE 0
  <2>1. Cardinality(1 .. n) = n
    <3>1. 1 \in Int /\ n \in Int /\ n \in Nat
      BY <1>1
    <3>2. Cardinality(1 .. n) = IF 1 > n THEN 0 ELSE n - 1 + 1
      BY <3>1, FS_Interval
    <3> QED
      BY <3>1, <3>2
  <2> DEFINE P == {k \in DOMAIN b : b[k].event = f}
  <2>2. Batches!Of(b, f) = Batches!Cardinality(P)
    BY DEF Batches!Of
  <2>3. P = IF f = e THEN 1 .. n ELSE {}
    BY <1>3
  <2> HIDE DEF P
  <2>4. Batches!Of(b, f) = Cardinality(P)
    BY <2>2, BatchCardinality
  <2>5. CASE f = e
    BY <2>1, <2>3, <2>4, <2>5
  <2>6. CASE f # e
    BY <2>3, <2>4, <2>6, FS_EmptySet
  <2> QED
    BY <2>5, <2>6
<1> DEFINE K == ToSet(b)
<1>5. K = {b[k] : k \in 1 .. n}
  BY <1>2 DEF ToSet
<1>6. \A o : o \in K <=> \E m \in i .. BatchEnd - 1 : o = [event |-> e, j |-> m]
  <2>1. ASSUME NEW k \in 1 .. n
        PROVE  \E m \in i .. BatchEnd - 1 : b[k] = [event |-> e, j |-> m]
    <3>1. b[k] = [event |-> e, j |-> i + k - 1]
      BY <1>1
    <3>2. i + k - 1 \in i .. BatchEnd - 1
      BY <1>1, <3>1
    <3> QED
      BY <3>1, <3>2
  <2>2. ASSUME NEW m \in i .. BatchEnd - 1
        PROVE  \E k \in 1 .. n : b[k] = [event |-> e, j |-> m]
    BY <1>1
  <2>3. ASSUME NEW o \in K
        PROVE  \E m \in i .. BatchEnd - 1 : o = [event |-> e, j |-> m]
    <3>1. PICK k \in 1 .. n : o = b[k]
      BY <1>5
    <3> QED
      BY <2>1, <3>1
  <2>4. ASSUME NEW o, NEW m \in i .. BatchEnd - 1, o = [event |-> e, j |-> m]
        PROVE  o \in K
    BY <1>5, <2>2, <2>4
  <2> QED
    BY <2>3, <2>4
<1> DEFINE g == [k \in 1 .. n |-> b[k]]
<1>7. g \in Bijection(1 .. n, K)
  <2>1. \A k, l \in 1 .. n : b[k] = b[l] => k = l
    <3> SUFFICES ASSUME NEW k \in 1 .. n, NEW l \in 1 .. n, b[k] = b[l] PROVE k = l
      OBVIOUS
    <3>1. i + k - 1 = i + l - 1
      BY <1>1
    <3> QED
      BY <3>1
  <2> QED
    BY <1>5, <2>1 DEF Bijection, Injection, Surjection, IsInjective
<1>8. IsFiniteSet(K) /\ Cardinality(K) = n
  <2>1. ExistsBijection(1 .. n, K)
    BY <1>7 DEF ExistsBijection
  <2>2. IsFiniteSet(1 .. n) /\ Cardinality(1 .. n) = n
    BY <1>1, FS_Interval
  <2> HIDE DEF K
  <2> QED
    BY <2>1, <2>2, FS_Bijection
<1>9. K \subseteq Asks
  <2>1. \A k \in 1 .. n : b[k] \in Asks
    BY <1>1, ElementOfSeq
  <2> QED
    BY <1>5, <2>1
<1> HIDE DEF K
<1>10. {o \in K : o.event = f} = IF f = e THEN K ELSE {}
  BY <1>6
<1>11. OpsOf(K, f) = IF f = e THEN n ELSE 0
  BY <1>8, <1>10, FS_EmptySet DEF OpsOf
<1> QED
  BY <1>4, <1>6, <1>8, <1>9, <1>11 DEF n, b, K

(***************************************************************************)
(* What a step makes of the rings.                                         *)
(***************************************************************************)

AskRing(s, k, c) ==
  /\ rings' \in BatchRings
  /\ rings'["client"].reads = 0 /\ rings'["client"].writes = 0 /\ rings'["server"].kernel = {}
  /\ AskSq' = s /\ AskOps' = k /\ AskCq' = c
  /\ ServeSq' = ServeSq /\ ServeCq' = ServeCq
  /\ ReadsUnder' = ReadsUnder /\ WritesUnder' = WritesUnder

ServeRing(s, m, w, c) ==
  /\ rings' \in BatchRings
  /\ rings'["client"].reads = 0 /\ rings'["client"].writes = 0 /\ rings'["server"].kernel = {}
  /\ AskSq' = AskSq /\ AskOps' = AskOps /\ AskCq' = AskCq
  /\ ServeSq' = s /\ ServeCq' = c
  /\ ReadsUnder' = m /\ WritesUnder' = w

RingOf(s, k, m, w, c) == [sq |-> s, kernel |-> k, reads |-> m, writes |-> w, cq |-> c]
Put(side, r) == rings' = [rings EXCEPT ![side] = r]

LEMMA RingSq ==
  ASSUME NEW s, NEW k, NEW m, NEW w, NEW c, NEW x
  PROVE  [RingOf(s, k, m, w, c) EXCEPT !.sq = x] = RingOf(x, k, m, w, c)
BY DEF RingOf

LEMMA RingCq ==
  ASSUME NEW s, NEW k, NEW m, NEW w, NEW c, NEW x
  PROVE  [RingOf(s, k, m, w, c) EXCEPT !.cq = x] = RingOf(s, k, m, w, x)
BY DEF RingOf

LEMMA RingKernel ==
  ASSUME NEW s, NEW k, NEW m, NEW w, NEW c, NEW x
  PROVE  [RingOf(s, k, m, w, c) EXCEPT !.kernel = x] = RingOf(s, x, m, w, c)
BY DEF RingOf

LEMMA RingReads ==
  ASSUME NEW s, NEW k, NEW m, NEW w, NEW c, NEW x
  PROVE  [RingOf(s, k, m, w, c) EXCEPT !["reads"] = x] = RingOf(s, k, x, w, c)
BY DEF RingOf

LEMMA RingWrites ==
  ASSUME NEW s, NEW k, NEW m, NEW w, NEW c, NEW x
  PROVE  [RingOf(s, k, m, w, c) EXCEPT !["writes"] = x] = RingOf(s, k, m, x, c)
BY DEF RingOf

LEMMA RingsType ==
  ASSUME BatchTypes
  PROVE  /\ rings["client"] = RingOf(AskSq, AskOps, 0, 0, AskCq)
         /\ rings["server"] = RingOf(ServeSq, {}, ReadsUnder, WritesUnder, ServeCq)
         /\ AskSq \in Seq(Asks) /\ AskOps \in SUBSET Asks /\ AskCq \in Seq(AskEnds)
         /\ ServeSq \in Seq(Serves) /\ ServeCq \in Seq(ServeEnds)
         /\ ReadsUnder \in Nat /\ WritesUnder \in Nat
<1>1. rings \in [{"client", "server"} -> BatchRing]
  BY DEF BatchTypes, BatchRings
<1>2. rings["client"] \in BatchRing /\ rings["server"] \in BatchRing
  BY <1>1
<1>3. rings["client"] = RingOf(AskSq, AskOps, 0, 0, AskCq)
  BY <1>2 DEF BatchTypes, BatchRing, AskSq, AskOps, AskCq, RingOf
<1>4. rings["server"] = RingOf(ServeSq, {}, ReadsUnder, WritesUnder, ServeCq)
  BY <1>2 DEF BatchTypes, BatchRing, ServeSq, ServeCq, ReadsUnder, WritesUnder, RingOf
<1>5. AskOps \in SUBSET Asks
  BY <1>2 DEF BatchRing, AskOps
<1> QED
  BY <1>3, <1>4, <1>5 DEF BatchTypes

LEMMA RingFields ==
  ASSUME BatchTypes
  PROVE  /\ rings["client"].sq = AskSq /\ rings["client"].kernel = AskOps
         /\ rings["client"].cq = AskCq
         /\ rings["client"].reads = 0 /\ rings["client"].writes = 0
         /\ rings["server"].sq = ServeSq /\ rings["server"].cq = ServeCq
         /\ rings["server"].reads = ReadsUnder /\ rings["server"].writes = WritesUnder
         /\ rings["server"].kernel = {}
BY DEF BatchTypes, AskSq, AskOps, AskCq, ServeSq, ServeCq, ReadsUnder, WritesUnder

LEMMA RingsPut ==
  ASSUME BatchTypes, NEW side \in {"client", "server"}, NEW r \in BatchRing, Put(side, r)
  PROVE  /\ rings' \in BatchRings
         /\ rings'[side] = r
         /\ \A other \in {"client", "server"} \ {side} : rings'[other] = rings[other]
<1>1. rings \in [{"client", "server"} -> BatchRing]
  BY DEF BatchTypes, BatchRings
<1> QED
  BY <1>1 DEF Put, BatchRings

LEMMA AskRingMade ==
  ASSUME BatchTypes, NEW s \in Seq(Asks), NEW k \in SUBSET Asks, NEW c \in Seq(AskEnds),
         Put("client", RingOf(s, k, 0, 0, c))
  PROVE  AskRing(s, k, c)
<1> DEFINE r == RingOf(s, k, 0, 0, c)
<1>1. r \in BatchRing /\ r.sq = s /\ r.kernel = k /\ r.cq = c /\ r.reads = 0 /\ r.writes = 0
  BY DEF BatchRing, RingOf
<1> HIDE DEF r
<1>2. /\ rings' \in BatchRings
      /\ rings'["client"] = r /\ rings'["server"] = rings["server"]
  BY <1>1, RingsPut DEF r
<1>3. rings["server"].kernel = {}
  BY RingFields
<1> QED
  BY <1>1, <1>2, <1>3
     DEF AskRing, AskSq, AskOps, AskCq, ServeSq, ServeCq, ReadsUnder, WritesUnder

LEMMA ServeRingMade ==
  ASSUME BatchTypes, NEW s \in Seq(Serves), NEW m \in Int, NEW w \in Int, NEW c \in Seq(ServeEnds),
         Put("server", RingOf(s, {}, m, w, c))
  PROVE  ServeRing(s, m, w, c)
<1> DEFINE r == RingOf(s, {}, m, w, c)
<1>1. r \in BatchRing /\ r.sq = s /\ r.kernel = {} /\ r.cq = c /\ r.reads = m /\ r.writes = w
  BY DEF BatchRing, RingOf
<1> HIDE DEF r
<1>2. /\ rings' \in BatchRings
      /\ rings'["server"] = r /\ rings'["client"] = rings["client"]
  BY <1>1, RingsPut DEF r
<1>3. rings["client"].reads = 0 /\ rings["client"].writes = 0
  BY RingFields
<1> QED
  BY <1>1, <1>2, <1>3
     DEF ServeRing, AskSq, AskOps, AskCq, ServeSq, ServeCq, ReadsUnder, WritesUnder

LEMMA AsksSubmitted ==
  ASSUME BatchTypes, NEW b \in Seq(Asks), Batches!Submit("client", b)
  PROVE  AskRing(AskSq \o b, AskOps, AskCq)
<1> DEFINE a == rings["client"]
           x == AskSq \o b
<1>1. Put("client", [a EXCEPT !.sq = a.sq \o b])
  BY DEF Batches!Submit, Put
<1>2. a.sq \o b = x /\ a = RingOf(AskSq, AskOps, 0, 0, AskCq)
  BY RingFields, RingsType
<1>3. x \in Seq(Asks)
  BY RingsType, ConcatProperties
<1> HIDE DEF a, x
<1>4. [a EXCEPT !.sq = x] = RingOf(x, AskOps, 0, 0, AskCq)
  BY <1>2, RingSq
<1>5. Put("client", RingOf(x, AskOps, 0, 0, AskCq))
  BY <1>1, <1>2, <1>4
<1> QED
  BY <1>3, <1>5, RingsType, AskRingMade DEF x

LEMMA AskReaped ==
  ASSUME BatchTypes, AskCq # <<>>, rings' = [rings EXCEPT !["client"].cq = Tail(@)]
  PROVE  AskRing(AskSq, AskOps, Tail(AskCq))
<1> DEFINE a == rings["client"]
           x == Tail(AskCq)
<1>1. Put("client", [a EXCEPT !.cq = Tail(a.cq)])
  BY DEF Put
<1>2. Tail(a.cq) = x /\ a = RingOf(AskSq, AskOps, 0, 0, AskCq)
  BY RingFields, RingsType
<1>3. x \in Seq(AskEnds)
  BY RingsType
<1> HIDE DEF a, x
<1>4. [a EXCEPT !.cq = x] = RingOf(AskSq, AskOps, 0, 0, x)
  BY <1>2, RingCq
<1>5. Put("client", RingOf(AskSq, AskOps, 0, 0, x))
  BY <1>1, <1>2, <1>4
<1> QED
  BY <1>3, <1>5, RingsType, AskRingMade DEF x

LEMMA AskRingGone ==
  ASSUME BatchTypes, rings' = [rings EXCEPT !["client"] = Batches!EmptyRing]
  PROVE  AskRing(<<>>, {}, <<>>)
<1>1. <<>> \in Seq(Asks) /\ {} \in SUBSET Asks /\ <<>> \in Seq(AskEnds)
  OBVIOUS
<1>2. Put("client", RingOf(<<>>, {}, 0, 0, <<>>))
  BY DEF Batches!EmptyRing, Put, RingOf
<1> QED
  BY <1>1, <1>2, AskRingMade

LEMMA AskCompleted ==
  ASSUME BatchTypes, NEW o \in AskOps, NEW res \in Int, Batches!Completes(o, res)
  PROVE  /\ AskRing(AskSq, AskOps \ {o}, Append(AskCq, [event |-> o.event, j |-> o.j, res |-> res]))
         /\ o \in Asks /\ [event |-> o.event, j |-> o.j, res |-> res] \in AskEnds
<1> DEFINE a == rings["client"]
           e == [event |-> o.event, j |-> o.j, res |-> res]
           x == AskOps \ {o}
           y == Append(AskCq, e)
<1>1. o \in Asks /\ x \in SUBSET Asks
  BY RingsType
<1>2. e \in AskEnds
  BY <1>1 DEF Asks, AskEnds
<1>3. Put("client", [[a EXCEPT !.kernel = a.kernel \ {o}] EXCEPT !.cq = Append(a.cq, e)])
  BY DEF Batches!Completes, Put
<1> HIDE DEF e
<1>4. y \in Seq(AskEnds)
  BY <1>2, RingsType
<1>5. a.kernel \ {o} = x /\ Append(a.cq, e) = y /\ a = RingOf(AskSq, AskOps, 0, 0, AskCq)
  BY RingFields, RingsType
<1> HIDE DEF a, x, y
<1>6. [[a EXCEPT !.kernel = x] EXCEPT !.cq = y] = RingOf(AskSq, x, 0, 0, y)
  <2>1. [a EXCEPT !.kernel = x] = RingOf(AskSq, x, 0, 0, AskCq)
    BY <1>5, RingKernel
  <2>2. [RingOf(AskSq, x, 0, 0, AskCq) EXCEPT !.cq = y] = RingOf(AskSq, x, 0, 0, y)
    BY RingCq
  <2> QED
    BY <2>1, <2>2
<1>7. Put("client", RingOf(AskSq, x, 0, 0, y))
  BY <1>3, <1>5, <1>6
<1>8. AskRing(AskSq, x, y)
  BY <1>1, <1>4, <1>7, RingsType, AskRingMade
<1> QED
  BY <1>1, <1>2, <1>8 DEF x, y, e

LEMMA AskPolled ==
  ASSUME BatchTypes, Batches!Poll("client")
  PROVE  AskRing(<<>>, AskOps \cup ToSet(AskSq), AskCq) /\ ToSet(AskSq) \subseteq Asks
<1> DEFINE a == rings["client"]
           x == AskOps \cup ToSet(AskSq)
<1>1. \A e \in {"READ", "WRITE"} : Batches!Of(AskSq, e) = 0
  <2> SUFFICES ASSUME NEW e \in {"READ", "WRITE"} PROVE Batches!Of(AskSq, e) = 0
    OBVIOUS
  <2> DEFINE T == {z \in Asks : z.event = e}
  <2>1. Batches!Of(AskSq, e) = Count(AskSq, T)
    BY RingsType, OfIsCount
  <2>2. \A z \in Asks : z \notin T
    BY DEF Asks
  <2> HIDE DEF T
  <2> QED
    BY <2>1, <2>2, RingsType, CountNone
<1>2. Batches!ToSet(AskSq) = ToSet(AskSq)
  BY DEF Batches!ToSet, ToSet
<1>3. ToSet(AskSq) \in SUBSET Asks
  <2>1. \A k \in DOMAIN AskSq : AskSq[k] \in Asks
    BY RingsType, ElementOfSeq, LenProperties
  <2> QED
    BY <2>1 DEF ToSet
<1>4. Put("client", RingOf(<<>>, a.kernel \cup Batches!ToSet(a.sq),
                           a.reads + Batches!Of(a.sq, "READ"),
                           a.writes + Batches!Of(a.sq, "WRITE"), a.cq))
  BY DEF Batches!Poll, Put, RingOf
<1>5. /\ a.kernel \cup Batches!ToSet(a.sq) = x /\ a.cq = AskCq
      /\ a.reads + Batches!Of(a.sq, "READ") = 0 /\ a.writes + Batches!Of(a.sq, "WRITE") = 0
  BY <1>1, <1>2, RingFields
<1>6. <<>> \in Seq(Asks) /\ x \in SUBSET Asks
  BY <1>3, RingsType
<1> HIDE DEF a, x
<1>7. Put("client", RingOf(<<>>, x, 0, 0, AskCq))
  BY <1>4, <1>5
<1>8. AskRing(<<>>, x, AskCq)
  BY <1>6, <1>7, RingsType, AskRingMade
<1> QED
  BY <1>3, <1>8 DEF x

LEMMA ServePolled ==
  ASSUME BatchTypes, Batches!Poll("server")
  PROVE  ServeRing(<<>>, ReadsUnder + Batches!Of(ServeSq, "READ"),
                   WritesUnder + Batches!Of(ServeSq, "WRITE"), ServeCq)
<1> DEFINE a == rings["server"]
           m == ReadsUnder + Batches!Of(ServeSq, "READ")
           w == WritesUnder + Batches!Of(ServeSq, "WRITE")
<1>1. m \in Int /\ w \in Int
  <2>1. Batches!Of(ServeSq, "READ") \in Nat /\ Batches!Of(ServeSq, "WRITE") \in Nat
    BY RingsType, OfType
  <2> QED
    BY <2>1, RingsType
<1>2. Put("server", RingOf(<<>>, a.kernel, a.reads + Batches!Of(a.sq, "READ"),
                           a.writes + Batches!Of(a.sq, "WRITE"), a.cq))
  BY DEF Batches!Poll, Put, RingOf
<1>3. /\ a.kernel = {} /\ a.cq = ServeCq
      /\ a.reads + Batches!Of(a.sq, "READ") = m /\ a.writes + Batches!Of(a.sq, "WRITE") = w
  BY RingFields
<1> HIDE DEF a, m, w
<1>4. <<>> \in Seq(Serves)
  OBVIOUS
<1>5. Put("server", RingOf(<<>>, {}, m, w, ServeCq))
  BY <1>2, <1>3
<1>6. ServeRing(<<>>, m, w, ServeCq)
  BY <1>1, <1>4, <1>5, RingsType, ServeRingMade
<1> QED
  BY <1>6 DEF m, w

LEMMA ServesSubmitted ==
  ASSUME BatchTypes, NEW b \in Seq(Serves), Batches!Submit("server", b)
  PROVE  ServeRing(ServeSq \o b, ReadsUnder, WritesUnder, ServeCq)
<1> DEFINE a == rings["server"]
           x == ServeSq \o b
<1>1. Put("server", [a EXCEPT !.sq = a.sq \o b])
  BY DEF Batches!Submit, Put
<1>2. a.sq \o b = x /\ a = RingOf(ServeSq, {}, ReadsUnder, WritesUnder, ServeCq)
  BY RingFields, RingsType
<1>3. x \in Seq(Serves)
  BY RingsType, ConcatProperties
<1> HIDE DEF a, x
<1>4. [a EXCEPT !.sq = x] = RingOf(x, {}, ReadsUnder, WritesUnder, ServeCq)
  BY <1>2, RingSq
<1>5. Put("server", RingOf(x, {}, ReadsUnder, WritesUnder, ServeCq))
  BY <1>1, <1>2, <1>4
<1>6. ReadsUnder \in Int /\ WritesUnder \in Int
  BY RingsType
<1> QED
  BY <1>3, <1>5, <1>6, RingsType, ServeRingMade DEF x

LEMMA ServeReaped ==
  ASSUME BatchTypes, ServeCq # <<>>,
         rings' = [rings EXCEPT !["server"] = [rings["server"] EXCEPT !.cq = Tail(@)]]
  PROVE  ServeRing(ServeSq, ReadsUnder, WritesUnder, Tail(ServeCq))
<1> DEFINE a == rings["server"]
           x == Tail(ServeCq)
<1>1. Put("server", [a EXCEPT !.cq = Tail(a.cq)])
  BY DEF Put
<1>2. Tail(a.cq) = x /\ a = RingOf(ServeSq, {}, ReadsUnder, WritesUnder, ServeCq)
  BY RingFields, RingsType
<1>3. x \in Seq(ServeEnds) /\ ReadsUnder \in Int /\ WritesUnder \in Int
  BY RingsType
<1> HIDE DEF a, x
<1>4. [a EXCEPT !.cq = x] = RingOf(ServeSq, {}, ReadsUnder, WritesUnder, x)
  BY <1>2, RingCq
<1>5. Put("server", RingOf(ServeSq, {}, ReadsUnder, WritesUnder, x))
  BY <1>1, <1>2, <1>4
<1> QED
  BY <1>3, <1>5, RingsType, ServeRingMade DEF x

LEMMA ServeAnswered ==
  ASSUME BatchTypes, ServeCq # <<>>, NEW b \in Seq(Serves),
         rings' = [rings EXCEPT !["server"] =
                     [[rings["server"] EXCEPT !.cq = Tail(@)] EXCEPT !.sq = @ \o b]]
  PROVE  ServeRing(ServeSq \o b, ReadsUnder, WritesUnder, Tail(ServeCq))
<1> DEFINE a == rings["server"]
           x == Tail(ServeCq)
           y == ServeSq \o b
<1>1. Put("server", [[a EXCEPT !.cq = Tail(a.cq)] EXCEPT !.sq = [a EXCEPT !.cq = Tail(a.cq)].sq \o b])
  BY DEF Put
<1>2. Tail(a.cq) = x /\ a = RingOf(ServeSq, {}, ReadsUnder, WritesUnder, ServeCq)
  BY RingFields, RingsType
<1>3. x \in Seq(ServeEnds) /\ ReadsUnder \in Int /\ WritesUnder \in Int
  BY RingsType
<1>4. y \in Seq(Serves)
  BY RingsType, ConcatProperties
<1> HIDE DEF a, x
<1>5. [a EXCEPT !.cq = x] = RingOf(ServeSq, {}, ReadsUnder, WritesUnder, x)
  BY <1>2, RingCq
<1>6. RingOf(ServeSq, {}, ReadsUnder, WritesUnder, x).sq \o b = y
  BY DEF RingOf
<1> HIDE DEF y
<1>7. [[a EXCEPT !.cq = x] EXCEPT !.sq = y] = RingOf(y, {}, ReadsUnder, WritesUnder, x)
  <2>1. [a EXCEPT !.cq = x] = RingOf(ServeSq, {}, ReadsUnder, WritesUnder, x)
    BY <1>2, RingCq
  <2>2. [RingOf(ServeSq, {}, ReadsUnder, WritesUnder, x) EXCEPT !.sq = y] = RingOf(y, {}, ReadsUnder, WritesUnder, x)
    BY RingSq
  <2> QED
    BY <2>1, <2>2
<1>8. Put("server", RingOf(y, {}, ReadsUnder, WritesUnder, x))
  BY <1>1, <1>2, <1>5, <1>6, <1>7
<1> QED
  BY <1>3, <1>4, <1>8, RingsType, ServeRingMade DEF x, y

LEMMA ServeRingGone ==
  ASSUME BatchTypes, rings' = [rings EXCEPT !["server"] = Batches!EmptyRing]
  PROVE  ServeRing(<<>>, 0, 0, <<>>)
<1>1. <<>> \in Seq(Serves) /\ <<>> \in Seq(ServeEnds) /\ 0 \in Int
  OBVIOUS
<1>2. Put("server", RingOf(<<>>, {}, 0, 0, <<>>))
  BY DEF Batches!EmptyRing, Put, RingOf
<1> QED
  BY <1>1, <1>2, ServeRingMade

LEMMA ReadCompleted ==
  ASSUME BatchTypes, NEW e \in ServeEnds, Batches!ServerCompletes("reads", e)
  PROVE  ServeRing(ServeSq, ReadsUnder - 1, WritesUnder, Append(ServeCq, e))
<1> DEFINE a == rings["server"]
           x == ReadsUnder - 1
           y == Append(ServeCq, e)
<1>1. Put("server", [[a EXCEPT !["reads"] = a["reads"] - 1] EXCEPT !.cq = Append(a.cq, e)])
  BY DEF Batches!ServerCompletes, Put
<1>2. /\ a["reads"] - 1 = x /\ Append(a.cq, e) = y
      /\ a = RingOf(ServeSq, {}, ReadsUnder, WritesUnder, ServeCq)
  BY RingFields, RingsType
<1>3. y \in Seq(ServeEnds) /\ x \in Int /\ WritesUnder \in Int
  BY RingsType
<1> HIDE DEF a, x, y
<1>4. [[a EXCEPT !["reads"] = x] EXCEPT !.cq = y] = RingOf(ServeSq, {}, x, WritesUnder, y)
  <2>1. [a EXCEPT !["reads"] = x] = RingOf(ServeSq, {}, x, WritesUnder, ServeCq)
    BY <1>2, RingReads
  <2>2. [RingOf(ServeSq, {}, x, WritesUnder, ServeCq) EXCEPT !.cq = y] = RingOf(ServeSq, {}, x, WritesUnder, y)
    BY RingCq
  <2> QED
    BY <2>1, <2>2
<1>5. Put("server", RingOf(ServeSq, {}, x, WritesUnder, y))
  BY <1>1, <1>2, <1>4
<1> QED
  BY <1>3, <1>5, RingsType, ServeRingMade DEF x, y

LEMMA WriteCompleted ==
  ASSUME BatchTypes, NEW e \in ServeEnds, Batches!ServerCompletes("writes", e)
  PROVE  ServeRing(ServeSq, ReadsUnder, WritesUnder - 1, Append(ServeCq, e))
<1> DEFINE a == rings["server"]
           x == WritesUnder - 1
           y == Append(ServeCq, e)
<1>1. Put("server", [[a EXCEPT !["writes"] = a["writes"] - 1] EXCEPT !.cq = Append(a.cq, e)])
  BY DEF Batches!ServerCompletes, Put
<1>2. /\ a["writes"] - 1 = x /\ Append(a.cq, e) = y
      /\ a = RingOf(ServeSq, {}, ReadsUnder, WritesUnder, ServeCq)
  BY RingFields, RingsType
<1>3. y \in Seq(ServeEnds) /\ x \in Int /\ ReadsUnder \in Int
  BY RingsType
<1> HIDE DEF a, x, y
<1>4. [[a EXCEPT !["writes"] = x] EXCEPT !.cq = y] = RingOf(ServeSq, {}, ReadsUnder, x, y)
  <2>1. [a EXCEPT !["writes"] = x] = RingOf(ServeSq, {}, ReadsUnder, x, ServeCq)
    BY <1>2, RingWrites
  <2>2. [RingOf(ServeSq, {}, ReadsUnder, x, ServeCq) EXCEPT !.cq = y] = RingOf(ServeSq, {}, ReadsUnder, x, y)
    BY RingCq
  <2> QED
    BY <2>1, <2>2
<1>5. Put("server", RingOf(ServeSq, {}, ReadsUnder, x, y))
  BY <1>1, <1>2, <1>4
<1> QED
  BY <1>3, <1>5, RingsType, ServeRingMade DEF x, y

(***************************************************************************)
(* What is asked and answered.                                             *)
(***************************************************************************)

LEMMA BatchWords ==
  /\ \A w \in Int : Batches!htonl(w) \in Int /\ Batches!ntohl(w) \in Int
  /\ \A w \in Word : Batches!ntohl(Batches!htonl(w)) = w
<1>1. \A w \in Int : w % 4 \in Int /\ w \div 4 \in Int
  OBVIOUS
<1>2. \A w \in Int : Batches!htonl(w) \in Int /\ Batches!ntohl(w) \in Int
  BY <1>1 DEF Batches!htonl, Batches!ntohl, Batches!Digits
<1>3. \A w : Batches!ntohl(Batches!htonl(w)) = Pages!ntohl(Pages!htonl(w))
  BY DEF Batches!htonl, Batches!ntohl, Batches!Digits, Pages!htonl, Pages!ntohl, Pages!Digits
<1> QED
  BY <1>2, <1>3, SwappedTwice

LEMMA QuestionGood ==
  ASSUME NEW k \in Nat
  PROVE  Batches!to_network_order(Batches!GetPageRequest(k, k % ClientPages)) \in GoodQuestions
<1> DEFINE p == k % ClientPages
           m == [request_id |-> k, page_number |-> p]
           x == Batches!htonl(k)
           y == Batches!htonl(p)
           q == [request_id |-> x, page_number |-> y]
<1>1. p \in Nat /\ p < ClientPages
  BY BatchesAssumption, Remainder
<1>2. p \in Word
  BY <1>1, BatchesAssumption DEF Word, Pages!Digits, Batches!Digits
<1>3. x \in Int /\ y \in Int
  BY <1>1, BatchWords
<1>4. Batches!ntohl(y) = p
  BY <1>2, BatchWords
<1>5. Batches!to_network_order(Batches!GetPageRequest(k, p)) = q
  BY DEF Batches!to_network_order, Batches!GetPageRequest
<1> HIDE DEF x, y
<1>6. q \in Questions
  BY <1>3 DEF Questions
<1>7. Batches!PageOf(q) = Batches!ntohl(y)
  BY DEF Batches!PageOf, Batches!to_host_order
<1> HIDE DEF q, p
<1>8. q \in GoodQuestions
  BY <1>1, <1>4, <1>6, <1>7 DEF GoodQuestions
<1> QED
  BY <1>5, <1>8 DEF p

LEMMA AnswerGood ==
  ASSUME NEW q \in Questions
  PROVE  /\ Batches!GetPageResponse(q, ServerPages) \in Answers
         /\ q \in GoodQuestions /\ ClientPages <= ServerPages =>
              Batches!GetPageResponse(q, ServerPages) \in GoodAnswers
<1> DEFINE known == Batches!PageOf(q) < ServerPages
           id == Batches!to_host_order(q).request_id
           page == Batches!to_host_order(q).page_number
           status == IF known THEN Batches!SUCCESS ELSE Batches!INVALID_PAGE_NUMBER
           content == IF known THEN "AA" ELSE "FA"
           x == Batches!htonl(id)
           y == Batches!htonl(page)
           z == Batches!htonl(status)
           header == [request_id |-> x, page_number |-> y, status |-> z]
           a == [header |-> header, content |-> content]
<1>1. id \in Int /\ page \in Int
  <2>1. id = Batches!ntohl(q.request_id) /\ page = Batches!ntohl(q.page_number)
        /\ q.request_id \in Int /\ q.page_number \in Int
    BY DEF Batches!to_host_order, Questions
  <2> QED
    BY <2>1, BatchWords
<1>2. status \in Int
  BY DEF Batches!SUCCESS, Batches!INVALID_PAGE_NUMBER
<1>3. x \in Int /\ y \in Int /\ z \in Int
  BY <1>1, <1>2, BatchWords
<1>4. Batches!GetPageResponse(q, ServerPages) = a
  <2> DEFINE m == [request_id |-> id, page_number |-> page, status |-> status]
  <2>1. Batches!GetPageResponse(q, ServerPages) =
          [header |-> Batches!to_network_order(m), content |-> content]
    BY DEF Batches!GetPageResponse
  <2> HIDE DEF id, page, status, content
  <2>2. Batches!to_network_order(m) = header
    BY DEF Batches!to_network_order
  <2> QED
    BY <2>1, <2>2
<1>5. page = Batches!PageOf(q)
  BY DEF Batches!PageOf
<1>6. content \in {"AA", "FA", "00"}
  OBVIOUS
<1>7. q \in GoodQuestions /\ ClientPages <= ServerPages =>
        /\ page \in Word /\ page < ClientPages /\ content = "AA"
  <2> SUFFICES ASSUME q \in GoodQuestions, ClientPages <= ServerPages
               PROVE  page \in Word /\ page < ClientPages /\ content = "AA"
    OBVIOUS
  <2>1. page >= 0 /\ page < ClientPages
    BY <1>5 DEF GoodQuestions
  <2>2. known
    BY <1>1, <1>5, <2>1, BatchesAssumption
  <2>3. page \in Word
    BY <1>1, <2>1, BatchesAssumption DEF Word, Pages!Digits, Batches!Digits
  <2> QED
    BY <2>1, <2>2, <2>3
<1>8. page \in Word => Batches!ntohl(y) = page
  BY BatchWords
<1> HIDE DEF x, y, z, content, page
<1>9. a \in Answers /\ a.content = content /\ a.header = header
  BY <1>3, <1>6 DEF Answers
<1>10. Batches!to_host_order(header).page_number = Batches!ntohl(y)
  BY DEF Batches!to_host_order
<1> HIDE DEF a, header
<1>11. q \in GoodQuestions /\ ClientPages <= ServerPages => a \in GoodAnswers
  BY <1>7, <1>8, <1>9, <1>10 DEF GoodAnswers
<1> QED
  BY <1>4, <1>9, <1>11

(***************************************************************************)
(* Messages of two pieces.                                                 *)
(***************************************************************************)

LEMMA PairedEmpty ==
  ASSUME NEW G
  PROVE  Paired(<<>>, G)
<1>1. 0 \in 0 .. Len(<<>>) /\ Len(<<>>) = 2 * 0 /\ 1 .. 0 = {}
  OBVIOUS
<1> QED
  BY <1>1 DEF Paired

(* A message more, at the end.                                             *)
LEMMA PairedMore ==
  ASSUME NEW S, NEW q \in Seq({1, 2} \X S), NEW x \in S
  PROVE  LET more == q \o <<<<1, x>>, <<2, x>>>>
         IN  /\ more \in Seq({1, 2} \X S) /\ Len(more) = Len(q) + 2
             /\ \A G : Paired(q, G) /\ x \in G => Paired(more, G)
<1> DEFINE two == <<<<1, x>>, <<2, x>>>>
           more == q \o two
<1>1. two \in Seq({1, 2} \X S) /\ Len(two) = 2 /\ two[1] = <<1, x>> /\ two[2] = <<2, x>>
  OBVIOUS
<1> HIDE DEF two
<1>2. /\ more \in Seq({1, 2} \X S) /\ Len(more) = Len(q) + 2 /\ Len(q) \in Nat
      /\ \A k \in 1 .. Len(q) : more[k] = q[k]
      /\ more[Len(q) + 1] = <<1, x>> /\ more[Len(q) + 2] = <<2, x>>
  <2> DEFINE P == {1, 2} \X S
  <2>0. q \in Seq(P) /\ two \in Seq(P) /\ Len(two) = 2
    BY <1>1
  <2> HIDE DEF P
  <2>1. /\ more \in Seq(P) /\ Len(more) = Len(q) + 2
        /\ \A k \in 1 .. Len(q) + 2 : more[k] = IF k <= Len(q) THEN q[k] ELSE two[k - Len(q)]
    <3>1. /\ q \o two \in Seq(P) /\ Len(q \o two) = Len(q) + Len(two)
          /\ \A k \in 1 .. Len(q) + Len(two) :
               (q \o two)[k] = IF k <= Len(q) THEN q[k] ELSE two[k - Len(q)]
      BY <2>0, ConcatProperties, Zenon
    <3> QED
      BY <2>0, <3>1
  <2>2. Len(q) \in Nat
    BY LenProperties
  <2> HIDE DEF more
  <2>3. \A k \in 1 .. Len(q) : more[k] = q[k]
    BY <2>1, <2>2
  <2>4. more[Len(q) + 1] = two[1] /\ more[Len(q) + 2] = two[2]
    <3>1. /\ Len(q) + 1 \in 1 .. Len(q) + 2 /\ Len(q) + 2 \in 1 .. Len(q) + 2
          /\ ~(Len(q) + 1 <= Len(q)) /\ ~(Len(q) + 2 <= Len(q))
          /\ (Len(q) + 1) - Len(q) = 1 /\ (Len(q) + 2) - Len(q) = 2
      BY <2>2
    <3> QED
      BY <2>1, <3>1
  <2> QED
    BY <1>1, <2>1, <2>2, <2>3, <2>4 DEF P
<1> HIDE DEF more
<1>3. ASSUME NEW G, Paired(q, G), x \in G
      PROVE  Paired(more, G)
  <2>1. PICK n \in 0 .. Len(q) :
          /\ Len(q) = 2 * n
          /\ \A m \in 1 .. n : /\ q[2 * m - 1][1] = 1 /\ q[2 * m - 1][2] \in G
                               /\ q[2 * m] = <<2, q[2 * m - 1][2]>>
    BY <1>3 DEF Paired
  <2>2. n + 1 \in 0 .. Len(more) /\ Len(more) = 2 * (n + 1)
    BY <1>2, <2>1
  <2>3. ASSUME NEW m \in 1 .. n + 1
        PROVE  /\ more[2 * m - 1][1] = 1 /\ more[2 * m - 1][2] \in G
               /\ more[2 * m] = <<2, more[2 * m - 1][2]>>
    <3>1. CASE m = n + 1
      <4>1. 2 * m - 1 = Len(q) + 1 /\ 2 * m = Len(q) + 2
        BY <1>2, <2>1, <3>1
      <4>2. more[2 * m - 1] = <<1, x>> /\ more[2 * m] = <<2, x>>
        BY <1>2, <4>1
      <4> QED
        BY <1>3, <4>2
    <3>2. CASE m # n + 1
      <4>1. m \in 1 .. n /\ 2 * m - 1 \in 1 .. Len(q) /\ 2 * m \in 1 .. Len(q)
        <5>1. n \in Nat /\ Len(q) = 2 * n
          BY ONLY <2>1, n \in 0 .. Len(q)
        <5>2. m \in 1 .. n
          BY ONLY <5>1, <3>2, m \in 1 .. n + 1
        <5>3. 2 * m - 1 \in 1 .. 2 * n /\ 2 * m \in 1 .. 2 * n
          BY ONLY <5>1, <5>2
        <5> QED
          BY ONLY <5>1, <5>2, <5>3
      <4>2. more[2 * m - 1] = q[2 * m - 1] /\ more[2 * m] = q[2 * m]
        BY <1>2, <4>1
      <4> QED
        BY <2>1, <4>1, <4>2
    <3> QED
      BY <3>1, <3>2
  <2> QED
    BY <2>2, <2>3 DEF Paired
<1> QED
  BY <1>2, <1>3 DEF more, two

(* A message less, at the beginning.                                       *)
LEMMA PairedLess ==
  ASSUME NEW S, NEW q \in Seq(S), Len(q) >= 2
  PROVE  LET two == SubSeq(q, 1, 2)
             rest == SubSeq(q, 3, Len(q))
         IN  /\ rest \in Seq(S) /\ Len(rest) = Len(q) - 2
             /\ \A G : Paired(q, G) => /\ Batches!IsWhole(two) /\ two[1][2] \in G
                                       /\ Paired(rest, G)
<1> DEFINE two == SubSeq(q, 1, 2)
           rest == SubSeq(q, 3, Len(q))
<1>1. Len(q) \in Nat /\ \A k \in 1 .. Len(q) : q[k] \in S
  BY LenProperties, ElementOfSeq
<1>2. Len(two) = 2 /\ two[1] = q[1] /\ two[2] = q[2]
  BY <1>1
<1>3. rest \in Seq(S) /\ Len(rest) = Len(q) - 2 /\ \A k \in 1 .. Len(q) - 2 : rest[k] = q[k + 2]
  <2> DEFINE a == 3
             b == Len(q)
             cut == SubSeq(q, a, b)
  <2>1. a \in Int /\ b \in Int /\ b >= 2 /\ a = 3 /\ rest = cut
    BY <1>1
  <2>2. \A k \in a .. b : q[k] \in S
    BY <1>1
  <2> HIDE DEF a, b
  <2>3. /\ cut \in Seq(S) /\ Len(cut) = IF a <= b THEN b - a + 1 ELSE 0
        /\ \A k \in 1 .. b - a + 1 : cut[k] = q[a + k - 1]
    BY <2>1, <2>2, SubSeqProperties
  <2> HIDE DEF cut, rest
  <2>4. Len(cut) = b - 2
    BY <2>1, <2>3
  <2>5. \A k \in 1 .. b - 2 : cut[k] = q[k + 2]
    <3> SUFFICES ASSUME NEW k \in 1 .. b - 2 PROVE cut[k] = q[k + 2]
      OBVIOUS
    <3>1. k \in 1 .. b - a + 1 /\ a + k - 1 = k + 2
      BY <2>1
    <3> QED
      BY <2>3, <3>1
  <2> QED
    BY <2>1, <2>3, <2>4, <2>5 DEF b
<1> HIDE DEF two, rest
<1>4. ASSUME NEW G, Paired(q, G)
      PROVE  Batches!IsWhole(two) /\ two[1][2] \in G /\ Paired(rest, G)
  <2>1. PICK n \in 0 .. Len(q) :
          /\ Len(q) = 2 * n
          /\ \A m \in 1 .. n : /\ q[2 * m - 1][1] = 1 /\ q[2 * m - 1][2] \in G
                               /\ q[2 * m] = <<2, q[2 * m - 1][2]>>
    BY <1>4 DEF Paired
  <2>2. 1 \in 1 .. n /\ 2 * 1 - 1 = 1 /\ 2 * 1 = 2
    BY <1>1, <2>1
  <2>3. q[1][1] = 1 /\ q[1][2] \in G /\ q[2] = <<2, q[1][2]>>
    BY <2>1, <2>2
  <2>4. Batches!IsWhole(two) /\ two[1][2] \in G
    BY <1>2, <2>3 DEF Batches!IsWhole
  <2>5. n - 1 \in 0 .. Len(rest) /\ Len(rest) = 2 * (n - 1)
    BY <1>1, <1>3, <2>1, <2>2
  <2>6. ASSUME NEW m \in 1 .. n - 1
        PROVE  /\ rest[2 * m - 1][1] = 1 /\ rest[2 * m - 1][2] \in G
               /\ rest[2 * m] = <<2, rest[2 * m - 1][2]>>
    <3>1. /\ m + 1 \in 1 .. n /\ 2 * m - 1 \in 1 .. Len(q) - 2 /\ 2 * m \in 1 .. Len(q) - 2
          /\ (2 * m - 1) + 2 = 2 * (m + 1) - 1 /\ 2 * m + 2 = 2 * (m + 1)
      BY <1>1, <2>1
    <3>2. rest[2 * m - 1] = q[2 * (m + 1) - 1] /\ rest[2 * m] = q[2 * (m + 1)]
      BY <1>3, <3>1
    <3> QED
      BY <2>1, <3>1, <3>2
  <2> QED
    BY <2>4, <2>5, <2>6 DEF Paired
<1> QED
  BY <1>3, <1>4 DEF two, rest

(* What is read from a connection, cut where a read may cut.               *)
LEMMA CutType ==
  ASSUME NEW S, NEW q \in Seq(S), NEW n \in Batches!Lengths(q)
  PROVE  /\ n \in 1 .. Len(q) /\ n <= 2 /\ Len(q) \in Nat
         /\ SubSeq(q, n + 1, Len(q)) \in Seq(S)
         /\ \A k \in 1 .. n : q[k] \in S /\ SubSeq(q, 1, n)[k] = q[k]
<1>1. Len(q) \in Nat /\ \A k \in 1 .. Len(q) : q[k] \in S
  BY LenProperties, ElementOfSeq
<1>2. n \in 1 .. Len(q) /\ n <= 2
  BY DEF Batches!Lengths
<1> QED
  BY <1>1, <1>2

(* Some of a kind or none.                                                 *)
LEMMA OfZero ==
  ASSUME NEW S, NEW s \in Seq(S), NEW e
  PROVE  Batches!Of(s, e) = 0 <=> \A k \in DOMAIN s : s[k].event # e
<1> DEFINE T == {x \in S : x.event = e}
           P == {k \in DOMAIN s : s[k] \in T}
<1>1. Batches!Of(s, e) = Count(s, T)
  BY OfIsCount
<1>2. \A k \in DOMAIN s : s[k] \in S
  BY LenProperties, ElementOfSeq
<1>3. P = {} <=> \A k \in DOMAIN s : s[k].event # e
  BY <1>2
<1>4. IsFiniteSet(P) /\ Count(s, T) = Cardinality(P)
  BY CountType DEF Count
<1> HIDE DEF P, T
<1> QED
  BY <1>1, <1>3, <1>4, FS_EmptySet

LEMMA FiniteElements ==
  ASSUME NEW S, NEW s \in Seq(S)
  PROVE  IsFiniteSet(ToSet(s))
<1> DEFINE n == Len(s)
           f == [k \in 1 .. n |-> s[k]]
<1>1. n \in Nat /\ DOMAIN s = 1 .. n
  BY LenProperties
<1>2. f \in Surjection(1 .. n, ToSet(s))
  BY <1>1 DEF Surjection, ToSet
<1>3. IsFiniteSet(1 .. n)
  BY <1>1, FS_Interval
<1> QED
  BY <1>2, <1>3, FS_Surjection

LEMMA BatchNumbers ==
  ASSUME BatchTypes
  PROVE  /\ \A e : Batches!Of(AskSq, e) \in Nat /\ Batches!Of(AskCq, e) \in Nat
         /\ \A e : Batches!Of(ServeSq, e) \in Nat /\ Batches!Of(ServeCq, e) \in Nat
         /\ \A e : OpsOf(AskOps, e) \in Nat
         /\ Len(up) \in Nat /\ Len(down) \in Nat
         /\ ReadsUnder \in Nat /\ WritesUnder \in Nat /\ losses \in Nat
         /\ Onward \in Nat
<1>1. \A e : Batches!Of(AskSq, e) \in Nat /\ Batches!Of(AskCq, e) \in Nat
  BY RingsType, OfType
<1>2. \A e : Batches!Of(ServeSq, e) \in Nat /\ Batches!Of(ServeCq, e) \in Nat
  BY RingsType, OfType
<1>3. \A e : OpsOf(AskOps, e) \in Nat
  BY OpsType DEF BatchTypes
<1>4. Len(up) \in Nat /\ Len(down) \in Nat
  BY LenProperties DEF BatchTypes
<1>5. ReadsUnder \in Nat /\ WritesUnder \in Nat /\ losses \in Nat
  BY DEF BatchTypes
<1>6. Onward \in Nat
  <2> DEFINE x == Batches!Of(ServeCq, "READ")
             y == Batches!Of(ServeSq, "WRITE")
  <2>1. Onward = Len(up) + 2 * x + 2 * y + 2 * WritesUnder + Len(down)
    BY DEF Onward
  <2>2. x \in Nat /\ y \in Nat
    BY <1>2
  <2> HIDE DEF x, y
  <2> QED
    BY ONLY <1>4, <1>5, <2>1, <2>2
<1> QED
  BY <1>1, <1>2, <1>3, <1>4, <1>5, <1>6

(***************************************************************************)
(* The steps.                                                              *)
(***************************************************************************)

LEMMA ServerStays ==
  ASSUME BatchServer, UNCHANGED thread, ServeSq' = ServeSq, ServeCq' = ServeCq,
         ReadsUnder' = ReadsUnder, WritesUnder' = WritesUnder
  PROVE  BatchServer'
BY DEF BatchServer

(* A server's step leaves what is known of the client.                     *)
LEMMA ClientStays ==
  ASSUME BatchTypes, BatchClient, UNCHANGED <<pc, i, left>>, conn # "none", conn' # "none",
         AskSq' = AskSq, AskOps' = AskOps, AskCq' = AskCq
  PROVE  BatchClient' /\ BatchEnd' = BatchEnd /\ (AskWorking' <=> AskWorking)
         /\ Receives' = Receives /\ Sends' = Sends
         /\ \A k : AskDone(k)' <=> AskDone(k)
<1>1. BatchEnd' = BatchEnd /\ (AskWorking' <=> AskWorking)
  BY DEF BatchEnd, AskWorking
<1>2. Receives' = Receives /\ Sends' = Sends
  BY <1>1 DEF Receives, Sends, OpsOf
<1>3. Batches!Batch("SEND")' = Batches!Batch("SEND") /\ Batches!Batch("RECEIVE")' = Batches!Batch("RECEIVE")
  BY DEF Batches!Batch
<1>4. OpsOf(AskOps, "RECEIVE")' = OpsOf(AskOps, "RECEIVE")
  BY DEF OpsOf
<1>5. pc # "setup_socket"
  BY DEF BatchClient
<1>6. BatchClient'
  BY <1>1, <1>3, <1>4, <1>5 DEF BatchClient
<1>7. \A k : AskDone(k)' <=> AskDone(k)
  BY <1>1 DEF AskDone
<1> QED
  BY <1>1, <1>2, <1>6, <1>7

LEMMA InitBatches == ASSUME Batches!Init PROVE BatchesInv
<1> USE DEF Batches!Init
<1> DEFINE empty == [sq |-> <<>>, kernel |-> {}, reads |-> 0, writes |-> 0, cq |-> <<>>]
<1>1. Batches!EmptyRing = empty
  BY DEF Batches!EmptyRing
<1>2. empty \in BatchRing
  BY DEF BatchRing
<1>3. /\ empty.sq = <<>> /\ empty.kernel = {} /\ empty.reads = 0 /\ empty.writes = 0
      /\ empty.cq = <<>>
  OBVIOUS
<1> HIDE DEF empty
<1>4. rings \in BatchRings /\ rings["client"] = empty /\ rings["server"] = empty
  BY <1>1, <1>2 DEF BatchRings
<1>5. /\ AskSq = <<>> /\ AskOps = {} /\ AskCq = <<>> /\ ServeSq = <<>> /\ ServeCq = <<>>
      /\ ReadsUnder = 0 /\ WritesUnder = 0
  BY <1>3, <1>4 DEF AskSq, AskOps, AskCq, ServeSq, ServeCq, ReadsUnder, WritesUnder
<1>6. frame \in Answers
  BY DEF Batches!NoResponse, Answers
<1>7. BatchTypes
  <2>1. IsFiniteSet({})
    BY FS_EmptySet
  <2>2. /\ <<>> \in Seq(Asks) /\ <<>> \in Seq(AskEnds) /\ <<>> \in Seq(Serves)
        /\ <<>> \in Seq(ServeEnds)
        /\ <<>> \in Seq({1, 2} \X Questions) /\ <<>> \in Seq({1, 2} \X Answers)
    OBVIOUS
  <2> QED
    BY <1>3, <1>4, <1>5, <1>6, <2>1, <2>2 DEF BatchTypes, BatchPcs, BatchThreads, BatchConns
<1>8. BatchServer
  BY <1>5 DEF BatchServer
<1>9. BatchClient
  BY <1>5 DEF BatchClient, AskWorking
<1>10. BatchFlow /\ BatchData
  BY DEF BatchFlow, BatchData, AskWorking
<1> QED
  BY <1>7, <1>8, <1>9, <1>10 DEF BatchesInv

LEMMA SetupSocketKeepsBatches ==
  ASSUME BatchesInv, Batches!SetupSocket PROVE BatchesInv'
<1> USE DEF Batches!SetupSocket
<1>1. BatchTypes /\ BatchServer /\ BatchClient
  BY DEF BatchesInv
<1>2. /\ pc = "setup_socket" /\ conn = "none" /\ thread = "none" /\ i = 0
      /\ AskSq = <<>> /\ AskOps = {} /\ AskCq = <<>> /\ up = <<>> /\ down = <<>>
      /\ ServeSq = <<>> /\ ServeCq = <<>> /\ ReadsUnder = 0 /\ WritesUnder = 0
  BY <1>1 DEF BatchClient, BatchServer
<1>3. /\ AskSq' = AskSq /\ AskOps' = AskOps /\ AskCq' = AskCq /\ ServeSq' = ServeSq
      /\ ServeCq' = ServeCq /\ ReadsUnder' = ReadsUnder /\ WritesUnder' = WritesUnder
  BY DEF AskSq, AskOps, AskCq, ServeSq, ServeCq, ReadsUnder, WritesUnder
<1>4. /\ \/ pc' = "send_requests" /\ conn' = "connecting"
         \/ pc' = "returned" /\ conn' = "none"
      /\ UNCHANGED <<i, left, responses, thread, frame, rings, up, down, losses>>
  BY <1>2
<1>5. BatchTypes'
  BY <1>1, <1>3, <1>4 DEF BatchTypes, BatchPcs, BatchConns
<1>6. BatchServer'
  BY <1>1, <1>3, <1>4, ServerStays
<1>7. Batches!Of(<<>>, "RECEIVE") = 0 /\ Batches!Of(<<>>, "SEND") = 0
      /\ Batches!Of(<<>>, "READ") = 0 /\ Batches!Of(<<>>, "WRITE") = 0
  BY OfEmpty
<1>8. OpsOf({}, "RECEIVE") = 0 /\ OpsOf({}, "SEND") = 0
  BY OpsType, FS_EmptySet
<1>9. BatchClient'
  BY <1>2, <1>3, <1>4, <1>7 DEF BatchClient, AskWorking
<1>10. BatchFlow'
  <2>1. AskWorking' => pc' = "send_requests" /\ conn' = "connecting"
    BY <1>4 DEF AskWorking
  <2>2. pc' = "send_requests" => Receives' = 0 /\ Sends' = 0
    BY <1>2, <1>3, <1>7, <1>8 DEF Receives, Sends
  <2>3. Len(up') = 0 /\ Len(down') = 0
    BY <1>2, <1>4
  <2> QED
    BY <1>2, <1>3, <1>7, <2>1, <2>2, <2>3 DEF BatchFlow, Onward
<1>11. BatchData'
  <2>1. Paired(up', GoodQuestions) /\ Paired(down', GoodAnswers)
    BY <1>2, <1>4, PairedEmpty
  <2>2. \A k \in 0 .. BatchRequests - 1 : ~AskDone(k)' \/ pc' = "returned"
    BY <1>2, <1>4 DEF AskDone
  <2>3. Batches!Of(ServeSq, "WRITE")' = 0
    BY <1>2, <1>3, <1>7
  <2> QED
    BY <1>2, <1>3, <1>4, <2>1, <2>2, <2>3 DEF BatchData, AskWorking
<1> QED
  BY <1>5, <1>6, <1>9, <1>10, <1>11 DEF BatchesInv

LEMMA SendRequestsKeepsBatches ==
  ASSUME BatchesInv, Batches!SendRequests
  PROVE  BatchesInv'
<1> DEFINE b == Batches!Batch("SEND")
           n == BatchEnd - i
<1>1. BatchTypes /\ BatchServer /\ BatchClient /\ BatchFlow /\ BatchData
  BY DEF BatchesInv
<1>2. /\ pc = "send_requests" /\ i < BatchRequests /\ i \in Nat /\ AskSq = <<>>
      /\ UNCHANGED <<i, left, responses, thread, frame, up, down, conn, losses>>
  BY <1>1 DEF Batches!SendRequests, BatchClient, BatchTypes
<1>3. /\ n \in 1 .. BatchSize /\ b \in Seq(Asks) /\ Len(b) = n /\ BatchEnd \in Nat
      /\ BatchEnd <= BatchRequests
  BY <1>2, BatchOf
<1>4. /\ Batches!Of(b, "SEND") = n /\ Batches!Of(b, "RECEIVE") = 0
      /\ Batches!Of(<<>>, "SEND") = 0 /\ Batches!Of(<<>>, "RECEIVE") = 0
  BY <1>2, BatchCounts, OfEmpty
<1>5. Batches!Submit("client", b) /\ pc' = "receive_responses"
  <2>1. Batches!Fits("client", b)
    <3>1. rings["client"].sq = <<>> /\ Len(<<>>) = 0
      BY <1>1, <1>2, RingFields
    <3>2. 0 + Len(b) <= BatchRingSize
      BY <1>3, BatchesAssumption
    <3> QED
      BY <3>1, <3>2 DEF Batches!Fits
  <2> QED
    BY <2>1 DEF Batches!SendRequests
<1> HIDE DEF b, n
<1>6. AskRing(AskSq \o b, AskOps, AskCq)
  BY <1>1, <1>3, <1>5, AsksSubmitted
<1>7. AskSq \o b = b
  BY <1>2, <1>3
<1>8. /\ AskSq' = b /\ AskOps' = AskOps /\ AskCq' = AskCq /\ ServeSq' = ServeSq
      /\ ServeCq' = ServeCq /\ ReadsUnder' = ReadsUnder /\ WritesUnder' = WritesUnder
  BY <1>6, <1>7 DEF AskRing
<1>9. BatchTypes'
  <2>1. /\ rings' \in BatchRings /\ rings'["client"].reads = 0 /\ rings'["client"].writes = 0
        /\ rings'["server"].kernel = {}
    BY <1>6 DEF AskRing
  <2> QED
    BY <1>1, <1>2, <1>3, <1>5, <1>8, <2>1 DEF BatchTypes, BatchPcs
<1>10. BatchServer'
  BY <1>1, <1>2, <1>8, ServerStays
<1>11. BatchEnd' = BatchEnd /\ b' = b
  BY <1>2 DEF BatchEnd, b, Batches!Batch
<1>12. BatchClient'
  <2>1. conn' # "none"
    BY <1>1, <1>2 DEF BatchClient
  <2>2. Batches!Of(AskCq, "RECEIVE") = 0
    BY <1>1, <1>2 DEF BatchClient
  <2>3. \A o \in AskOps : /\ o.event # "RECEIVE"
                          /\ o.event = "SEND" => o.j < i
    BY <1>1, <1>2 DEF BatchClient, AskWorking
  <2>4. AskSq' = Batches!Batch("SEND")'
    BY <1>8, <1>11 DEF b
  <2> QED
    BY <1>2, <1>5, <1>8, <1>11, <2>1, <2>2, <2>3, <2>4 DEF BatchClient, AskWorking
<1>13. Receives' = Receives + n /\ Sends' = Sends + n /\ Receives \in Nat /\ Sends \in Nat
  <2>1. OpsOf(AskOps, "RECEIVE")' = OpsOf(AskOps, "RECEIVE")
        /\ OpsOf(AskOps, "SEND")' = OpsOf(AskOps, "SEND")
    BY <1>8 DEF OpsOf
  <2>2. OpsOf(AskOps, "RECEIVE") \in Nat /\ OpsOf(AskOps, "SEND") \in Nat /\ n \in Nat
    BY <1>1, <1>3, BatchNumbers
  <2>3. Receives = OpsOf(AskOps, "RECEIVE") /\ Sends = OpsOf(AskOps, "SEND")
    BY <1>2, <1>4, <2>2 DEF Receives, Sends
  <2>4. Receives' = 0 + OpsOf(AskOps, "RECEIVE") + n /\ Sends' = n + OpsOf(AskOps, "SEND")
    BY <1>2, <1>4, <1>5, <1>8, <1>11, <2>1 DEF Receives, Sends, n
  <2> QED
    BY <2>2, <2>3, <2>4
<1>14. BatchFlow'
  <2> SUFFICES ASSUME losses = 0
               PROVE  BatchFlow'
    BY <1>2 DEF BatchFlow
  <2>1. /\ conn \in {"connecting", "open"}
        /\ \A k \in DOMAIN ServeCq : ServeCq[k].event = "READ" => ServeCq[k].res = 2
        /\ 2 * Receives = 2 * Sends + Onward
    BY <1>1, <1>2 DEF BatchFlow, AskWorking
  <2>2. 2 * Receives' = 2 * Sends' + Onward'
    <3>1. Onward' = Onward
      BY <1>2, <1>8 DEF Onward
    <3>2. Onward \in Nat
      BY <1>1, BatchNumbers
    <3> QED
      <4>1. n \in Nat
        BY <1>3
      <4>2. 2 * Receives = 2 * Sends + Onward
        BY <2>1
      <4> QED
        BY ONLY <1>13, <3>1, <3>2, <4>1, <4>2
  <2>3. Receives' # 0
    BY <1>3, <1>13
  <2> QED
    BY <1>2, <1>5, <1>8, <2>1, <2>2, <2>3 DEF BatchFlow
<1>15. BatchData'
  <2>1. \A k : AskDone(k)' => AskDone(k)
    BY <1>2, <1>5 DEF AskDone
  <2> QED
    BY <1>1, <1>2, <1>5, <1>8, <2>1 DEF BatchData, AskWorking
<1> QED
  BY <1>9, <1>10, <1>12, <1>14, <1>15 DEF BatchesInv

LEMMA ReceiveResponsesKeepsBatches ==
  ASSUME BatchesInv, Batches!ReceiveResponses
  PROVE  BatchesInv'
<1> DEFINE a == Batches!Batch("SEND")
           b == Batches!Batch("RECEIVE")
           n == BatchEnd - i
<1>1. BatchTypes /\ BatchServer /\ BatchClient /\ BatchFlow /\ BatchData
  BY DEF BatchesInv
<1>2. /\ pc = "receive_responses" /\ i < BatchRequests /\ i \in Nat /\ AskSq \in {<<>>, a}
      /\ UNCHANGED <<i, responses, thread, frame, up, down, conn, losses>>
  BY <1>1 DEF Batches!ReceiveResponses, BatchClient, BatchTypes
<1>3. /\ n \in 1 .. BatchSize /\ b \in Seq(Asks) /\ Len(b) = n /\ BatchEnd \in Nat
      /\ BatchEnd <= BatchRequests /\ a \in Seq(Asks) /\ Len(a) = n
  BY <1>2, BatchOf
<1>4. /\ Batches!Of(b, "SEND") = 0 /\ Batches!Of(b, "RECEIVE") = n
      /\ Batches!Of(a, "SEND") = n /\ Batches!Of(a, "RECEIVE") = 0
      /\ Batches!Of(<<>>, "SEND") = 0 /\ Batches!Of(<<>>, "RECEIVE") = 0
  BY <1>2, BatchCounts, OfEmpty
<1>5. Batches!Submit("client", b) /\ pc' = "reap" /\ left' = Len(b)
  <2>1. Batches!Fits("client", b)
    <3>1. rings["client"].sq = AskSq /\ Len(AskSq) \in {0, n}
      BY <1>1, <1>2, <1>3, RingFields
    <3>2. Len(AskSq) + Len(b) <= BatchRingSize
      BY <1>3, <3>1, BatchesAssumption
    <3> QED
      BY <3>1, <3>2 DEF Batches!Fits
  <2> QED
    BY <2>1 DEF Batches!ReceiveResponses
<1>6. \A o : (\E m \in i .. BatchEnd - 1 : o = [event |-> "RECEIVE", j |-> m]) =>
               \E k \in DOMAIN b : b[k] = o
  <2>1. \A m : m \in i .. BatchEnd - 1 <=>
                  \E k \in 1 .. n : b[k] = [event |-> "RECEIVE", j |-> m]
    <3>1. i \in Nat /\ i < BatchRequests
      BY <1>2
    <3> QED
      BY ONLY <3>1, BatchOf
  <2>2. DOMAIN b = 1 .. n
    <3>1. b \in Seq(Asks) /\ Len(b) = n
      BY <1>3
    <3> HIDE DEF b, n
    <3> QED
      BY ONLY <3>1, LenProperties
  <2> HIDE DEF b, n
  <2> QED
    BY ONLY <2>1, <2>2
<1> HIDE DEF a, b, n
<1>7. AskRing(AskSq \o b, AskOps, AskCq)
  BY <1>1, <1>3, <1>5, AsksSubmitted
<1> DEFINE s == AskSq \o b
<1>8. /\ AskSq' = s /\ AskOps' = AskOps /\ AskCq' = AskCq /\ ServeSq' = ServeSq
      /\ ServeCq' = ServeCq /\ ReadsUnder' = ReadsUnder /\ WritesUnder' = WritesUnder
  BY <1>7 DEF AskRing
<1>9. /\ AskSq \in Seq(Asks) /\ s \in Seq(Asks)
      /\ \A e \in {"SEND", "RECEIVE"} : Batches!Of(s, e) = Batches!Of(AskSq, e) + Batches!Of(b, e)
      /\ \A k \in DOMAIN b : \E m \in DOMAIN s : s[m] = b[k]
  <2>1. AskSq \in Seq(Asks)
    BY <1>1 DEF BatchTypes
  <2>2. ASSUME NEW k \in DOMAIN b
        PROVE  \E m \in DOMAIN s : s[m] = b[k]
    <3>1. Len(AskSq) \in Nat /\ Len(b) \in Nat /\ k \in 1 .. Len(b)
      BY <1>3, <2>1, LenProperties
    <3>2. Len(s) = Len(AskSq) + Len(b) /\ Len(AskSq) + k \in 1 .. Len(AskSq) + Len(b)
          /\ DOMAIN s = 1 .. Len(s)
      <4>1. Len(s) = Len(AskSq) + Len(b) /\ s \in Seq(Asks)
        BY <1>3, <2>1, ConcatProperties
      <4>2. Len(AskSq) + k \in 1 .. Len(AskSq) + Len(b)
        BY <3>1
      <4> HIDE DEF s
      <4> QED
        BY <4>1, <4>2, LenProperties
    <3>3. s[Len(AskSq) + k] = b[k]
      BY <1>3, <2>1, <3>1
    <3> QED
      BY <3>2, <3>3
  <2> QED
    BY <1>3, <2>1, <2>2, OfConcat
<1>10. Batches!Of(s, "RECEIVE") = n /\ Batches!Of(s, "SEND") = Batches!Of(AskSq, "SEND")
  <2>1. AskSq \in {<<>>, a}
    BY <1>2
  <2>2. /\ Batches!Of(AskSq, "SEND") \in Nat /\ n \in Nat
        /\ Batches!Of(s, "SEND") = Batches!Of(AskSq, "SEND") + Batches!Of(b, "SEND")
        /\ Batches!Of(s, "RECEIVE") = Batches!Of(AskSq, "RECEIVE") + Batches!Of(b, "RECEIVE")
    BY <1>1, <1>3, <1>9, BatchNumbers
  <2>3. Batches!Of(AskSq, "RECEIVE") = 0
    BY ONLY <1>4, <2>1
  <2> HIDE DEF s
  <2> QED
    BY ONLY <1>4, <2>2, <2>3
<1>11. s \in {b, a \o b}
  <2>1. AskSq = <<>> \/ AskSq = a
    BY <1>2
  <2>2. <<>> \o b = b
    BY <1>3, ConcatEmptySeq
  <2> QED
    BY ONLY <2>1, <2>2
<1> HIDE DEF s
<1>12. BatchTypes'
  <2>1. /\ rings' \in BatchRings /\ rings'["client"].reads = 0 /\ rings'["client"].writes = 0
        /\ rings'["server"].kernel = {}
    BY <1>7 DEF AskRing
  <2>2. left' \in Int
    BY <1>3, <1>5
  <2> QED
    BY <1>1, <1>2, <1>5, <1>8, <1>9, <2>1, <2>2 DEF BatchTypes, BatchPcs
<1>13. BatchServer'
  BY <1>1, <1>2, <1>8, ServerStays
<1>14. BatchEnd' = BatchEnd /\ a' = a /\ b' = b
  BY <1>2 DEF BatchEnd, a, b, Batches!Batch
<1>15. \A o \in AskOps : /\ o.event # "RECEIVE"
                         /\ o.event = "SEND" => /\ Batches!Of(AskSq, "SEND") > 0 => o.j < i
                                                /\ o.j < i \/ o.j < BatchEnd
  BY <1>1, <1>2 DEF BatchClient, AskWorking
<1>16. OpsOf(AskOps, "RECEIVE") = 0
  BY <1>1, <1>15, OpsType DEF BatchTypes
<1>17. OpsOf(AskOps, "RECEIVE")' = OpsOf(AskOps, "RECEIVE")
       /\ OpsOf(AskOps, "SEND")' = OpsOf(AskOps, "SEND")
  BY <1>8 DEF OpsOf
<1>18. BatchClient'
  <2>1. conn' # "none"
    BY <1>1, <1>2 DEF BatchClient
  <2>2. Batches!Of(AskCq, "RECEIVE") = 0
    BY <1>1, <1>2 DEF BatchClient
  <2>3. AskSq' \in {Batches!Batch("RECEIVE")', Batches!Batch("SEND")' \o Batches!Batch("RECEIVE")'}
    BY <1>8, <1>11, <1>14 DEF a, b
  <2>4. left' > 0 /\ left' = n + 0 + 0
    BY <1>3, <1>5
  <2>5. left' = Batches!Of(AskSq', "RECEIVE") + OpsOf(AskOps, "RECEIVE")' + Batches!Of(AskCq', "RECEIVE")
    BY <1>8, <1>10, <1>16, <1>17, <2>2, <2>4
  <2> QED
    BY <1>2, <1>5, <1>8, <1>10, <1>14, <1>15, <2>1, <2>3, <2>4, <2>5 DEF BatchClient, AskWorking
<1>19. Receives' = Receives /\ Sends' = Sends
  <2>1. Receives = Batches!Of(AskSq, "RECEIVE") + OpsOf(AskOps, "RECEIVE") + n
        /\ Receives' = Batches!Of(s, "RECEIVE") + OpsOf(AskOps, "RECEIVE") + 0
    BY <1>2, <1>5, <1>8, <1>17 DEF Receives, n
  <2>2. Batches!Of(AskSq, "RECEIVE") = 0
    BY <1>2, <1>4
  <2>3. Sends' = Sends
    BY <1>8, <1>10, <1>17 DEF Sends
  <2> QED
    BY <1>3, <1>10, <1>16, <2>1, <2>2, <2>3
<1>20. BatchFlow'
  BY <1>1, <1>2, <1>5, <1>8, <1>19 DEF BatchFlow, AskWorking, Onward
<1>21. BatchData'
  <2>1. ASSUME NEW k \in Nat, AskDone(k)'
        PROVE  k < i
    <3> SUFFICES ASSUME ~(k < i) PROVE FALSE
      OBVIOUS
    <3>1. k < BatchEnd /\ \A m \in DOMAIN s : ~(s[m].event = "RECEIVE" /\ s[m].j = k)
      BY <1>2, <1>8, <1>14, <2>1 DEF AskDone
    <3>2. k \in i .. BatchEnd - 1
      BY <1>2, <1>3, <3>1
    <3>3. PICK x \in DOMAIN b : b[x] = [event |-> "RECEIVE", j |-> k]
      BY <1>6, <3>2
    <3>4. PICK m \in DOMAIN s : s[m] = [event |-> "RECEIVE", j |-> k]
      BY <1>9, <3>3
    <3> QED
      BY <3>1, <3>4
  <2>2. \A k \in 0 .. BatchRequests - 1 : AskDone(k)' => AskDone(k)
    BY <2>1 DEF AskDone
  <2> QED
    BY <1>1, <1>2, <1>5, <1>8, <2>2 DEF BatchData, AskWorking
<1> QED
  BY <1>12, <1>13, <1>18, <1>20, <1>21 DEF BatchesInv

(* The client ends: whatever becomes of its rings is no concern.           *)
LEMMA GoneKeepsBatches ==
  ASSUME BatchTypes, BatchServer, BatchClient, pc' = "terminated", conn # "none",
         UNCHANGED <<i, left, responses, thread, frame, rings, up, down, conn, losses>>
  PROVE  BatchesInv'
<1>1. /\ AskSq' = AskSq /\ AskOps' = AskOps /\ AskCq' = AskCq /\ ServeSq' = ServeSq
      /\ ServeCq' = ServeCq /\ ReadsUnder' = ReadsUnder /\ WritesUnder' = WritesUnder
  BY DEF AskSq, AskOps, AskCq, ServeSq, ServeCq, ReadsUnder, WritesUnder
<1>2. BatchTypes'
  BY <1>1 DEF BatchTypes, BatchPcs
<1>3. BatchServer'
  BY <1>1, ServerStays
<1>4. BatchClient' /\ BatchFlow' /\ BatchData'
  BY DEF BatchClient, BatchFlow, BatchData, AskWorking
<1> QED
  BY <1>2, <1>3, <1>4 DEF BatchesInv

LEMMA ReapKeepsBatches ==
  ASSUME BatchesInv, Batches!Reap
  PROVE  BatchesInv'
<1> DEFINE cqe == Head(AskCq)
           rest == Tail(AskCq)
           c == Batches!Counted(cqe)
<1>1. BatchTypes /\ BatchServer /\ BatchClient /\ BatchFlow /\ BatchData
  BY DEF BatchesInv
<1>2. /\ pc = "reap" /\ AskCq # <<>> /\ i < BatchRequests /\ i \in Nat /\ left > 0 /\ left \in Int
      /\ UNCHANGED <<responses, thread, frame, up, down, conn, losses>>
      /\ conn # "none" /\ AskCq \in Seq(AskEnds)
      /\ AskSq \in {<<>>, Batches!Batch("RECEIVE"), Batches!Batch("SEND") \o Batches!Batch("RECEIVE")}
      /\ left = Batches!Of(AskSq, "RECEIVE") + OpsOf(AskOps, "RECEIVE") + Batches!Of(AskCq, "RECEIVE")
  BY <1>1, RingFields DEF Batches!Reap, BatchClient, BatchTypes
<1>3. CASE cqe.res < 0
  <2>1. pc' = "terminated" /\ UNCHANGED <<i, left, rings>>
    BY <1>1, <1>3, RingFields DEF Batches!Reap
  <2> QED
    BY <1>1, <1>2, <2>1, GoneKeepsBatches
<1>4. CASE ~(cqe.res < 0)
  <2>1. /\ left' = left - c
        /\ rings' = [rings EXCEPT !["client"].cq = Tail(@)]
        /\ IF left' = 0 THEN pc' = "send_requests" /\ i' = i + BatchSize ELSE UNCHANGED <<pc, i>>
    BY <1>1, <1>4, RingFields DEF Batches!Reap
  <2>2. AskRing(AskSq, AskOps, rest)
    BY <1>1, <1>2, <2>1, AskReaped
  <2>3. /\ AskSq' = AskSq /\ AskOps' = AskOps /\ AskCq' = rest /\ ServeSq' = ServeSq
        /\ ServeCq' = ServeCq /\ ReadsUnder' = ReadsUnder /\ WritesUnder' = WritesUnder
    BY <2>2 DEF AskRing
  <2>4. /\ rest \in Seq(AskEnds) /\ cqe \in AskEnds
        /\ Batches!Of(AskCq, "RECEIVE") =
             (IF cqe.event = "RECEIVE" THEN 1 ELSE 0) + Batches!Of(rest, "RECEIVE")
    BY <1>2, OfTail
  <2>5. c = IF cqe.event = "RECEIVE" THEN 1 ELSE 0
    BY <2>4 DEF AskEnds, Batches!Counted
  <2>6. rest # <<>> => rest[Len(rest)] = AskCq[Len(AskCq)] /\ Len(rest) \in DOMAIN rest
    BY <1>2
  <2> HIDE DEF c, cqe, rest
  <2>7. /\ Batches!Of(AskSq, "RECEIVE") \in Nat /\ OpsOf(AskOps, "RECEIVE") \in Nat
        /\ Batches!Of(rest, "RECEIVE") \in Nat
    BY <1>1, <2>4, BatchNumbers, OfType
  <2>8. /\ left' \in Int /\ left' >= 0
        /\ left' = Batches!Of(AskSq, "RECEIVE") + OpsOf(AskOps, "RECEIVE") + Batches!Of(rest, "RECEIVE")
    BY <1>2, <2>1, <2>4, <2>5, <2>7
  <2>9. BatchTypes'
    <3>1. /\ rings' \in BatchRings /\ rings'["client"].reads = 0 /\ rings'["client"].writes = 0
          /\ rings'["server"].kernel = {}
      BY <2>2 DEF AskRing
    <3>2. pc' \in BatchPcs /\ i' \in Nat
      <4>1. pc \in BatchPcs /\ i \in Nat
        BY <1>1 DEF BatchTypes
      <4>2. i + BatchSize \in Nat
        BY <4>1, BatchesAssumption
      <4>3. "send_requests" \in BatchPcs
        BY DEF BatchPcs
      <4>4. \/ pc' = "send_requests" /\ i' = i + BatchSize
            \/ UNCHANGED <<pc, i>>
        BY <2>1
      <4> QED
        BY ONLY <4>1, <4>2, <4>3, <4>4
    <3> QED
      BY <1>1, <1>2, <2>3, <2>4, <2>8, <3>1, <3>2 DEF BatchTypes
  <2>10. BatchServer'
    BY <1>1, <1>2, <2>3, ServerStays
  <2>11. OpsOf(AskOps, "RECEIVE")' = OpsOf(AskOps, "RECEIVE")
         /\ OpsOf(AskOps, "SEND")' = OpsOf(AskOps, "SEND")
    BY <2>3 DEF OpsOf
  <2>12. \A o \in AskOps :
           /\ o.event = "RECEIVE" => AskSq = <<>> /\ o.j >= i /\ o.j < BatchEnd
           /\ o.event = "SEND" => /\ Batches!Of(AskSq, "SEND") > 0 => o.j < i
                                  /\ o.j < i \/ o.j < BatchEnd
    BY <1>1, <1>2 DEF BatchClient, AskWorking
  <2>13. Onward' = Onward
    BY <1>2, <2>3 DEF Onward
  <2>14. CASE left' # 0
    <3>1. pc' = "reap" /\ i' = i
      BY <1>2, <2>1, <2>14
    <3>2. BatchEnd' = BatchEnd /\ Batches!Batch("SEND")' = Batches!Batch("SEND")
          /\ Batches!Batch("RECEIVE")' = Batches!Batch("RECEIVE")
      BY <3>1 DEF BatchEnd, Batches!Batch
    <3>3. BatchClient'
      <4>1. left' > 0
        BY <2>8, <2>14
      <4> QED
        BY <1>2, <2>3, <2>8, <2>11, <2>12, <3>1, <3>2, <4>1 DEF BatchClient, AskWorking
    <3>4. Receives' = Receives /\ Sends' = Sends
      BY <1>2, <2>3, <2>11, <3>1, <3>2 DEF Receives, Sends
    <3>5. BatchFlow'
      BY <1>1, <1>2, <2>3, <2>6, <2>13, <3>1, <3>4 DEF BatchFlow, AskWorking
    <3>6. BatchData'
      <4>1. \A k : AskDone(k)' => AskDone(k)
        BY <1>2, <2>3, <3>1, <3>2 DEF AskDone
      <4> QED
        BY <1>1, <1>2, <2>3, <3>1, <4>1 DEF BatchData, AskWorking
    <3> QED
      BY <2>9, <2>10, <3>3, <3>5, <3>6 DEF BatchesInv
  <2>15. CASE left' = 0
    <3>1. pc' = "send_requests" /\ i' = i + BatchSize
      BY <2>1, <2>15
    <3>2. /\ Batches!Of(AskSq, "RECEIVE") = 0 /\ OpsOf(AskOps, "RECEIVE") = 0
          /\ Batches!Of(rest, "RECEIVE") = 0
      BY <2>7, <2>8, <2>15
    <3>3. AskSq = <<>>
      <4> DEFINE a == Batches!Batch("SEND")
                 b == Batches!Batch("RECEIVE")
      <4>1. a \in Seq(Asks) /\ b \in Seq(Asks) /\ BatchEnd - i \in Nat \ {0}
        BY <1>2, BatchOf
      <4>2. Batches!Of(b, "RECEIVE") = BatchEnd - i /\ Batches!Of(a, "RECEIVE") = 0
        BY <1>2, BatchCounts
      <4> HIDE DEF a, b
      <4>3. Batches!Of(a \o b, "RECEIVE") = 0 + (BatchEnd - i)
        BY <4>1, <4>2, OfConcat
      <4>4. AskSq \in {<<>>, b, a \o b}
        BY <1>2 DEF a, b
      <4>5. Batches!Of(b, "RECEIVE") # 0 /\ Batches!Of(a \o b, "RECEIVE") # 0
        BY <4>1, <4>2, <4>3
      <4> QED
        BY <3>2, <4>4, <4>5
    <3>4. \A o \in AskOps : o.event # "RECEIVE"
      BY <1>1, <3>2, OpsType DEF BatchTypes
    <3>5. BatchEnd \in Nat /\ BatchEnd <= i + BatchSize
      BY <1>2, BatchOf
    <3>6. \A o \in AskOps : o \in Asks /\ o.j \in Nat
      BY <1>1, RingsType DEF Asks
    <3>7. BatchSize \in Nat /\ BatchRequests \in Nat
      BY BatchesAssumption
    <3>8. BatchClient'
      <4>1. \A o \in AskOps : o.event = "SEND" => o.j < i'
        <5> SUFFICES ASSUME NEW o \in AskOps, o.event = "SEND"
                     PROVE  o.j < i'
          OBVIOUS
        <5>1. o.j \in Nat /\ (o.j < i \/ o.j < BatchEnd)
          BY <2>12, <3>6
        <5> QED
          BY <1>2, <3>1, <3>5, <3>7, <5>1
      <4> QED
        BY <1>2, <2>3, <3>1, <3>2, <3>3, <3>4, <4>1 DEF BatchClient, AskWorking
    <3>9. Receives = 0 /\ Receives' = 0 /\ Sends' = Sends
      BY <1>2, <2>3, <2>11, <3>1, <3>2 DEF Receives, Sends
    <3>10. BatchFlow'
      <4> SUFFICES ASSUME losses = 0 PROVE BatchFlow'
        BY <1>2 DEF BatchFlow
      <4>1. rest = <<>>
        <5> SUFFICES ASSUME rest # <<>> PROVE FALSE
          OBVIOUS
        <5>1. AskCq[Len(AskCq)].event = "RECEIVE"
          BY <1>1, <1>2, <3>9 DEF BatchFlow, AskWorking
        <5>2. rest[Len(rest)].event # "RECEIVE"
          BY <2>4, <2>6, <3>2, OfZero
        <5> QED
          BY <2>6, <5>1, <5>2
      <4> QED
        BY <1>1, <1>2, <2>3, <2>13, <3>1, <3>9, <4>1 DEF BatchFlow, AskWorking
    <3>11. BatchData'
      <4>1. ASSUME NEW k \in 0 .. BatchRequests - 1, AskDone(k)'
            PROVE  AskDone(k)
        <5>1. k < i + BatchSize
          BY <3>1, <4>1 DEF AskDone
        <5>2. k < i \/ k < BatchEnd
          BY <1>2, <3>7, <5>1 DEF BatchEnd
        <5>3. \A m \in DOMAIN AskSq : FALSE
          BY <3>3
        <5> QED
          BY <1>2, <3>4, <5>2, <5>3 DEF AskDone
      <4> QED
        BY <1>1, <1>2, <2>3, <3>1, <4>1 DEF BatchData, AskWorking
    <3> QED
      BY <2>9, <2>10, <3>8, <3>10, <3>11 DEF BatchesInv
  <2> QED
    BY <2>14, <2>15
<1> QED
  BY <1>3, <1>4

LEMMA ReturnKeepsBatches ==
  ASSUME BatchesInv, Batches!Return
  PROVE  BatchesInv'
<1>1. BatchTypes /\ BatchServer /\ BatchClient /\ BatchFlow /\ BatchData
  BY DEF BatchesInv
<1>2. /\ pc = "send_requests" /\ pc' = "returned"
      /\ UNCHANGED <<i, left, responses, thread, frame, up, down, losses>>
      /\ rings' = [rings EXCEPT !["client"] = Batches!EmptyRing]
      /\ conn' = IF conn \in {"connecting", "open"} THEN "client closed" ELSE conn
  BY DEF Batches!Return, Batches!Closed
<1>3. conn # "none" /\ conn' # "none" /\ conn' \in BatchConns
  BY <1>1, <1>2 DEF BatchClient, BatchTypes, BatchConns
<1>4. AskRing(<<>>, {}, <<>>)
  BY <1>1, <1>2, AskRingGone
<1>5. /\ AskSq' = <<>> /\ AskOps' = {} /\ AskCq' = <<>> /\ ServeSq' = ServeSq
      /\ ServeCq' = ServeCq /\ ReadsUnder' = ReadsUnder /\ WritesUnder' = WritesUnder
      /\ rings' \in BatchRings /\ rings'["client"].reads = 0 /\ rings'["client"].writes = 0
      /\ rings'["server"].kernel = {}
  BY <1>4 DEF AskRing
<1>6. BatchTypes'
  <2>1. IsFiniteSet({}) /\ <<>> \in Seq(Asks) /\ <<>> \in Seq(AskEnds)
    BY FS_EmptySet
  <2> QED
    BY <1>1, <1>2, <1>3, <1>5, <2>1 DEF BatchTypes, BatchPcs
<1>7. BatchServer'
  BY <1>1, <1>2, <1>5, ServerStays
<1>8. BatchClient' /\ BatchFlow'
  BY <1>2, <1>3, <1>5 DEF BatchClient, BatchFlow, AskWorking
<1>9. BatchData'
  <2>1. \A k \in 0 .. BatchRequests - 1 : AskDone(k)
    <3> SUFFICES ASSUME NEW k \in 0 .. BatchRequests - 1 PROVE k < i
      BY DEF AskDone
    <3>1. i >= BatchRequests
      BY DEF Batches!Return
    <3>2. i \in Nat /\ BatchRequests \in Nat
      BY <1>1, BatchesAssumption DEF BatchTypes
    <3> QED
      BY <3>1, <3>2
  <2> QED
    BY <1>1, <1>2, <2>1 DEF BatchData, AskWorking
<1> QED
  BY <1>6, <1>7, <1>8, <1>9 DEF BatchesInv

LEMMA EmptyTyped ==
  /\ \A S : <<>> \in Seq(S)
  /\ 0 \in Nat
OBVIOUS

LEMMA ReadsRequested ==
  LET b == Batches!ReadRequests
  IN  /\ b \in Seq(Serves) /\ Len(b) = BatchSize
      /\ Batches!Of(b, "READ") = BatchSize /\ Batches!Of(b, "WRITE") = 0
<1> DEFINE b == Batches!ReadRequests
           n == BatchSize
<1>1. n \in Nat
  BY BatchesAssumption
<1>2. b = [k \in 1 .. n |-> [event |-> "READ"]] /\ [event |-> "READ"] \in Serves
  BY DEF Batches!ReadRequests, Serves
<1> HIDE DEF b, n
<1>3. b \in Seq(Serves) /\ Len(b) = n /\ DOMAIN b = 1 .. n
  <2>1. b \in [1 .. n -> Serves]
    BY <1>2
  <2> QED
    BY <1>1, <2>1
<1>4. \A k \in DOMAIN b : b[k].event = "READ"
  BY <1>2
<1>5. Batches!Of(b, "WRITE") = 0
  BY <1>3, <1>4, OfZero
<1>6. Len(b) = Batches!Of(b, "READ") + Batches!Of(b, "WRITE") /\ Batches!Of(b, "READ") \in Nat
  BY <1>3, OfBoth, OfType
<1> QED
  BY <1>1, <1>3, <1>5, <1>6 DEF b, n

LEMMA AcceptKeepsBatches ==
  ASSUME BatchesInv, Batches!Accept
  PROVE  BatchesInv'
<1> DEFINE b == Batches!ReadRequests
<1>1. BatchTypes /\ BatchServer /\ BatchClient /\ BatchFlow /\ BatchData
  BY DEF BatchesInv
<1>2. /\ thread = "none" /\ conn # "none" /\ conn' # "none"
      /\ UNCHANGED <<pc, i, left, responses, frame, up, down, losses>>
      /\ conn' = IF conn = "connecting" THEN "open" ELSE conn
  BY DEF Batches!Accept, Batches!clientside
<1>3. ServeSq = <<>> /\ ReadsUnder = 0 /\ WritesUnder = 0 /\ ServeCq = <<>>
  BY <1>1, <1>2 DEF BatchServer
<1>4. /\ b \in Seq(Serves) /\ Len(b) = BatchSize
      /\ Batches!Of(b, "READ") = BatchSize /\ Batches!Of(b, "WRITE") = 0
      /\ Batches!Of(<<>>, "READ") = 0 /\ Batches!Of(<<>>, "WRITE") = 0
  BY ReadsRequested, OfEmpty
<1>5. Batches!Submit("server", b) /\ thread' = "event_loop"
  <2>1. Batches!Fits("server", b)
    <3>1. rings["server"].sq = <<>> /\ Len(<<>>) = 0
      BY <1>1, <1>3, RingFields
    <3>2. 0 + Len(b) <= BatchRingSize
      BY <1>4, BatchesAssumption
    <3> QED
      BY <3>1, <3>2 DEF Batches!Fits
  <2> QED
    BY <2>1 DEF Batches!Accept
<1> HIDE DEF b
<1>6. ServeRing(ServeSq \o b, ReadsUnder, WritesUnder, ServeCq)
  BY <1>1, <1>4, <1>5, ServesSubmitted
<1>7. ServeSq \o b = b
  BY <1>3, <1>4
<1>8. /\ AskSq' = AskSq /\ AskOps' = AskOps /\ AskCq' = AskCq /\ ServeSq' = b
      /\ ServeCq' = ServeCq /\ ReadsUnder' = ReadsUnder /\ WritesUnder' = WritesUnder
      /\ rings' \in BatchRings /\ rings'["client"].reads = 0 /\ rings'["client"].writes = 0
      /\ rings'["server"].kernel = {}
  BY <1>6, <1>7 DEF ServeRing
<1>9. BatchTypes'
  BY <1>1, <1>2, <1>4, <1>5, <1>8 DEF BatchTypes, BatchThreads, BatchConns
<1>10. BatchServer'
  <2>1. BatchSize \in Nat /\ BatchSize + 0 + 0 = BatchSize /\ 0 <= BatchSize
    BY BatchesAssumption
  <2> QED
    BY <1>3, <1>4, <1>5, <1>8, <2>1 DEF BatchServer
<1>11. /\ BatchClient' /\ BatchEnd' = BatchEnd /\ (AskWorking' <=> AskWorking)
       /\ Receives' = Receives /\ Sends' = Sends /\ \A k : AskDone(k)' <=> AskDone(k)
  BY <1>1, <1>2, <1>8, ClientStays
<1>12. BatchFlow'
  <2>1. Onward' = Onward
    BY <1>2, <1>3, <1>4, <1>8 DEF Onward
  <2> QED
    BY <1>1, <1>2, <1>8, <1>11, <2>1 DEF BatchFlow
<1>13. BatchData'
  <2>1. Batches!Of(ServeSq, "WRITE")' + WritesUnder' = 0
    BY <1>3, <1>4, <1>8
  <2>2. \A k \in DOMAIN ServeCq : FALSE
    BY <1>3
  <2> QED
    BY <1>1, <1>2, <1>8, <1>11, <2>1, <2>2 DEF BatchData
<1> QED
  BY <1>9, <1>10, <1>11, <1>12, <1>13 DEF BatchesInv

(* The server closes: only after a loss, or for a client that has gone.    *)
LEMMA CloseKeepsBatches ==
  ASSUME BatchesInv, thread = "event_loop", ~(losses = 0 /\ AskWorking),
         thread' = "closed", Batches!Closed("server closed"),
         rings' = [rings EXCEPT !["server"] = Batches!EmptyRing],
         UNCHANGED <<pc, i, left, responses, frame, up, down, losses>>
  PROVE  BatchesInv'
<1>1. BatchTypes /\ BatchServer /\ BatchClient /\ BatchFlow /\ BatchData
  BY DEF BatchesInv
<1>2. conn' = IF conn \in {"connecting", "open"} THEN "server closed" ELSE conn
  BY DEF Batches!Closed
<1>3. conn # "none" /\ conn' # "none" /\ conn' \in BatchConns
  BY <1>1, <1>2 DEF BatchClient, BatchTypes, BatchConns
<1>4. ServeRing(<<>>, 0, 0, <<>>)
  BY <1>1, ServeRingGone
<1>5. /\ AskSq' = AskSq /\ AskOps' = AskOps /\ AskCq' = AskCq /\ ServeSq' = <<>>
      /\ ServeCq' = <<>> /\ ReadsUnder' = 0 /\ WritesUnder' = 0
      /\ rings' \in BatchRings /\ rings'["client"].reads = 0 /\ rings'["client"].writes = 0
      /\ rings'["server"].kernel = {}
  BY <1>4 DEF ServeRing
<1>6. BatchTypes'
  BY <1>1, <1>3, <1>5, EmptyTyped DEF BatchTypes, BatchThreads
<1>7. BatchServer'
  BY <1>5 DEF BatchServer
<1>8. BatchClient' /\ (AskWorking' <=> AskWorking)
  BY <1>1, <1>3, <1>5, ClientStays
<1>9. BatchFlow'
  BY <1>8 DEF BatchFlow
<1>10. BatchData'
  BY <1>1, <1>3, <1>8 DEF BatchData
<1> QED
  BY <1>6, <1>7, <1>8, <1>9, <1>10 DEF BatchesInv

LEMMA EventLoopKeepsBatches ==
  ASSUME BatchesInv, Batches!EventLoop
  PROVE  BatchesInv'
<1> DEFINE e == Head(ServeCq)
           rest == Tail(ServeCq)
           b == Batches!Answer
<1>1. BatchTypes /\ BatchServer /\ BatchClient /\ BatchFlow /\ BatchData
  BY DEF BatchesInv
<1>2. thread = "event_loop" /\ ServeCq # <<>> /\ UNCHANGED <<pc, i, left, responses, up, down, losses>>
  BY <1>1, RingFields DEF Batches!EventLoop, Batches!clientside
<1>3. conn # "none"
  BY <1>1, <1>2 DEF BatchClient
<1>4. /\ ServeCq \in Seq(ServeEnds) /\ rest \in Seq(ServeEnds) /\ e \in ServeEnds
      /\ \A x : Batches!Of(ServeCq, x) = (IF e.event = x THEN 1 ELSE 0) + Batches!Of(rest, x)
  <2>1. ServeCq \in Seq(ServeEnds)
    BY <1>1 DEF BatchTypes
  <2> QED
    BY <1>2, <2>1, OfTail
<1>5. e = ServeCq[1] /\ 1 \in DOMAIN ServeCq
      /\ \A k \in DOMAIN rest : k + 1 \in DOMAIN ServeCq /\ rest[k] = ServeCq[k + 1]
  BY <1>2, <1>4
<1>6. \/ /\ e.event = "READ" /\ e.res = 0
         /\ thread' = "closed" /\ Batches!Closed("server closed")
         /\ rings' = [rings EXCEPT !["server"] = Batches!EmptyRing]
         /\ UNCHANGED frame
      \/ /\ e.event = "READ" /\ e.res # 0
         /\ frame' = Batches!GetPageResponse(e.request, ServerPages)
         /\ IF Batches!Fits("server", b)
            THEN /\ rings' = [rings EXCEPT !["server"] =
                                [[rings["server"] EXCEPT !.cq = Tail(@)] EXCEPT !.sq = @ \o b]]
                 /\ UNCHANGED thread
            ELSE thread' = "crashed" /\ UNCHANGED rings
         /\ UNCHANGED conn
      \/ /\ e.event = "WRITE"
         /\ rings' = [rings EXCEPT !["server"] = [rings["server"] EXCEPT !.cq = Tail(@)]]
         /\ UNCHANGED <<thread, frame, conn>>
  <2>1. rings["server"].cq = ServeCq
    BY DEF ServeCq
  <2> QED
    BY <2>1 DEF Batches!EventLoop
<1>7. /\ Batches!Of(ServeSq, "READ") \in Nat /\ Batches!Of(ServeSq, "WRITE") \in Nat
      /\ Batches!Of(rest, "READ") \in Nat /\ ReadsUnder \in Nat /\ WritesUnder \in Nat
      /\ BatchSize \in Nat /\ BatchRingSize \in Nat /\ 2 * BatchSize <= BatchRingSize
      /\ Len(up) \in Nat /\ Len(down) \in Nat
  BY <1>1, <1>4, BatchNumbers, OfType, BatchesAssumption
<1>8. /\ Batches!Of(ServeSq, "READ") + ReadsUnder + Batches!Of(ServeCq, "READ") = BatchSize
      /\ Batches!Of(ServeSq, "WRITE") <= Batches!Of(ServeSq, "READ")
  BY <1>1, <1>2 DEF BatchServer
<1>9. /\ b \in Seq(Serves) /\ Len(b) = 2 /\ Batches!Of(b, "READ") = 1 /\ Batches!Of(b, "WRITE") = 1
  <2> DEFINE w == [event |-> "WRITE"]
             r == [event |-> "READ"]
             none == <<>>
             one == Append(none, w)
  <2>1. b = Append(one, r) /\ Len(b) = 2
    BY DEF Batches!Answer
  <2>2. w \in Serves /\ r \in Serves /\ w.event = "WRITE" /\ r.event = "READ" /\ none \in Seq(Serves)
    BY EmptyTyped DEF Serves
  <2>3. Batches!Of(none, "READ") = 0 /\ Batches!Of(none, "WRITE") = 0
    BY OfEmpty
  <2> HIDE DEF b, w, r, none
  <2>4. one \in Seq(Serves) /\ Batches!Of(one, "READ") = 0 /\ Batches!Of(one, "WRITE") = 1
    BY <2>2, <2>3, OfAppend
  <2> HIDE DEF one
  <2>5. b \in Seq(Serves) /\ Batches!Of(b, "READ") = 1 /\ Batches!Of(b, "WRITE") = 1
    BY <2>1, <2>2, <2>4, OfAppend
  <2> QED
    BY <2>1, <2>5
<1> HIDE DEF e, rest, b
<1>10. CASE e.event = "READ" /\ e.res = 0
  <2>1. /\ thread' = "closed" /\ Batches!Closed("server closed") /\ UNCHANGED frame
        /\ rings' = [rings EXCEPT !["server"] = Batches!EmptyRing]
    BY <1>6, <1>10
  <2>2. ~(losses = 0 /\ AskWorking)
    BY <1>1, <1>5, <1>10 DEF BatchFlow
  <2> QED
    BY <1>2, <2>1, <2>2, CloseKeepsBatches
<1>11. CASE e.event = "READ" /\ e.res # 0
  <2>1. Batches!Fits("server", b)
    <3>1. rings["server"].sq = ServeSq /\ ServeSq \in Seq(Serves)
      BY <1>1, RingFields DEF BatchTypes
    <3>2. Len(ServeSq) = Batches!Of(ServeSq, "READ") + Batches!Of(ServeSq, "WRITE")
      BY <3>1, OfBoth
    <3>3. Batches!Of(ServeCq, "READ") = 1 + Batches!Of(rest, "READ")
      BY <1>4, <1>11
    <3>4. Len(ServeSq) + Len(b) <= BatchRingSize
      <4> DEFINE p == Batches!Of(ServeSq, "READ")
                 q == Batches!Of(ServeSq, "WRITE")
                 r == Batches!Of(rest, "READ")
      <4>1. p \in Nat /\ q \in Nat /\ r \in Nat
        BY <1>7
      <4>2. p + ReadsUnder + (1 + r) = BatchSize /\ q <= p /\ Len(ServeSq) = p + q
        BY <1>8, <3>2, <3>3
      <4> HIDE DEF p, q, r
      <4> QED
        BY ONLY <1>7, <1>9, <4>1, <4>2
    <3> QED
      BY <3>1, <3>4 DEF Batches!Fits
  <2>2. /\ frame' = Batches!GetPageResponse(e.request, ServerPages)
        /\ rings' = [rings EXCEPT !["server"] =
                                [[rings["server"] EXCEPT !.cq = Tail(@)] EXCEPT !.sq = @ \o b]]
        /\ UNCHANGED <<thread, conn>>
    BY <1>6, <1>11, <2>1
  <2>3. ServeRing(ServeSq \o b, ReadsUnder, WritesUnder, Tail(ServeCq))
    BY <1>1, <1>2, <1>9, <2>2, ServeAnswered
  <2> DEFINE s == ServeSq \o b
  <2>4. /\ AskSq' = AskSq /\ AskOps' = AskOps /\ AskCq' = AskCq /\ ServeSq' = s
        /\ ServeCq' = rest /\ ReadsUnder' = ReadsUnder /\ WritesUnder' = WritesUnder
        /\ rings' \in BatchRings /\ rings'["client"].reads = 0 /\ rings'["client"].writes = 0
        /\ rings'["server"].kernel = {}
    BY <2>3 DEF ServeRing, rest
  <2>5. /\ s \in Seq(Serves) /\ Batches!Of(s, "READ") = Batches!Of(ServeSq, "READ") + 1
        /\ Batches!Of(s, "WRITE") = Batches!Of(ServeSq, "WRITE") + 1
    <3>1. ServeSq \in Seq(Serves)
      BY <1>1 DEF BatchTypes
    <3>2. s \in Seq(Serves) /\ \A x : Batches!Of(s, x) = Batches!Of(ServeSq, x) + Batches!Of(b, x)
      BY <1>9, <3>1, OfConcat
    <3> QED
      BY <1>9, <3>2
  <2> HIDE DEF s
  <2>6. e.request \in Questions
    BY <1>4, <1>11 DEF ServeEnds
  <2>7. frame' \in Answers
    BY <2>2, <2>6, AnswerGood
  <2>8. BatchTypes'
    BY <1>1, <1>2, <1>4, <2>2, <2>4, <2>5, <2>7 DEF BatchTypes
  <2>9. BatchServer'
    <3>1. Batches!Of(ServeCq, "READ") = 1 + Batches!Of(rest, "READ")
      BY <1>4, <1>11
    <3>2. Batches!Of(s, "READ") + ReadsUnder + Batches!Of(rest, "READ") = BatchSize
          /\ Batches!Of(s, "WRITE") <= Batches!Of(s, "READ")
      BY <1>7, <1>8, <2>5, <3>1
    <3> QED
      BY <1>2, <2>2, <2>4, <3>2 DEF BatchServer
  <2>10. /\ BatchClient' /\ BatchEnd' = BatchEnd /\ (AskWorking' <=> AskWorking)
         /\ Receives' = Receives /\ Sends' = Sends /\ \A k : AskDone(k)' <=> AskDone(k)
    BY <1>1, <1>2, <1>3, <2>2, <2>4, ClientStays
  <2>11. BatchFlow'
    <3>1. Onward' = Onward
      <4>1. Onward = Len(up) + 2 * Batches!Of(ServeCq, "READ") + 2 * Batches!Of(ServeSq, "WRITE")
                       + 2 * WritesUnder + Len(down)
        BY DEF Onward
      <4>2. Onward' = Len(up) + 2 * Batches!Of(rest, "READ") + 2 * Batches!Of(s, "WRITE")
                        + 2 * WritesUnder + Len(down)
        BY <1>2, <2>4 DEF Onward
      <4>3. Batches!Of(ServeCq, "READ") = 1 + Batches!Of(rest, "READ")
        BY <1>4, <1>11
      <4> QED
        <5> DEFINE q == Batches!Of(ServeSq, "WRITE")
                   r == Batches!Of(rest, "READ")
        <5>1. Onward = Len(up) + 2 * (1 + r) + 2 * q + 2 * WritesUnder + Len(down)
          BY <4>1, <4>3
        <5>2. Onward' = Len(up) + 2 * r + 2 * (q + 1) + 2 * WritesUnder + Len(down)
          BY <2>5, <4>2
        <5>3. q \in Nat /\ r \in Nat
          BY <1>7
        <5> HIDE DEF q, r
        <5> QED
          BY ONLY <1>7, <5>1, <5>2, <5>3
    <3>2. losses = 0 /\ AskWorking =>
            \A k \in DOMAIN rest : rest[k].event = "READ" => rest[k].res = 2
      BY <1>1, <1>5 DEF BatchFlow
    <3> QED
      BY <1>1, <1>2, <2>2, <2>4, <2>10, <3>1, <3>2 DEF BatchFlow
  <2>12. BatchData'
    <3>1. losses = 0 /\ ClientPages <= ServerPages /\ AskWorking =>
            /\ frame' \in GoodAnswers
            /\ \A k \in DOMAIN rest : rest[k].event = "READ" => rest[k].request \in GoodQuestions
      <4> SUFFICES ASSUME losses = 0, ClientPages <= ServerPages, AskWorking
                   PROVE  /\ frame' \in GoodAnswers
                          /\ \A k \in DOMAIN rest : rest[k].event = "READ" => rest[k].request \in GoodQuestions
        OBVIOUS
      <4>1. \A k \in DOMAIN ServeCq : ServeCq[k].event = "READ" => ServeCq[k].request \in GoodQuestions
        BY <1>1 DEF BatchData
      <4>2. e.request \in GoodQuestions
        BY <1>5, <1>11, <4>1
      <4>3. frame' \in GoodAnswers
        BY <2>2, <2>6, <4>2, AnswerGood
      <4> QED
        BY <1>5, <4>1, <4>3
    <3> QED
      BY <1>1, <1>2, <1>3, <2>2, <2>4, <2>10, <3>1 DEF BatchData
  <2> QED
    BY <2>8, <2>9, <2>10, <2>11, <2>12 DEF BatchesInv
<1>12. CASE e.event = "WRITE"
  <2>1. /\ rings' = [rings EXCEPT !["server"] = [rings["server"] EXCEPT !.cq = Tail(@)]]
        /\ UNCHANGED <<thread, frame, conn>>
    BY <1>6, <1>12
  <2>2. ServeRing(ServeSq, ReadsUnder, WritesUnder, Tail(ServeCq))
    BY <1>1, <1>2, <2>1, ServeReaped
  <2>3. /\ AskSq' = AskSq /\ AskOps' = AskOps /\ AskCq' = AskCq /\ ServeSq' = ServeSq
        /\ ServeCq' = rest /\ ReadsUnder' = ReadsUnder /\ WritesUnder' = WritesUnder
        /\ rings' \in BatchRings /\ rings'["client"].reads = 0 /\ rings'["client"].writes = 0
        /\ rings'["server"].kernel = {}
    BY <2>2 DEF ServeRing, rest
  <2>4. Batches!Of(ServeCq, "READ") = Batches!Of(rest, "READ")
    BY <1>4, <1>7, <1>12
  <2>5. BatchTypes'
    BY <1>1, <1>2, <1>4, <2>1, <2>3 DEF BatchTypes
  <2>6. BatchServer'
    BY <1>2, <1>8, <2>1, <2>3, <2>4 DEF BatchServer
  <2>7. /\ BatchClient' /\ BatchEnd' = BatchEnd /\ (AskWorking' <=> AskWorking)
        /\ Receives' = Receives /\ Sends' = Sends /\ \A k : AskDone(k)' <=> AskDone(k)
    BY <1>1, <1>2, <1>3, <2>1, <2>3, ClientStays
  <2>8. BatchFlow'
    <3>1. Onward' = Onward
      BY <1>2, <2>3, <2>4 DEF Onward
    <3>2. losses = 0 /\ AskWorking =>
            \A k \in DOMAIN rest : rest[k].event = "READ" => rest[k].res = 2
      BY <1>1, <1>5 DEF BatchFlow
    <3> QED
      BY <1>1, <1>2, <2>1, <2>3, <2>7, <3>1, <3>2 DEF BatchFlow
  <2>9. BatchData'
    <3>1. losses = 0 /\ ClientPages <= ServerPages /\ AskWorking =>
            \A k \in DOMAIN rest : rest[k].event = "READ" => rest[k].request \in GoodQuestions
      BY <1>1, <1>5 DEF BatchData
    <3> QED
      BY <1>1, <1>2, <1>3, <2>1, <2>3, <2>7, <3>1 DEF BatchData
  <2> QED
    BY <2>5, <2>6, <2>7, <2>8, <2>9 DEF BatchesInv
<1> QED
  BY <1>6, <1>10, <1>11, <1>12

(* What a submission hands to the kernel.                                  *)
LEMMA AsksTaken ==
  ASSUME BatchTypes, BatchClient, AskWorking, AskSq # <<>>
  PROVE  LET L == ToSet(AskSq)
         IN  /\ IsFiniteSet(L) /\ L \subseteq Asks
             /\ i \in Nat /\ i < BatchRequests
             /\ \A e \in {"SEND", "RECEIVE"} : OpsOf(L, e) = Batches!Of(AskSq, e)
             /\ \A o \in L : /\ o.j >= i /\ o.j < BatchEnd
                             /\ o.event = "RECEIVE" => pc = "reap"
             /\ \A o \in AskOps : \A p \in L : o # p
             /\ \A o \in AskOps : o.event # "RECEIVE"
<1> DEFINE L == ToSet(AskSq)
           a == Batches!Batch("SEND")
           b == Batches!Batch("RECEIVE")
           A == ToSet(a)
           B == ToSet(b)
<1>1. /\ i \in Nat /\ i < BatchRequests
      /\ \/ pc = "receive_responses" /\ AskSq = a
         \/ pc = "reap" /\ AskSq = b
         \/ pc = "reap" /\ AskSq = a \o b
  BY DEF BatchClient, AskWorking, BatchTypes
<1>2. /\ IsFiniteSet(A) /\ A \subseteq Asks
      /\ OpsOf(A, "SEND") = BatchEnd - i /\ OpsOf(A, "RECEIVE") = 0
      /\ Batches!Of(a, "SEND") = BatchEnd - i /\ Batches!Of(a, "RECEIVE") = 0
      /\ \A o \in A : o.event = "SEND" /\ o.j >= i /\ o.j < BatchEnd
  <2>1. \A o : o \in A <=> \E m \in i .. BatchEnd - 1 : o = [event |-> "SEND", j |-> m]
    BY <1>1, BatchCounts
  <2>2. BatchEnd \in Nat
    BY <1>1, BatchOf
  <2>3. \A o \in A : o.event = "SEND" /\ o.j >= i /\ o.j < BatchEnd
    BY <1>1, <2>1, <2>2
  <2> QED
    BY <1>1, <2>3, BatchCounts
<1>3. /\ IsFiniteSet(B) /\ B \subseteq Asks
      /\ OpsOf(B, "RECEIVE") = BatchEnd - i /\ OpsOf(B, "SEND") = 0
      /\ Batches!Of(b, "RECEIVE") = BatchEnd - i /\ Batches!Of(b, "SEND") = 0
      /\ \A o \in B : o.event = "RECEIVE" /\ o.j >= i /\ o.j < BatchEnd
  <2>1. \A o : o \in B <=> \E m \in i .. BatchEnd - 1 : o = [event |-> "RECEIVE", j |-> m]
    BY <1>1, BatchCounts
  <2>2. BatchEnd \in Nat
    BY <1>1, BatchOf
  <2>3. \A o \in B : o.event = "RECEIVE" /\ o.j >= i /\ o.j < BatchEnd
    BY <1>1, <2>1, <2>2
  <2> QED
    BY <1>1, <2>3, BatchCounts
<1>4. a \in Seq(Asks) /\ b \in Seq(Asks) /\ BatchEnd - i \in Nat
  BY <1>1, BatchOf
<1>5. ToSet(a \o b) = A \cup B
  <2>1. a \o b \in Seq(Asks) /\ Len(a) \in Nat /\ Len(b) \in Nat
    BY <1>4, ConcatProperties, LenProperties
  <2> HIDE DEF a, b
  <2>2. /\ DOMAIN a = 1 .. Len(a) /\ DOMAIN b = 1 .. Len(b)
        /\ DOMAIN (a \o b) = 1 .. Len(a) + Len(b)
        /\ \A k \in 1 .. Len(a) + Len(b) :
             (a \o b)[k] = IF k <= Len(a) THEN a[k] ELSE b[k - Len(a)]
    BY <1>4
  <2> DEFINE c == a \o b
  <2> HIDE DEF c
  <2>3. \A k \in DOMAIN a : k \in DOMAIN c /\ c[k] = a[k]
    BY <2>1, <2>2 DEF c
  <2>4. \A k \in DOMAIN b : k + Len(a) \in DOMAIN c /\ c[k + Len(a)] = b[k]
    BY <2>1, <2>2 DEF c
  <2>5. \A k \in DOMAIN c : \/ k \in DOMAIN a /\ c[k] = a[k]
                            \/ k - Len(a) \in DOMAIN b /\ c[k] = b[k - Len(a)]
    BY <2>1, <2>2 DEF c
  <2>6. ToSet(c) \subseteq ToSet(a) \cup ToSet(b)
    BY <2>5 DEF ToSet
  <2>7. ToSet(a) \subseteq ToSet(c) /\ ToSet(b) \subseteq ToSet(c)
    BY <2>3, <2>4 DEF ToSet
  <2> QED
    BY <2>6, <2>7 DEF c
<1> HIDE DEF a, b
<1>6. /\ IsFiniteSet(L) /\ L \subseteq Asks
      /\ OpsOf(L, "SEND") = Batches!Of(AskSq, "SEND")
      /\ OpsOf(L, "RECEIVE") = Batches!Of(AskSq, "RECEIVE")
      /\ \A o \in L : /\ o.j >= i /\ o.j < BatchEnd
                      /\ o.event = "RECEIVE" => pc = "reap"
  <2>1. CASE pc = "receive_responses" /\ AskSq = a
    <3>1. L = A
      BY <2>1
    <3> HIDE DEF A, B, L
    <3> QED
      BY <1>2, <2>1, <3>1
  <2>2. CASE pc = "reap" /\ AskSq = b
    <3>1. L = B
      BY <2>2
    <3> HIDE DEF A, B, L
    <3> QED
      BY <1>3, <2>2, <3>1
  <2>3. CASE pc = "reap" /\ AskSq = a \o b
    <3>1. L = A \cup B
      BY <1>5, <2>3
    <3> HIDE DEF A, B, L
    <3>2. \A o \in A : \A p \in B : o # p
      BY <1>2, <1>3
    <3>3. /\ IsFiniteSet(A \cup B) /\ OpsOf(A \cup B, "SEND") = OpsOf(A, "SEND") + OpsOf(B, "SEND")
          /\ OpsOf(A \cup B, "RECEIVE") = OpsOf(A, "RECEIVE") + OpsOf(B, "RECEIVE")
      <4>1. IsFiniteSet(A) /\ IsFiniteSet(B)
        BY <1>2, <1>3
      <4>2. IsFiniteSet(A \cup B) /\ OpsOf(A \cup B, "SEND") = OpsOf(A, "SEND") + OpsOf(B, "SEND")
        BY <3>2, <4>1, OpsJoined
      <4>3. /\ IsFiniteSet(A \cup B)
            /\ OpsOf(A \cup B, "RECEIVE") = OpsOf(A, "RECEIVE") + OpsOf(B, "RECEIVE")
        BY ONLY <3>2, <4>1, OpsJoined
      <4> QED
        BY <4>2, <4>3
    <3>4. /\ Batches!Of(a \o b, "SEND") = Batches!Of(a, "SEND") + Batches!Of(b, "SEND")
          /\ Batches!Of(a \o b, "RECEIVE") = Batches!Of(a, "RECEIVE") + Batches!Of(b, "RECEIVE")
      BY <1>4, OfConcat
    <3>5. \A o \in L : o \in A \/ o \in B
      BY <3>1
    <3> QED
      BY <1>2, <1>3, <2>3, <3>1, <3>3, <3>4, <3>5
  <2> QED
    BY <1>1, <2>1, <2>2, <2>3
<1> HIDE DEF L, A, B
<1>7. \A o \in AskOps : /\ o.event # "RECEIVE"
                        /\ o.event = "SEND" /\ Batches!Of(AskSq, "SEND") > 0 => o.j < i
  BY DEF BatchClient
<1>8. \A o \in AskOps : \A p \in L : o # p
  <2> SUFFICES ASSUME NEW o \in AskOps, NEW p \in L, o = p PROVE FALSE
    OBVIOUS
  <2>1. o \in Asks /\ o.j \in Nat /\ o.event \in {"SEND", "RECEIVE"}
    BY RingsType DEF Asks
  <2>2. o.event = "SEND"
    BY <1>7, <2>1
  <2>3. OpsOf(L, "SEND") # 0 /\ OpsOf(L, "SEND") \in Nat
    BY <1>6, <2>2, OpsType
  <2>4. o.j < i
    BY <1>6, <1>7, <2>2, <2>3
  <2> QED
    BY <1>1, <1>6, <2>1, <2>4
<1> QED
  BY <1>1, <1>6, <1>7, <1>8 DEF L

LEMMA AskPollKeepsBatches ==
  ASSUME BatchesInv, Batches!Poll("client")
  PROVE  BatchesInv'
<1> DEFINE L == ToSet(AskSq)
           K == AskOps \cup L
<1>1. BatchTypes /\ BatchServer /\ BatchClient /\ BatchFlow /\ BatchData
  BY DEF BatchesInv
<1>2. /\ AskSq # <<>> /\ UNCHANGED <<pc, i, left, responses, thread, frame, up, down, conn, losses>>
      /\ pc # "setup_socket" /\ pc # "returned" /\ conn # "none"
  BY <1>1, RingFields DEF Batches!Poll, Batches!clientside, BatchClient
<1>3. AskRing(<<>>, K, AskCq)
  BY <1>1, AskPolled
<1>4. IsFiniteSet(L) /\ IsFiniteSet(AskOps)
  BY <1>1, RingsType, FiniteElements DEF BatchTypes
<1> HIDE DEF L
<1>5. IsFiniteSet(K)
  BY <1>4, FS_Union
<1> HIDE DEF K
<1>6. /\ AskSq' = <<>> /\ AskOps' = K /\ AskCq' = AskCq /\ ServeSq' = ServeSq
      /\ ServeCq' = ServeCq /\ ReadsUnder' = ReadsUnder /\ WritesUnder' = WritesUnder
      /\ rings' \in BatchRings /\ rings'["client"].reads = 0 /\ rings'["client"].writes = 0
      /\ rings'["server"].kernel = {}
  BY <1>3 DEF AskRing
<1>7. BatchTypes'
  BY <1>1, <1>2, <1>5, <1>6, EmptyTyped DEF BatchTypes
<1>8. BatchServer'
  BY <1>1, <1>2, <1>6, ServerStays
<1>9. AskWorking' <=> AskWorking
  BY <1>2 DEF AskWorking
<1>10. CASE ~AskWorking
  <2>1. BatchClient'
    BY <1>1, <1>2, <1>9, <1>10 DEF BatchClient, AskWorking
  <2>2. BatchFlow' /\ BatchData'
    BY <1>2, <1>9, <1>10 DEF BatchFlow, BatchData
  <2> QED
    BY <1>7, <1>8, <2>1, <2>2 DEF BatchesInv
<1>11. CASE AskWorking
  <2>1. /\ i \in Nat /\ i < BatchRequests
        /\ \A e \in {"SEND", "RECEIVE"} : OpsOf(L, e) = Batches!Of(AskSq, e)
        /\ \A o \in L : /\ o.j >= i /\ o.j < BatchEnd
                        /\ o.event = "RECEIVE" => pc = "reap"
        /\ \A o \in AskOps : \A p \in L : o # p
        /\ \A o \in AskOps : o.event # "RECEIVE"
    BY <1>1, <1>2, <1>11, AsksTaken DEF L
  <2>2. \A e \in {"SEND", "RECEIVE"} : OpsOf(K, e) = OpsOf(AskOps, e) + Batches!Of(AskSq, e)
    <3> SUFFICES ASSUME NEW e \in {"SEND", "RECEIVE"}
                 PROVE  OpsOf(K, e) = OpsOf(AskOps, e) + Batches!Of(AskSq, e)
      OBVIOUS
    <3>1. OpsOf(AskOps \cup L, e) = OpsOf(AskOps, e) + OpsOf(L, e)
      BY <1>4, <2>1, OpsJoined
    <3> QED
      BY <2>1, <3>1 DEF K
  <2>3. Batches!Of(<<>>, "SEND") = 0 /\ Batches!Of(<<>>, "RECEIVE") = 0
    BY OfEmpty
  <2>4. BatchEnd' = BatchEnd
    BY <1>2 DEF BatchEnd
  <2>5. /\ OpsOf(AskOps, "RECEIVE")' = OpsOf(AskOps, "RECEIVE") + Batches!Of(AskSq, "RECEIVE")
        /\ OpsOf(AskOps, "SEND")' = OpsOf(AskOps, "SEND") + Batches!Of(AskSq, "SEND")
        /\ Batches!Of(AskSq, "RECEIVE")' = 0 /\ Batches!Of(AskSq, "SEND")' = 0
    <3>1. OpsOf(AskOps, "RECEIVE")' = OpsOf(K, "RECEIVE") /\ OpsOf(AskOps, "SEND")' = OpsOf(K, "SEND")
      BY <1>6 DEF OpsOf
    <3>2. OpsOf(K, "RECEIVE") = OpsOf(AskOps, "RECEIVE") + Batches!Of(AskSq, "RECEIVE")
          /\ OpsOf(K, "SEND") = OpsOf(AskOps, "SEND") + Batches!Of(AskSq, "SEND")
      BY <2>2
    <3> QED
      BY <1>6, <2>3, <3>1, <3>2
  <2>6. /\ OpsOf(AskOps, "RECEIVE") \in Nat /\ OpsOf(AskOps, "SEND") \in Nat
        /\ Batches!Of(AskSq, "RECEIVE") \in Nat /\ Batches!Of(AskSq, "SEND") \in Nat
        /\ Batches!Of(AskCq, "RECEIVE") \in Nat
    BY <1>1, BatchNumbers
  <2>7. \A o \in K : o \in AskOps \/ o \in L
    BY DEF K
  <2>8. BatchClient'
    <3>1. pc # "send_requests"
      BY <1>1, <1>2 DEF BatchClient
    <3>2. pc = "reap" => left > 0 /\ left = Batches!Of(AskSq, "RECEIVE")' + OpsOf(AskOps, "RECEIVE")'
                                     + Batches!Of(AskCq, "RECEIVE")'
      <4>1. pc = "reap" => left > 0 /\ left = Batches!Of(AskSq, "RECEIVE") + OpsOf(AskOps, "RECEIVE")
                                     + Batches!Of(AskCq, "RECEIVE")
        BY <1>1 DEF BatchClient
      <4>2. Batches!Of(AskCq, "RECEIVE")' = Batches!Of(AskCq, "RECEIVE")
        BY <1>6
      <4> QED
        BY <2>5, <2>6, <4>1, <4>2
    <3>3. \A o \in K : /\ o.event = "RECEIVE" => pc = "reap" /\ o.j >= i /\ o.j < BatchEnd
                       /\ o.event = "SEND" => o.j < i \/ o.j < BatchEnd
      <4>1. \A o \in AskOps : o.event = "SEND" => o.j < i \/ o.j < BatchEnd
        BY <1>1, <1>11 DEF BatchClient
      <4> QED
        BY <2>1, <2>7, <4>1
    <3>4. pc \in {"send_requests", "receive_responses"} => Batches!Of(AskCq, "RECEIVE") = 0
      BY <1>1 DEF BatchClient
    <3>5. ~(Batches!Of(AskSq, "SEND")' > 0)
      BY <2>5
    <3>6. pc # "crashed"
      BY <1>1 DEF BatchClient
    <3> QED
      BY <1>2, <1>6, <2>1, <2>4, <3>1, <3>2, <3>3, <3>4, <3>5, <3>6 DEF BatchClient
  <2>9. Receives' = Receives /\ Sends' = Sends
    <3> DEFINE more == IF pc = "receive_responses" THEN BatchEnd - i ELSE 0
    <3>1. /\ Receives = Batches!Of(AskSq, "RECEIVE") + OpsOf(AskOps, "RECEIVE") + more
          /\ Receives' = Batches!Of(AskSq, "RECEIVE")' + OpsOf(AskOps, "RECEIVE")' + more
      BY <1>2, <2>4 DEF Receives
    <3>2. more \in Int
      BY <2>1, BatchOf
    <3>3. /\ Sends = Batches!Of(AskSq, "SEND") + OpsOf(AskOps, "SEND")
          /\ Sends' = Batches!Of(AskSq, "SEND")' + OpsOf(AskOps, "SEND")'
      BY DEF Sends
    <3> HIDE DEF more
    <3> QED
      BY <2>5, <2>6, <3>1, <3>2, <3>3
  <2>10. BatchFlow'
    BY <1>1, <1>2, <1>6, <1>9, <2>9 DEF BatchFlow, Onward
  <2>11. BatchData'
    <3>1. ASSUME NEW k, AskDone(k)'
          PROVE  AskDone(k)
      <4>1. \/ k < i
            \/ /\ pc = "reap" /\ k < BatchEnd
               /\ \A o \in K : ~(o.event = "RECEIVE" /\ o.j = k)
        BY <1>2, <1>6, <2>4, <3>1 DEF AskDone
      <4>2. \A m \in DOMAIN AskSq : AskSq[m] \in K
        BY DEF K, L, ToSet
      <4>3. AskOps \subseteq K
        BY DEF K
      <4> QED
        BY <4>1, <4>2, <4>3 DEF AskDone
    <3> QED
      BY <1>1, <1>2, <1>6, <1>9, <3>1 DEF BatchData
  <2> QED
    BY <1>7, <1>8, <2>8, <2>10, <2>11 DEF BatchesInv
<1> QED
  BY <1>10, <1>11

LEMMA ServePollKeepsBatches ==
  ASSUME BatchesInv, Batches!Poll("server")
  PROVE  BatchesInv'
<1> DEFINE r == Batches!Of(ServeSq, "READ")
           w == Batches!Of(ServeSq, "WRITE")
           m == ReadsUnder + r
           n == WritesUnder + w
<1>1. BatchTypes /\ BatchServer /\ BatchClient /\ BatchFlow /\ BatchData
  BY DEF BatchesInv
<1>2. /\ ServeSq # <<>> /\ UNCHANGED <<pc, i, left, responses, thread, frame, up, down, conn, losses>>
  BY <1>1, RingFields DEF Batches!Poll, Batches!clientside
<1>3. thread = "event_loop" /\ conn # "none"
  BY <1>1, <1>2 DEF BatchServer, BatchClient
<1>4. r + ReadsUnder + Batches!Of(ServeCq, "READ") = BatchSize
  BY <1>1, <1>3 DEF BatchServer
<1>5. /\ r \in Nat /\ w \in Nat /\ ReadsUnder \in Nat /\ WritesUnder \in Nat
      /\ Batches!Of(ServeCq, "READ") \in Nat /\ BatchSize \in Nat /\ Len(up) \in Nat /\ Len(down) \in Nat
  BY <1>1, BatchNumbers, BatchesAssumption
<1>6. ServeRing(<<>>, m, n, ServeCq)
  BY <1>1, ServePolled
<1>7. Batches!Of(<<>>, "READ") = 0 /\ Batches!Of(<<>>, "WRITE") = 0
  BY OfEmpty
<1>8. /\ AskSq' = AskSq /\ AskOps' = AskOps /\ AskCq' = AskCq /\ ServeSq' = <<>>
      /\ ServeCq' = ServeCq /\ ReadsUnder' = m /\ WritesUnder' = n
      /\ rings' \in BatchRings /\ rings'["client"].reads = 0 /\ rings'["client"].writes = 0
      /\ rings'["server"].kernel = {}
  BY <1>6 DEF ServeRing
<1>9. m \in Nat /\ n \in Nat /\ 0 + m + Batches!Of(ServeCq, "READ") = BatchSize
  BY ONLY <1>4, <1>5
<1>10. Onward' = Onward
  <2>1. Onward = Len(up) + 2 * Batches!Of(ServeCq, "READ") + 2 * w + 2 * WritesUnder + Len(down)
    BY DEF Onward
  <2>2. Onward' = Len(up) + 2 * Batches!Of(ServeCq, "READ") + 2 * 0 + 2 * n + Len(down)
    BY <1>2, <1>7, <1>8 DEF Onward
  <2> HIDE DEF w
  <2> QED
    BY <1>5, <2>1, <2>2
<1> HIDE DEF m, n
<1>11. BatchTypes'
  BY <1>1, <1>2, <1>8, <1>9, EmptyTyped DEF BatchTypes
<1>12. BatchServer'
  BY <1>2, <1>3, <1>7, <1>8, <1>9 DEF BatchServer
<1>13. /\ BatchClient' /\ BatchEnd' = BatchEnd /\ (AskWorking' <=> AskWorking)
       /\ Receives' = Receives /\ Sends' = Sends /\ \A k : AskDone(k)' <=> AskDone(k)
  BY <1>1, <1>2, <1>3, <1>8, ClientStays
<1>14. BatchFlow'
  BY <1>1, <1>2, <1>8, <1>10, <1>13 DEF BatchFlow
<1>15. BatchData'
  <2>1. Batches!Of(ServeSq, "WRITE")' + WritesUnder' > 0 =>
          Batches!Of(ServeSq, "WRITE") + WritesUnder > 0
    BY <1>5, <1>7, <1>8 DEF n
  <2> QED
    BY <1>1, <1>2, <1>8, <1>13, <2>1 DEF BatchData
<1> QED
  BY <1>11, <1>12, <1>13, <1>14, <1>15 DEF BatchesInv

LEMMA LossCounted ==
  ASSUME losses \in Nat, NEW n \in Int, losses' = losses + IF n < 2 THEN 1 ELSE 0
  PROVE  /\ losses' \in Nat
         /\ losses' = 0 => losses = 0 /\ ~(n < 2)
         /\ ~(n < 2) => losses' = losses
OBVIOUS

LEMMA TwoOfTwo ==
  ASSUME NEW x, NEW y
  PROVE  SubSeq(<<x, y>>, 1, 2) = <<x, y>>
<1> DEFINE s == <<x, y>>
           t == SubSeq(s, 1, 2)
<1>1. s \in Seq({x, y}) /\ Len(s) = 2
  OBVIOUS
<1>2. t \in Seq({x, y}) /\ Len(t) = 2 /\ t[1] = s[1] /\ t[2] = s[2]
  BY <1>1
<1> HIDE DEF s, t
<1>3. \A k \in 1 .. 2 : t[k] = s[k]
  BY <1>2
<1> QED
  BY <1>1, <1>2, <1>3, SeqEqual DEF s, t

(* A read of the server ends: what it read is off the connection.          *)
LEMMA ReadKeepsBatches ==
  ASSUME BatchesInv, NEW e \in ServeEnds, e.event = "READ", ReadsUnder > 0,
         Batches!ServerCompletes("reads", e),
         up' \in Seq({1, 2} \X Questions), conn' \in BatchConns, conn' # "none", losses' \in Nat,
         UNCHANGED <<pc, i, left, responses, thread, frame, down>>,
         losses' = 0 => losses = 0,
         losses' = 0 /\ AskWorking =>
           /\ conn' = conn /\ e.res = 2 /\ Len(up) = Len(up') + 2
           /\ ClientPages <= ServerPages => Paired(up', GoodQuestions) /\ e.request \in GoodQuestions
  PROVE  BatchesInv'
<1> DEFINE c == Append(ServeCq, e)
           m == ReadsUnder - 1
<1>1. BatchTypes /\ BatchServer /\ BatchClient /\ BatchFlow /\ BatchData
  BY DEF BatchesInv
<1>2. thread = "event_loop" /\ conn # "none"
  BY <1>1 DEF BatchServer, BatchClient
<1>3. ServeRing(ServeSq, m, WritesUnder, c)
  BY <1>1, ReadCompleted
<1>4. ServeCq \in Seq(ServeEnds)
  BY <1>1 DEF BatchTypes
<1>5. /\ c \in Seq(ServeEnds) /\ Batches!Of(c, "READ") = Batches!Of(ServeCq, "READ") + 1
      /\ Batches!Of(c, "READ") \in Nat
  BY <1>4, OfAppend, OfType
<1>6. \A k \in DOMAIN c : \/ k \in DOMAIN ServeCq /\ c[k] = ServeCq[k]
                          \/ c[k] = e
  BY <1>4
<1> HIDE DEF c
<1>7. m \in Nat /\ ReadsUnder = m + 1
  BY <1>1 DEF BatchTypes
<1> HIDE DEF m
<1>8. /\ AskSq' = AskSq /\ AskOps' = AskOps /\ AskCq' = AskCq /\ ServeSq' = ServeSq
      /\ ServeCq' = c /\ ReadsUnder' = m /\ WritesUnder' = WritesUnder
      /\ rings' \in BatchRings /\ rings'["client"].reads = 0 /\ rings'["client"].writes = 0
      /\ rings'["server"].kernel = {}
  BY <1>3 DEF ServeRing
<1>9. BatchTypes'
  BY <1>1, <1>5, <1>7, <1>8 DEF BatchTypes
<1>10. BatchServer'
  <2>1. Batches!Of(ServeSq, "READ") + ReadsUnder + Batches!Of(ServeCq, "READ") = BatchSize
        /\ Batches!Of(ServeSq, "WRITE") <= Batches!Of(ServeSq, "READ")
    BY <1>1, <1>2 DEF BatchServer
  <2>2. Batches!Of(ServeSq, "READ") \in Nat /\ Batches!Of(ServeCq, "READ") \in Nat /\ BatchSize \in Nat
    BY <1>1, BatchNumbers, BatchesAssumption
  <2>3. Batches!Of(ServeSq, "READ") + m + Batches!Of(c, "READ") = BatchSize
    BY <1>5, <1>7, <2>1, <2>2
  <2> QED
    BY <1>2, <1>8, <2>1, <2>3 DEF BatchServer
<1>11. /\ BatchClient' /\ BatchEnd' = BatchEnd /\ (AskWorking' <=> AskWorking)
       /\ Receives' = Receives /\ Sends' = Sends /\ \A k : AskDone(k)' <=> AskDone(k)
  BY <1>1, <1>2, <1>8, ClientStays
<1>12. BatchFlow'
  <2> SUFFICES ASSUME losses' = 0, AskWorking PROVE BatchFlow'
    BY <1>11 DEF BatchFlow
  <2>1. losses = 0 /\ conn' = conn /\ e.res = 2 /\ Len(up) = Len(up') + 2
    OBVIOUS
  <2>2. Onward' = Onward
    <3>1. Onward = Len(up) + 2 * Batches!Of(ServeCq, "READ") + 2 * Batches!Of(ServeSq, "WRITE")
                     + 2 * WritesUnder + Len(down)
      BY DEF Onward
    <3>2. Onward' = Len(up') + 2 * Batches!Of(c, "READ") + 2 * Batches!Of(ServeSq, "WRITE")
                      + 2 * WritesUnder + Len(down)
      BY <1>8 DEF Onward
    <3>3. Len(up') \in Nat
      BY LenProperties
    <3>4. /\ Batches!Of(ServeSq, "WRITE") \in Nat /\ Batches!Of(ServeCq, "READ") \in Nat
          /\ WritesUnder \in Nat /\ Len(down) \in Nat /\ Len(up) \in Nat
      BY <1>1, BatchNumbers
    <3> QED
      BY ONLY <1>5, <2>1, <3>1, <3>2, <3>3, <3>4
  <2>3. \A k \in DOMAIN c : c[k].event = "READ" => c[k].res = 2
    BY <1>1, <1>6, <2>1 DEF BatchFlow
  <2> QED
    BY <1>1, <1>8, <1>11, <2>1, <2>2, <2>3 DEF BatchFlow
<1>13. BatchData'
  <2>1. losses' = 0 /\ ClientPages <= ServerPages /\ AskWorking =>
          /\ Paired(up', GoodQuestions)
          /\ \A k \in DOMAIN c : c[k].event = "READ" => c[k].request \in GoodQuestions
    BY <1>1, <1>6 DEF BatchData
  <2> QED
    BY <1>1, <1>2, <1>8, <1>11, <2>1 DEF BatchData
<1> QED
  BY <1>9, <1>10, <1>11, <1>12, <1>13 DEF BatchesInv

LEMMA UnreadQuestions == Batches!Unread \subseteq Questions
<1> SUFFICES ASSUME NEW q \in Batches!Unread PROVE q \in Questions
  OBVIOUS
<1>1. PICK page \in {0, Batches!Digits * Batches!Digits - 1} : q = Batches!GetPageRequest(0, page)
  BY DEF Batches!Unread
<1>2. page \in Int
  BY ONLY <1>1 DEF Batches!Digits
<1> QED
  BY <1>1, <1>2 DEF Batches!GetPageRequest, Questions

LEMMA ReadOpKeepsBatches ==
  ASSUME BatchesInv, Batches!ReadOp
  PROVE  BatchesInv'
<1>1. BatchTypes /\ BatchServer /\ BatchClient /\ BatchFlow /\ BatchData
  BY DEF BatchesInv
<1>2. ReadsUnder > 0 /\ UNCHANGED <<pc, i, left, responses, thread, frame, down>>
  BY DEF Batches!ReadOp, Batches!clientside, ReadsUnder
<1>3. conn # "none"
  BY <1>1, <1>2 DEF BatchServer, BatchClient
<1>4. up \in Seq({1, 2} \X Questions) /\ losses \in Nat /\ conn \in BatchConns
  BY <1>1 DEF BatchTypes
<1>5. losses = 0 /\ AskWorking => conn \in {"connecting", "open"}
  BY <1>1 DEF BatchFlow
<1>6. ASSUME NEW n \in Batches!Lengths(up),
             NEW request \in IF Batches!IsWhole(SubSeq(up, 1, n))
                             THEN {SubSeq(up, 1, n)[1][2]} ELSE Batches!Unread,
             Batches!ServerCompletes("reads", [event |-> "READ", res |-> n, request |-> request]),
             up' = SubSeq(up, n + 1, Len(up)), Batches!Loses(n < 2), UNCHANGED conn
      PROVE  BatchesInv'
  <2> DEFINE e == [event |-> "READ", res |-> n, request |-> request]
  <2>1. /\ n \in 1 .. Len(up) /\ n <= 2 /\ Len(up) \in Nat
        /\ SubSeq(up, n + 1, Len(up)) \in Seq({1, 2} \X Questions)
        /\ \A k \in 1 .. n : up[k] \in {1, 2} \X Questions /\ SubSeq(up, 1, n)[k] = up[k]
    BY <1>4, <1>6, CutType
  <2>2. request \in Questions
    <3>1. 1 \in 1 .. n
      BY <2>1
    <3>2. SubSeq(up, 1, n)[1] \in {1, 2} \X Questions
      BY <2>1, <3>1
    <3> QED
      <4>1. SubSeq(up, 1, n)[1][2] \in Questions
        BY ONLY <3>2
      <4>2. request = SubSeq(up, 1, n)[1][2] \/ request \in Batches!Unread
        BY ONLY request \in IF Batches!IsWhole(SubSeq(up, 1, n))
                             THEN {SubSeq(up, 1, n)[1][2]} ELSE Batches!Unread, Zenon
      <4> QED
        BY ONLY <4>1, <4>2, UnreadQuestions
  <2>3. e \in ServeEnds /\ e.event = "READ" /\ e.res = n /\ e.request = request
    BY <2>1, <2>2 DEF ServeEnds
  <2>4. losses' \in Nat /\ (losses' = 0 => losses = 0 /\ n = 2)
    <3>1. losses' = losses + (IF n < 2 THEN 1 ELSE 0) /\ losses \in Nat
      <4>1. losses' = losses + IF n < 2 THEN 1 ELSE 0
        BY ONLY <1>6 DEF Batches!Loses
      <4> QED
        BY ONLY <1>4, <4>1
    <3>2. n \in Int
      BY <2>1
    <3>3. losses' \in Nat /\ (losses' = 0 => losses = 0 /\ ~(n < 2))
      BY <3>1, <3>2, LossCounted
    <3> QED
      BY <2>1, <3>3
  <2>5. n = 2 => /\ Len(up) = Len(up') + 2
                 /\ Paired(up, GoodQuestions) => Paired(up', GoodQuestions) /\ request \in GoodQuestions
    <3> SUFFICES ASSUME n = 2
                 PROVE  /\ Len(up) = Len(up') + 2
                        /\ Paired(up, GoodQuestions) => Paired(up', GoodQuestions)
                                                        /\ request \in GoodQuestions
      OBVIOUS
    <3>1. Len(up) >= 2 /\ up' = SubSeq(up, 3, Len(up))
      BY <1>6, <2>1
    <3>2. /\ Len(SubSeq(up, 3, Len(up))) = Len(up) - 2
          /\ Paired(up, GoodQuestions) =>
               /\ Batches!IsWhole(SubSeq(up, 1, 2)) /\ SubSeq(up, 1, 2)[1][2] \in GoodQuestions
               /\ Paired(SubSeq(up, 3, Len(up)), GoodQuestions)
      BY <1>4, <3>1, PairedLess
    <3>3. Len(up) = Len(up') + 2
      BY <2>1, <3>1, <3>2
    <3>4. Batches!IsWhole(SubSeq(up, 1, 2)) => request = SubSeq(up, 1, 2)[1][2]
      OBVIOUS
    <3> QED
      BY <3>1, <3>2, <3>3, <3>4
  <2>6. losses' = 0 /\ AskWorking /\ ClientPages <= ServerPages => Paired(up, GoodQuestions)
    BY <1>1, <2>4 DEF BatchData
  <2>7. conn' = conn /\ conn' \in BatchConns /\ up' \in Seq({1, 2} \X Questions)
    BY <1>4, <1>6, <2>1
  <2>8. Batches!ServerCompletes("reads", e)
    BY <1>6
  <2> HIDE DEF e
  <2> QED
    BY <1>2, <1>3, <2>3, <2>4, <2>5, <2>6, <2>7, <2>8, ReadKeepsBatches
<1>7. ASSUME NEW e \in ServeEnds, e.event = "READ", Batches!ServerCompletes("reads", e),
             conn \in {"client closed", "dead", "reset"}, conn' \in {conn, "dead"}, UNCHANGED <<up, losses>>
      PROVE  BatchesInv'
  <2>1. conn' \in BatchConns /\ conn' # "none" /\ ~(losses' = 0 /\ AskWorking)
    BY <1>5, <1>7 DEF BatchConns
  <2> QED
    BY <1>2, <1>4, <1>7, <2>1, ReadKeepsBatches
<1>8. \/ \E n \in Batches!Lengths(up) :
           \E request \in IF Batches!IsWhole(SubSeq(up, 1, n))
                          THEN {SubSeq(up, 1, n)[1][2]} ELSE Batches!Unread :
             /\ Batches!ServerCompletes("reads", [event |-> "READ", res |-> n, request |-> request])
             /\ up' = SubSeq(up, n + 1, Len(up)) /\ Batches!Loses(n < 2) /\ UNCHANGED conn
      \/ /\ conn \in {"client closed", "dead"}
         /\ Batches!ServerCompletes("reads", [event |-> "READ", res |-> 0])
         /\ UNCHANGED <<up, conn, losses>>
      \/ /\ conn = "reset" /\ conn' = "dead"
         /\ \E request \in Batches!Unread :
              Batches!ServerCompletes("reads", [event |-> "READ", res |-> -1, request |-> request])
         /\ UNCHANGED <<up, losses>>
  BY DEF Batches!ReadOp
<1>9. [event |-> "READ", res |-> 0] \in ServeEnds
  BY DEF ServeEnds
<1>10. \A request \in Batches!Unread : [event |-> "READ", res |-> -1, request |-> request] \in ServeEnds
  <2> SUFFICES ASSUME NEW request \in Batches!Unread
               PROVE  [event |-> "READ", res |-> -1, request |-> request] \in ServeEnds
    OBVIOUS
  <2>1. request \in Questions /\ -1 \in Int
    BY UnreadQuestions
  <2> QED
    BY <2>1 DEF ServeEnds
<1>11. CASE /\ conn \in {"client closed", "dead"}
            /\ Batches!ServerCompletes("reads", [event |-> "READ", res |-> 0])
            /\ UNCHANGED <<up, conn, losses>>
  <2> DEFINE e == [event |-> "READ", res |-> 0]
  <2>1. e \in ServeEnds /\ e.event = "READ" /\ Batches!ServerCompletes("reads", e)
    BY <1>9, <1>11
  <2> HIDE DEF e
  <2> QED
    BY <1>7, <1>11, <2>1
<1>12. ASSUME conn = "reset", conn' = "dead", NEW request \in Batches!Unread,
              Batches!ServerCompletes("reads", [event |-> "READ", res |-> -1, request |-> request]),
              UNCHANGED <<up, losses>>
       PROVE  BatchesInv'
  <2> DEFINE e == [event |-> "READ", res |-> -1, request |-> request]
  <2>1. e \in ServeEnds /\ e.event = "READ" /\ Batches!ServerCompletes("reads", e)
    BY <1>10, <1>12
  <2> HIDE DEF e
  <2> QED
    BY <1>7, <1>12, <2>1
<1> QED
  BY <1>6, <1>8, <1>11, <1>12

LEMMA WriteOpKeepsBatches ==
  ASSUME BatchesInv, Batches!WriteOp
  PROVE  BatchesInv'
<1> DEFINE e == [event |-> "WRITE"]
           c == Append(ServeCq, e)
           m == WritesUnder - 1
<1>1. BatchTypes /\ BatchServer /\ BatchClient /\ BatchFlow /\ BatchData
  BY DEF BatchesInv
<1>2. WritesUnder > 0 /\ UNCHANGED <<pc, i, left, responses, thread, frame, up, conn>>
  BY DEF Batches!WriteOp, Batches!clientside, WritesUnder
<1>3. thread = "event_loop" /\ conn # "none"
  BY <1>1, <1>2 DEF BatchServer, BatchClient
<1>4. ServeCq \in Seq(ServeEnds) /\ down \in Seq({1, 2} \X Answers) /\ frame \in Answers /\ losses \in Nat
  BY <1>1 DEF BatchTypes
<1>5. /\ down' \in Seq({1, 2} \X Answers) /\ losses' \in Nat
      /\ losses' = 0 => losses = 0
      /\ losses' = 0 /\ AskWorking =>
           /\ Len(down') = Len(down) + 2
           /\ Paired(down, GoodAnswers) /\ frame \in GoodAnswers => Paired(down', GoodAnswers)
  <2>1. \/ \E n \in {1, 2} : /\ down' = down \o SubSeq(Batches!ResponsePieces(frame), 1, n)
                             /\ Batches!Loses(n < 2)
        \/ Batches!Broken /\ UNCHANGED <<down, losses>>
    <3>1. (IF "short" \in BatchFaults THEN 1 .. 2 ELSE {2}) \subseteq {1, 2}
      OBVIOUS
    <3> QED
      BY <3>1 DEF Batches!WriteOp
  <2>2. CASE Batches!Broken /\ UNCHANGED <<down, losses>>
    <3>1. ~(losses = 0 /\ AskWorking)
      BY <1>1, <2>2 DEF BatchFlow, Batches!Broken
    <3> QED
      BY <1>4, <2>2, <3>1
  <2>3. ASSUME down' = down \o SubSeq(Batches!ResponsePieces(frame), 1, 1), Batches!Loses(1 < 2)
        PROVE  down' \in Seq({1, 2} \X Answers) /\ losses' \in Nat /\ losses' # 0
    <3>1. losses' \in Nat /\ losses' # 0
      <4>1. losses' = losses + 1
        BY <2>3 DEF Batches!Loses
      <4>2. losses \in Nat
        BY <1>4
      <4> QED
        BY <4>1, <4>2
    <3> DEFINE s == SubSeq(Batches!ResponsePieces(frame), 1, 1)
               P == {1, 2} \X Answers
    <3>2. s \in Seq(P)
      BY <1>4 DEF Batches!ResponsePieces
    <3>3. down \in Seq(P)
      BY <1>4
    <3> HIDE DEF s, P
    <3>4. down \o s \in Seq(P)
      BY <3>2, <3>3, ConcatProperties
    <3>5. down' = down \o s
      BY <2>3 DEF s
    <3> QED
      BY <3>1, <3>4, <3>5 DEF P
  <2>4. ASSUME down' = down \o SubSeq(Batches!ResponsePieces(frame), 1, 2), Batches!Loses(2 < 2)
        PROVE  /\ down' \in Seq({1, 2} \X Answers) /\ losses' = losses
               /\ Len(down') = Len(down) + 2
               /\ Paired(down, GoodAnswers) /\ frame \in GoodAnswers => Paired(down', GoodAnswers)
    <3>1. losses' = losses
      <4>1. losses' = losses + 0
        BY <2>4 DEF Batches!Loses
      <4>2. losses \in Nat
        BY <1>4
      <4> QED
        BY <4>1, <4>2
    <3>2. SubSeq(Batches!ResponsePieces(frame), 1, 2) = <<<<1, frame>>, <<2, frame>>>>
      BY TwoOfTwo DEF Batches!ResponsePieces
    <3>3. down' = down \o <<<<1, frame>>, <<2, frame>>>>
      BY <2>4, <3>2
    <3> QED
      BY <1>4, <3>1, <3>3, PairedMore
  <2> QED
    BY <1>4, <2>1, <2>2, <2>3, <2>4
<1>6. e \in ServeEnds /\ e.event = "WRITE" /\ Batches!ServerCompletes("writes", e)
  BY DEF Batches!WriteOp, ServeEnds
<1> HIDE DEF e
<1>7. ServeRing(ServeSq, ReadsUnder, m, c)
  BY <1>1, <1>6, WriteCompleted
<1>8. /\ c \in Seq(ServeEnds) /\ Batches!Of(c, "READ") = Batches!Of(ServeCq, "READ")
  <2>1. /\ c \in Seq(ServeEnds)
        /\ Batches!Of(c, "READ") = Batches!Of(ServeCq, "READ") + IF e.event = "READ" THEN 1 ELSE 0
    BY <1>4, <1>6, OfAppend
  <2>2. Batches!Of(ServeCq, "READ") \in Nat
    BY <1>1, BatchNumbers
  <2> QED
    BY <1>6, <2>1, <2>2
<1>9. \A k \in DOMAIN c : \/ k \in DOMAIN ServeCq /\ c[k] = ServeCq[k]
                          \/ c[k] = e
  BY <1>4
<1> HIDE DEF c
<1>10. m \in Nat /\ WritesUnder = m + 1
  BY <1>1, <1>2 DEF BatchTypes
<1> HIDE DEF m
<1>11. /\ AskSq' = AskSq /\ AskOps' = AskOps /\ AskCq' = AskCq /\ ServeSq' = ServeSq
       /\ ServeCq' = c /\ ReadsUnder' = ReadsUnder /\ WritesUnder' = m
       /\ rings' \in BatchRings /\ rings'["client"].reads = 0 /\ rings'["client"].writes = 0
       /\ rings'["server"].kernel = {}
  BY <1>7 DEF ServeRing
<1>12. BatchTypes'
  BY <1>1, <1>2, <1>5, <1>8, <1>10, <1>11 DEF BatchTypes
<1>13. BatchServer'
  BY <1>1, <1>2, <1>3, <1>8, <1>11 DEF BatchServer
<1>14. /\ BatchClient' /\ BatchEnd' = BatchEnd /\ (AskWorking' <=> AskWorking)
       /\ Receives' = Receives /\ Sends' = Sends /\ \A k : AskDone(k)' <=> AskDone(k)
  BY <1>1, <1>2, <1>3, <1>11, ClientStays
<1>15. BatchFlow'
  <2> SUFFICES ASSUME losses' = 0, AskWorking PROVE BatchFlow'
    BY <1>14 DEF BatchFlow
  <2>1. losses = 0 /\ Len(down') = Len(down) + 2
    BY <1>5
  <2>2. Onward' = Onward
    <3>1. Onward = Len(up) + 2 * Batches!Of(ServeCq, "READ") + 2 * Batches!Of(ServeSq, "WRITE")
                     + 2 * WritesUnder + Len(down)
      BY DEF Onward
    <3>2. Onward' = Len(up) + 2 * Batches!Of(ServeCq, "READ") + 2 * Batches!Of(ServeSq, "WRITE")
                      + 2 * m + Len(down')
      BY <1>2, <1>8, <1>11 DEF Onward
    <3>3. /\ Batches!Of(ServeSq, "WRITE") \in Nat /\ Batches!Of(ServeCq, "READ") \in Nat
          /\ WritesUnder \in Nat /\ Len(down) \in Nat /\ Len(up) \in Nat
      BY <1>1, BatchNumbers
    <3> QED
      <4> DEFINE r == Batches!Of(ServeCq, "READ")
                 q == Batches!Of(ServeSq, "WRITE")
                 u == Len(up)
                 d == Len(down)
                 f == Len(down')
                 t == Onward'
      <4>1. /\ f = d + 2 /\ WritesUnder = m + 1 /\ m \in Nat
            /\ Onward = u + 2 * r + 2 * q + 2 * WritesUnder + d
        BY <1>10, <2>1, <3>1
      <4>2. t = u + 2 * r + 2 * q + 2 * m + f
        BY <3>2
      <4>3. r \in Nat /\ q \in Nat /\ u \in Nat /\ d \in Nat
        BY <3>3
      <4> HIDE DEF r, q, u, d, f, t
      <4>4. t = Onward
        BY ONLY <4>1, <4>2, <4>3
      <4> QED
        BY <4>4 DEF t
  <2>3. \A k \in DOMAIN c : c[k].event = "READ" => c[k].res = 2
    BY <1>1, <1>6, <1>9, <2>1 DEF BatchFlow
  <2> QED
    BY <1>1, <1>2, <1>11, <1>14, <2>1, <2>2, <2>3 DEF BatchFlow
<1>16. BatchData'
  <2>1. losses' = 0 /\ ClientPages <= ServerPages /\ AskWorking =>
          /\ Paired(down', GoodAnswers) /\ frame \in GoodAnswers
          /\ \A k \in DOMAIN c : c[k].event = "READ" => c[k].request \in GoodQuestions
    <3> SUFFICES ASSUME losses' = 0, ClientPages <= ServerPages, AskWorking
                 PROVE  /\ Paired(down', GoodAnswers) /\ frame \in GoodAnswers
                        /\ \A k \in DOMAIN c : c[k].event = "READ" => c[k].request \in GoodQuestions
      OBVIOUS
    <3>1. losses = 0
      BY <1>5
    <3>2. Batches!Of(ServeSq, "WRITE") + WritesUnder > 0
      <4>1. Batches!Of(ServeSq, "WRITE") \in Nat /\ WritesUnder \in Nat
        BY <1>1, BatchNumbers
      <4> QED
        BY <1>2, <4>1
    <3>3. /\ frame \in GoodAnswers /\ Paired(down, GoodAnswers)
          /\ \A k \in DOMAIN ServeCq : ServeCq[k].event = "READ" => ServeCq[k].request \in GoodQuestions
      BY <1>1, <3>1, <3>2 DEF BatchData
    <3> QED
      BY <1>5, <1>6, <1>9, <3>3
  <2> QED
    BY <1>1, <1>2, <1>3, <1>5, <1>11, <1>14, <2>1 DEF BatchData
<1> QED
  BY <1>12, <1>13, <1>14, <1>15, <1>16 DEF BatchesInv

(* An operation of the client ends.                                        *)
LEMMA CompletionLeaves ==
  ASSUME BatchesInv, NEW o \in AskOps, NEW res \in Int, Batches!Completes(o, res),
         up' \in Seq({1, 2} \X Questions), down' \in Seq({1, 2} \X Answers), losses' \in Nat,
         DOMAIN responses' = DOMAIN responses,
         UNCHANGED <<pc, i, left, thread, frame, conn>>
  PROVE  /\ BatchTypes' /\ BatchServer' /\ BatchClient'
         /\ pc # "setup_socket" /\ pc # "returned" /\ conn # "none"
         /\ BatchEnd' = BatchEnd /\ (AskWorking' <=> AskWorking)
         /\ Receives' \in Int /\ Sends' \in Nat
         /\ o.event = "RECEIVE" => Receives = Receives' + 1 /\ Sends = Sends'
         /\ o.event = "SEND" => Receives = Receives' /\ Sends = Sends' + 1
         /\ AskCq' = Append(AskCq, [event |-> o.event, j |-> o.j, res |-> res])
         /\ AskCq'[Len(AskCq')].event = o.event
         /\ AskSq' = AskSq /\ AskOps' = AskOps \ {o}
         /\ ServeSq' = ServeSq /\ ServeCq' = ServeCq
         /\ ReadsUnder' = ReadsUnder /\ WritesUnder' = WritesUnder
<1> DEFINE e == [event |-> o.event, j |-> o.j, res |-> res]
           c == Append(AskCq, e)
           K == AskOps \ {o}
<1>1. BatchTypes /\ BatchServer /\ BatchClient
  BY DEF BatchesInv
<1>2. pc # "setup_socket" /\ pc # "returned" /\ conn # "none"
  BY <1>1 DEF BatchClient
<1>3. AskRing(AskSq, K, c) /\ o \in Asks /\ e \in AskEnds
  BY <1>1, AskCompleted
<1>4. e.event = o.event
  OBVIOUS
<1> HIDE DEF e
<1>5. AskCq \in Seq(AskEnds)
  BY <1>1 DEF BatchTypes
<1>6. /\ c \in Seq(AskEnds)
      /\ Batches!Of(c, "RECEIVE") = Batches!Of(AskCq, "RECEIVE") + IF o.event = "RECEIVE" THEN 1 ELSE 0
  BY <1>3, <1>4, <1>5, OfAppend
<1>7. c[Len(c)] = e
  BY <1>5
<1>8. IsFiniteSet(AskOps)
  BY <1>1 DEF BatchTypes
<1>9. /\ IsFiniteSet(K)
      /\ OpsOf(AskOps, "RECEIVE") = OpsOf(K, "RECEIVE") + IF o.event = "RECEIVE" THEN 1 ELSE 0
  <2>1. \A x : /\ IsFiniteSet(AskOps \ {o})
               /\ OpsOf(AskOps, x) = OpsOf(AskOps \ {o}, x) + IF o.event = x THEN 1 ELSE 0
    BY <1>8, OpsRemove
  <2> HIDE DEF K
  <2>2. K = AskOps \ {o}
    BY DEF K
  <2> QED
    BY <2>1, <2>2
<1>10. /\ IsFiniteSet(K)
       /\ OpsOf(AskOps, "SEND") = OpsOf(K, "SEND") + IF o.event = "SEND" THEN 1 ELSE 0
  <2>1. \A x : /\ IsFiniteSet(AskOps \ {o})
               /\ OpsOf(AskOps, x) = OpsOf(AskOps \ {o}, x) + IF o.event = x THEN 1 ELSE 0
    BY <1>8, OpsRemove
  <2> HIDE DEF K
  <2>2. K = AskOps \ {o}
    BY DEF K
  <2> QED
    BY <2>1, <2>2
<1>11. OpsOf(K, "RECEIVE") \in Nat /\ OpsOf(K, "SEND") \in Nat
  BY <1>9, OpsType
<1> HIDE DEF c
<1>12. K \subseteq AskOps
  OBVIOUS
<1>13. /\ AskSq' = AskSq /\ AskOps' = K /\ AskCq' = c /\ ServeSq' = ServeSq
       /\ ServeCq' = ServeCq /\ ReadsUnder' = ReadsUnder /\ WritesUnder' = WritesUnder
       /\ rings' \in BatchRings /\ rings'["client"].reads = 0 /\ rings'["client"].writes = 0
       /\ rings'["server"].kernel = {}
  BY <1>3 DEF AskRing
<1> HIDE DEF K
<1>14. BatchTypes'
  BY <1>1, <1>6, <1>9, <1>13 DEF BatchTypes
<1>15. BatchServer'
  BY <1>1, <1>13, ServerStays
<1>16. BatchEnd' = BatchEnd /\ (AskWorking' <=> AskWorking)
  BY DEF BatchEnd, AskWorking
<1>17. /\ OpsOf(AskOps, "RECEIVE")' = OpsOf(K, "RECEIVE") /\ OpsOf(AskOps, "SEND")' = OpsOf(K, "SEND")
       /\ Batches!Of(AskCq, "RECEIVE")' = Batches!Of(c, "RECEIVE")
       /\ Batches!Of(AskSq, "RECEIVE")' = Batches!Of(AskSq, "RECEIVE")
       /\ Batches!Of(AskSq, "SEND")' = Batches!Of(AskSq, "SEND")
  BY <1>13 DEF OpsOf
<1>18. /\ Batches!Of(AskSq, "RECEIVE") \in Nat /\ Batches!Of(AskSq, "SEND") \in Nat
       /\ Batches!Of(AskCq, "RECEIVE") \in Nat
  BY <1>1, BatchNumbers
<1>19. BatchClient'
  <2>1. pc = "reap" => left > 0 /\ left = Batches!Of(AskSq, "RECEIVE") + OpsOf(K, "RECEIVE")
                                     + Batches!Of(c, "RECEIVE")
    <3>1. pc = "reap" => left > 0 /\ left = Batches!Of(AskSq, "RECEIVE") + OpsOf(AskOps, "RECEIVE")
                                     + Batches!Of(AskCq, "RECEIVE")
      BY <1>1 DEF BatchClient
    <3> QED
      BY <1>6, <1>9, <1>11, <1>18, <3>1
  <2>2. pc \in {"send_requests", "receive_responses"} => Batches!Of(c, "RECEIVE") = 0
    <3>1. pc \in {"send_requests", "receive_responses"} => Batches!Of(AskCq, "RECEIVE") = 0
      BY <1>1 DEF BatchClient
    <3>2. pc \in {"send_requests", "receive_responses"} => o.event # "RECEIVE"
      BY <1>1 DEF BatchClient, AskWorking
    <3> QED
      BY <1>6, <3>1, <3>2
  <2>3. Batches!Batch("SEND")' = Batches!Batch("SEND") /\ Batches!Batch("RECEIVE")' = Batches!Batch("RECEIVE")
    BY DEF Batches!Batch
  <2> QED
    BY <1>1, <1>2, <1>12, <1>13, <1>16, <1>17, <2>1, <2>2, <2>3 DEF BatchClient
<1>20. /\ Receives' \in Int /\ Sends' \in Nat
       /\ o.event = "RECEIVE" => Receives = Receives' + 1 /\ Sends = Sends'
       /\ o.event = "SEND" => Receives = Receives' /\ Sends = Sends' + 1
  <2> DEFINE more == IF pc = "receive_responses" THEN BatchEnd - i ELSE 0
  <2>1. /\ Receives = Batches!Of(AskSq, "RECEIVE") + OpsOf(AskOps, "RECEIVE") + more
        /\ Receives' = Batches!Of(AskSq, "RECEIVE") + OpsOf(K, "RECEIVE") + more
    BY <1>16, <1>17 DEF Receives
  <2>2. more \in Int
    BY <1>1, BatchesAssumption DEF BatchEnd, BatchTypes
  <2>3. /\ Sends = Batches!Of(AskSq, "SEND") + OpsOf(AskOps, "SEND")
        /\ Sends' = Batches!Of(AskSq, "SEND") + OpsOf(K, "SEND")
    BY <1>17 DEF Sends
  <2> HIDE DEF more
  <2>4. o.event = "RECEIVE" => OpsOf(AskOps, "RECEIVE") = OpsOf(K, "RECEIVE") + 1
                               /\ OpsOf(AskOps, "SEND") = OpsOf(K, "SEND")
    BY <1>9, <1>10, <1>11
  <2>5. o.event = "SEND" => OpsOf(AskOps, "RECEIVE") = OpsOf(K, "RECEIVE")
                            /\ OpsOf(AskOps, "SEND") = OpsOf(K, "SEND") + 1
    BY <1>9, <1>10, <1>11
  <2>6. o.event = "RECEIVE" => Receives = Receives' + 1 /\ Sends = Sends'
    BY ONLY <1>11, <1>18, <2>1, <2>2, <2>3, <2>4
  <2>7. o.event = "SEND" => Receives = Receives' /\ Sends = Sends' + 1
    BY ONLY <1>11, <1>18, <2>1, <2>2, <2>3, <2>5
  <2>8. Receives' \in Int /\ Sends' \in Nat
    BY ONLY <1>11, <1>18, <2>1, <2>2, <2>3
  <2> QED
    BY <2>6, <2>7, <2>8
<1> QED
  BY <1>2, <1>4, <1>7, <1>13, <1>14, <1>15, <1>16, <1>19, <1>20 DEF c, e, K

LEMMA OneSent ==
  ASSUME 2 * Receives = 2 * Sends + Onward, Onward \in Nat, Receives' \in Int, Sends' \in Nat,
         Receives' = Receives, Sends = Sends' + 1, Onward' = Onward + 2
  PROVE  2 * Receives' = 2 * Sends' + Onward'
<1> DEFINE r == Receives
           s == Sends
           n == Onward
           x == Receives'
           y == Sends'
           z == Onward'
<1>1. /\ x \in Int /\ y \in Nat /\ n \in Nat /\ x = r /\ s = y + 1 /\ z = n + 2
      /\ 2 * r = 2 * s + n
  OBVIOUS
<1> HIDE DEF r, s, n, x, y, z
<1>2. 2 * x = 2 * y + z
  BY <1>1
<1> QED
  BY <1>2 DEF x, y, z

LEMMA OneReceived ==
  ASSUME 2 * Receives = 2 * Sends + Onward, Onward' \in Int, Receives' \in Int, Sends' \in Nat,
         Receives = Receives' + 1, Sends = Sends', Onward = Onward' + 2
  PROVE  2 * Receives' = 2 * Sends' + Onward'
<1> DEFINE r == Receives
           s == Sends
           n == Onward
           x == Receives'
           y == Sends'
           z == Onward'
<1>1. /\ x \in Int /\ y \in Nat /\ z \in Int /\ r = x + 1 /\ s = y /\ n = z + 2
      /\ 2 * r = 2 * s + n
  OBVIOUS
<1> HIDE DEF r, s, n, x, y, z
<1>2. 2 * x = 2 * y + z
  BY <1>1
<1> QED
  BY <1>2 DEF x, y, z

LEMMA SendOpKeepsBatches ==
  ASSUME BatchesInv, NEW o \in AskOps, Batches!SendOp(o)
  PROVE  BatchesInv'
<1> DEFINE q == Batches!to_network_order(Batches!GetPageRequest(o.j, o.j % ClientPages))
<1>1. BatchTypes /\ BatchServer /\ BatchClient /\ BatchFlow /\ BatchData
  BY DEF BatchesInv
<1>2. /\ o.event = "SEND" /\ UNCHANGED <<pc, i, left, responses, thread, frame, down, conn, losses>>
      /\ o \in Asks /\ o.j \in Nat
  BY <1>1, RingsType DEF Batches!SendOp, Batches!clientside, Asks
<1>3. up \in Seq({1, 2} \X Questions) /\ down \in Seq({1, 2} \X Answers) /\ losses \in Nat
  BY <1>1 DEF BatchTypes
<1>4. q \in GoodQuestions /\ q \in Questions
  <2>1. q \in GoodQuestions
    BY <1>2, QuestionGood
  <2> HIDE DEF q
  <2> QED
    BY <2>1 DEF GoodQuestions
<1>5. \E res \in {-1, 2} :
        /\ Batches!Completes(o, res)
        /\ up' \in Seq({1, 2} \X Questions)
        /\ losses = 0 /\ AskWorking =>
             /\ Len(up') = Len(up) + 2
             /\ Paired(up, GoodQuestions) => Paired(up', GoodQuestions)
  <2>1. \/ /\ up' = up \o Batches!RequestPieces(q)
           /\ Batches!Completes(o, 2)
        \/ Batches!Broken /\ Batches!Completes(o, -1) /\ UNCHANGED up
    BY DEF Batches!SendOp
  <2>2. CASE Batches!Broken /\ Batches!Completes(o, -1) /\ UNCHANGED up
    <3>1. ~(losses = 0 /\ AskWorking)
      BY <1>1, <2>2 DEF BatchFlow, Batches!Broken
    <3> QED
      BY <1>3, <2>2, <3>1
  <2>3. CASE up' = up \o Batches!RequestPieces(q) /\ Batches!Completes(o, 2)
    <3> HIDE DEF q
    <3>1. up' = up \o <<<<1, q>>, <<2, q>>>>
      BY <2>3 DEF Batches!RequestPieces
    <3>2. /\ up' \in Seq({1, 2} \X Questions) /\ Len(up') = Len(up) + 2
          /\ Paired(up, GoodQuestions) => Paired(up', GoodQuestions)
      BY <1>3, <1>4, <3>1, PairedMore
    <3> QED
      BY <2>3, <3>2
  <2> QED
    BY <2>1, <2>2, <2>3
<1> HIDE DEF q
<1>6. PICK res \in {-1, 2} :
        /\ Batches!Completes(o, res)
        /\ up' \in Seq({1, 2} \X Questions)
        /\ losses = 0 /\ AskWorking =>
             /\ Len(up') = Len(up) + 2
             /\ Paired(up, GoodQuestions) => Paired(up', GoodQuestions)
  BY <1>5
<1>7. /\ res \in Int /\ down' \in Seq({1, 2} \X Answers) /\ losses' \in Nat
      /\ DOMAIN responses' = DOMAIN responses
  BY <1>2, <1>3
<1>8. /\ BatchTypes' /\ BatchServer' /\ BatchClient'
      /\ pc # "setup_socket" /\ pc # "returned" /\ conn # "none"
      /\ BatchEnd' = BatchEnd /\ (AskWorking' <=> AskWorking)
      /\ Receives' \in Int /\ Sends' \in Nat
      /\ o.event = "RECEIVE" => Receives = Receives' + 1 /\ Sends = Sends'
      /\ o.event = "SEND" => Receives = Receives' /\ Sends = Sends' + 1
      /\ AskSq' = AskSq /\ AskOps' = AskOps \ {o}
      /\ ServeSq' = ServeSq /\ ServeCq' = ServeCq
      /\ ReadsUnder' = ReadsUnder /\ WritesUnder' = WritesUnder
  BY <1>2, <1>6, <1>7, CompletionLeaves
<1>9. Receives' = Receives /\ Sends = Sends' + 1
  BY <1>2, <1>8
<1>10. BatchFlow'
  <2> SUFFICES ASSUME losses = 0, AskWorking PROVE BatchFlow'
    BY <1>2, <1>8 DEF BatchFlow
  <2>1. 2 * Receives = 2 * Sends + Onward /\ Onward \in Nat
    BY <1>1, BatchNumbers DEF BatchFlow
  <2>2. Onward' = Onward + 2
    <3>1. Len(up') = Len(up) + 2
      BY <1>6
    <3>2. Onward = Len(up) + 2 * Batches!Of(ServeCq, "READ") + 2 * Batches!Of(ServeSq, "WRITE")
                     + 2 * WritesUnder + Len(down)
      BY DEF Onward
    <3>3. Onward' = Len(up') + 2 * Batches!Of(ServeCq, "READ") + 2 * Batches!Of(ServeSq, "WRITE")
                      + 2 * WritesUnder + Len(down)
      BY <1>2, <1>8 DEF Onward
    <3>4. /\ Batches!Of(ServeSq, "WRITE") \in Nat /\ Batches!Of(ServeCq, "READ") \in Nat
          /\ WritesUnder \in Nat /\ Len(down) \in Nat /\ Len(up) \in Nat
      BY <1>1, BatchNumbers
    <3> QED
      <4> DEFINE r == Batches!Of(ServeCq, "READ")
                 w == Batches!Of(ServeSq, "WRITE")
                 u == Len(up)
                 v == Len(up')
                 d == Len(down)
                 t == Onward'
      <4>1. v = u + 2 /\ Onward = u + 2 * r + 2 * w + 2 * WritesUnder + d
        BY <3>1, <3>2
      <4>2. t = v + 2 * r + 2 * w + 2 * WritesUnder + d
        BY <3>3
      <4>3. r \in Nat /\ w \in Nat /\ WritesUnder \in Nat /\ u \in Nat /\ d \in Nat
        BY <3>4
      <4> HIDE DEF r, w, u, v, d, t
      <4>4. t = Onward + 2
        BY ONLY <4>1, <4>2, <4>3
      <4> QED
        BY <4>4 DEF t
  <2>3. 2 * Receives' = 2 * Sends' + Onward'
    <3>1. /\ Receives' \in Int /\ Sends' \in Nat /\ Receives' = Receives /\ Sends = Sends' + 1
      BY <1>8, <1>9
    <3> QED
      BY <2>1, <2>2, <3>1, OneSent
  <2>4. Receives # 0
    <3>1. Sends' \in Nat /\ Sends = Sends' + 1
      BY <1>8, <1>9
    <3> QED
      BY <2>1, <3>1
  <2>5. pc # "send_requests"
    <3> SUFFICES ASSUME pc = "send_requests" PROVE FALSE
      OBVIOUS
    <3>1. AskSq = <<>> /\ \A p \in AskOps : p.event # "RECEIVE"
      BY <1>1 DEF BatchClient, AskWorking
    <3>2. OpsOf(AskOps, "RECEIVE") = 0
      BY <1>1, <3>1, OpsType DEF BatchTypes
    <3>3. Batches!Of(<<>>, "RECEIVE") = 0
      BY OfEmpty
    <3> QED
      BY <2>4, <3>1, <3>2, <3>3 DEF Receives
  <2> QED
    BY <1>1, <1>2, <1>8, <1>9, <2>3, <2>4, <2>5 DEF BatchFlow
<1>11. BatchData'
  <2>1. ASSUME NEW k, AskDone(k)'
        PROVE  AskDone(k)
    <3>1. \/ k < i
          \/ /\ pc = "reap" /\ k < BatchEnd
             /\ \A p \in AskOps \ {o} : ~(p.event = "RECEIVE" /\ p.j = k)
             /\ \A m \in DOMAIN AskSq : ~(AskSq[m].event = "RECEIVE" /\ AskSq[m].j = k)
      BY <1>2, <1>8, <2>1 DEF AskDone
    <3> QED
      BY <1>2, <3>1 DEF AskDone
  <2> QED
    BY <1>1, <1>2, <1>6, <1>8, <2>1 DEF BatchData
<1> QED
  BY <1>8, <1>10, <1>11 DEF BatchesInv

LEMMA RecvOpKeepsBatches ==
  ASSUME BatchesInv, NEW o \in AskOps, Batches!RecvOp(o)
  PROVE  BatchesInv'
<1>1. BatchTypes /\ BatchServer /\ BatchClient /\ BatchFlow /\ BatchData
  BY DEF BatchesInv
<1>2. /\ o.event = "RECEIVE" /\ UNCHANGED <<pc, i, left, thread, frame, up, conn>>
      /\ o \in Asks /\ o.j \in Nat
  BY <1>1, RingsType DEF Batches!RecvOp, Asks
<1>3. /\ up \in Seq({1, 2} \X Questions) /\ down \in Seq({1, 2} \X Answers) /\ losses \in Nat
      /\ DOMAIN responses = 0 .. BatchRequests - 1
  BY <1>1 DEF BatchTypes
<1>4. \E res \in Int :
        /\ Batches!Completes(o, res)
        /\ down' \in Seq({1, 2} \X Answers) /\ losses' \in Nat
        /\ DOMAIN responses' = DOMAIN responses
        /\ \A k : k # o.j => responses'[k] = responses[k]
        /\ losses' = 0 => losses = 0
        /\ losses' = 0 /\ AskWorking =>
             /\ Len(down) = Len(down') + 2
             /\ Paired(down, GoodAnswers) =>
                  /\ Paired(down', GoodAnswers)
                  /\ o.j \in DOMAIN responses => GoodPieces(responses'[o.j])
  <2>1. ASSUME NEW n \in Batches!Lengths(down),
               responses' = [responses EXCEPT ![o.j] = SubSeq(down, 1, n)],
               down' = SubSeq(down, n + 1, Len(down)), Batches!Loses(n < 2)
        PROVE  /\ down' \in Seq({1, 2} \X Answers) /\ losses' \in Nat /\ n \in Int
               /\ DOMAIN responses' = DOMAIN responses
               /\ \A k : k # o.j => responses'[k] = responses[k]
               /\ losses' = 0 => losses = 0
               /\ losses' = 0 =>
                    /\ Len(down) = Len(down') + 2
                    /\ Paired(down, GoodAnswers) =>
                         /\ Paired(down', GoodAnswers)
                         /\ o.j \in DOMAIN responses => GoodPieces(responses'[o.j])
    <3> DEFINE x == SubSeq(down, 1, n)
    <3>1. /\ n \in 1 .. Len(down) /\ n <= 2 /\ Len(down) \in Nat
          /\ SubSeq(down, n + 1, Len(down)) \in Seq({1, 2} \X Answers)
      BY <1>3, <2>1, CutType
    <3>2. losses' \in Nat /\ (losses' = 0 => losses = 0 /\ ~(n < 2)) /\ n \in Int
      <4>1. losses' = losses + (IF n < 2 THEN 1 ELSE 0) /\ losses \in Nat
        BY <1>3, <2>1 DEF Batches!Loses
      <4>2. n \in Int
        BY <3>1
      <4> QED
        BY <4>1, <4>2, LossCounted
    <3>3. /\ DOMAIN responses' = DOMAIN responses
          /\ o.j \in DOMAIN responses => responses'[o.j] = x
      <4> HIDE DEF x
      <4>1. responses' = [responses EXCEPT ![o.j] = x]
        BY <2>1 DEF x
      <4> QED
        BY <4>1
    <3>4. \A k : k # o.j => responses'[k] = responses[k]
      <4> HIDE DEF x
      <4>1. responses' = [responses EXCEPT ![o.j] = x]
        BY <2>1 DEF x
      <4> QED
        BY <4>1
    <3>5. n = 2 => /\ Len(down) = Len(down') + 2
                   /\ Paired(down, GoodAnswers) => Paired(down', GoodAnswers) /\ GoodPieces(x)
      <4> SUFFICES ASSUME n = 2
                   PROVE  /\ Len(down) = Len(down') + 2
                          /\ Paired(down, GoodAnswers) => Paired(down', GoodAnswers) /\ GoodPieces(x)
        OBVIOUS
      <4>1. Len(down) >= 2 /\ down' = SubSeq(down, 3, Len(down)) /\ x = SubSeq(down, 1, 2)
        BY <2>1, <3>1
      <4>2. /\ Len(SubSeq(down, 3, Len(down))) = Len(down) - 2
            /\ Paired(down, GoodAnswers) =>
                 /\ Batches!IsWhole(SubSeq(down, 1, 2)) /\ SubSeq(down, 1, 2)[1][2] \in GoodAnswers
                 /\ Paired(SubSeq(down, 3, Len(down)), GoodAnswers)
        BY <1>3, <4>1, PairedLess
      <4> HIDE DEF x
      <4>3. Len(down) = Len(down') + 2
        BY <3>1, <4>1, <4>2
      <4> QED
        BY <4>1, <4>2, <4>3 DEF GoodPieces
    <3> HIDE DEF x
    <3>6. losses' = 0 => n = 2
      BY <3>1, <3>2
    <3> QED
      BY <2>1, <3>1, <3>2, <3>3, <3>4, <3>5, <3>6
  <2>2. \/ \E n \in Batches!Lengths(down) :
             /\ responses' = [responses EXCEPT ![o.j] = SubSeq(down, 1, n)]
             /\ down' = SubSeq(down, n + 1, Len(down))
             /\ Batches!Completes(o, n)
             /\ Batches!Loses(n < 2)
        \/ /\ Batches!Broken
           /\ Batches!Completes(o, IF conn \in {"reset", "dead"} THEN -1 ELSE 0)
           /\ UNCHANGED <<responses, down, losses>>
    BY DEF Batches!RecvOp
  <2>3. CASE /\ Batches!Broken
             /\ Batches!Completes(o, IF conn \in {"reset", "dead"} THEN -1 ELSE 0)
             /\ UNCHANGED <<responses, down, losses>>
    <3>1. ~(losses = 0 /\ AskWorking)
      BY <1>1, <2>3 DEF BatchFlow, Batches!Broken
    <3> DEFINE res == IF conn \in {"reset", "dead"} THEN -1 ELSE 0
    <3>2. res \in Int
      OBVIOUS
    <3>3. Batches!Completes(o, res)
      BY <2>3
    <3> HIDE DEF res
    <3> QED
      BY <1>3, <2>3, <3>1, <3>2, <3>3
  <2>4. ASSUME NEW n \in Batches!Lengths(down),
               responses' = [responses EXCEPT ![o.j] = SubSeq(down, 1, n)],
               down' = SubSeq(down, n + 1, Len(down)), Batches!Loses(n < 2), Batches!Completes(o, n)
        PROVE  \E res \in Int :
                 /\ Batches!Completes(o, res)
                 /\ down' \in Seq({1, 2} \X Answers) /\ losses' \in Nat
                 /\ DOMAIN responses' = DOMAIN responses
                 /\ \A k : k # o.j => responses'[k] = responses[k]
                 /\ losses' = 0 => losses = 0
                 /\ losses' = 0 /\ AskWorking =>
                      /\ Len(down) = Len(down') + 2
                      /\ Paired(down, GoodAnswers) =>
                           /\ Paired(down', GoodAnswers)
                           /\ o.j \in DOMAIN responses => GoodPieces(responses'[o.j])
    BY <2>1, <2>4, Zenon
  <2> QED
    BY <2>2, <2>3, <2>4
<1>5. PICK res \in Int :
        /\ Batches!Completes(o, res)
        /\ down' \in Seq({1, 2} \X Answers) /\ losses' \in Nat
        /\ DOMAIN responses' = DOMAIN responses
        /\ \A k : k # o.j => responses'[k] = responses[k]
        /\ losses' = 0 => losses = 0
        /\ losses' = 0 /\ AskWorking =>
             /\ Len(down) = Len(down') + 2
             /\ Paired(down, GoodAnswers) =>
                  /\ Paired(down', GoodAnswers)
                  /\ o.j \in DOMAIN responses => GoodPieces(responses'[o.j])
  BY <1>4
<1>6. up' \in Seq({1, 2} \X Questions)
  BY <1>2, <1>3
<1>7. /\ BatchTypes' /\ BatchServer' /\ BatchClient'
      /\ pc # "setup_socket" /\ pc # "returned" /\ conn # "none"
      /\ BatchEnd' = BatchEnd /\ (AskWorking' <=> AskWorking)
      /\ Receives' \in Int /\ Sends' \in Nat
      /\ o.event = "RECEIVE" => Receives = Receives' + 1 /\ Sends = Sends'
      /\ o.event = "SEND" => Receives = Receives' /\ Sends = Sends' + 1
      /\ AskCq'[Len(AskCq')].event = o.event
      /\ AskSq' = AskSq /\ AskOps' = AskOps \ {o}
      /\ ServeSq' = ServeSq /\ ServeCq' = ServeCq
      /\ ReadsUnder' = ReadsUnder /\ WritesUnder' = WritesUnder
  BY <1>2, <1>5, <1>6, CompletionLeaves
<1>8. Receives = Receives' + 1 /\ Sends = Sends'
  BY <1>2, <1>7
<1>9. AskWorking => pc = "reap" /\ AskSq = <<>> /\ o.j >= i /\ o.j < BatchEnd
  BY <1>1, <1>2 DEF BatchClient
<1>10. BatchFlow'
  <2> SUFFICES ASSUME losses' = 0, AskWorking PROVE BatchFlow'
    BY <1>7 DEF BatchFlow
  <2>1. losses = 0 /\ Len(down) = Len(down') + 2
    BY <1>5
  <2>2. 2 * Receives = 2 * Sends + Onward /\ Onward \in Nat
    BY <1>1, <2>1, BatchNumbers DEF BatchFlow
  <2>3. Onward = Onward' + 2 /\ Onward' \in Int
    <3>1. Onward = Len(up) + 2 * Batches!Of(ServeCq, "READ") + 2 * Batches!Of(ServeSq, "WRITE")
                     + 2 * WritesUnder + Len(down)
      BY DEF Onward
    <3>2. Onward' = Len(up) + 2 * Batches!Of(ServeCq, "READ") + 2 * Batches!Of(ServeSq, "WRITE")
                      + 2 * WritesUnder + Len(down')
      BY <1>2, <1>7 DEF Onward
    <3>3. /\ Batches!Of(ServeSq, "WRITE") \in Nat /\ Batches!Of(ServeCq, "READ") \in Nat
          /\ WritesUnder \in Nat /\ Len(down) \in Nat /\ Len(up) \in Nat
      BY <1>1, BatchNumbers
    <3>4. Len(down') \in Nat
      BY <1>5, LenProperties
    <3> QED
      <4> DEFINE r == Batches!Of(ServeCq, "READ")
                 q == Batches!Of(ServeSq, "WRITE")
                 u == Len(up)
                 d == Len(down)
                 f == Len(down')
                 t == Onward'
      <4>1. d = f + 2 /\ Onward = u + 2 * r + 2 * q + 2 * WritesUnder + d
        BY <2>1, <3>1
      <4>2. t = u + 2 * r + 2 * q + 2 * WritesUnder + f
        BY <3>2
      <4>3. /\ r \in Nat /\ q \in Nat /\ WritesUnder \in Nat
            /\ u \in Nat /\ d \in Nat /\ f \in Nat
        BY <3>3, <3>4
      <4> HIDE DEF r, q, u, d, f, t
      <4>4. Onward = t + 2 /\ t \in Int
        BY ONLY <4>1, <4>2, <4>3
      <4> QED
        BY <4>4 DEF t
  <2>4. 2 * Receives' = 2 * Sends' + Onward'
    <3>1. /\ Receives' \in Int /\ Sends' \in Nat /\ Receives = Receives' + 1 /\ Sends = Sends'
      BY <1>7, <1>8
    <3> QED
      BY <2>2, <2>3, <3>1, OneReceived
  <2> QED
    BY <1>1, <1>2, <1>7, <1>9, <2>1, <2>4 DEF BatchFlow
<1>11. BatchData'
  <2> SUFFICES ASSUME losses' = 0, ClientPages <= ServerPages, AskWorking PROVE BatchData'
    BY <1>2, <1>7 DEF BatchData
  <2>1. /\ losses = 0 /\ pc = "reap" /\ o.j >= i /\ o.j < BatchEnd /\ i \in Nat
        /\ i < BatchRequests
    BY <1>1, <1>5, <1>9 DEF BatchClient, BatchTypes
  <2>2. o.j \in 0 .. BatchRequests - 1
    <3>1. BatchEnd \in Nat /\ BatchEnd <= BatchRequests /\ BatchRequests \in Nat
      BY <2>1, BatchOf, BatchesAssumption
    <3> QED
      BY <1>2, <2>1, <3>1
  <2>3. /\ Paired(up, GoodQuestions) /\ Paired(down, GoodAnswers)
        /\ \A k \in 0 .. BatchRequests - 1 : AskDone(k) => GoodPieces(responses[k])
    BY <1>1, <2>1 DEF BatchData
  <2>4. Paired(down', GoodAnswers) /\ GoodPieces(responses'[o.j])
    BY <1>3, <1>5, <2>2, <2>3
  <2>5. ASSUME NEW k \in 0 .. BatchRequests - 1, AskDone(k)'
        PROVE  GoodPieces(responses'[k])
    <3>1. CASE k = o.j
      BY <2>4, <3>1
    <3>2. CASE k # o.j
      <4>1. \/ k < i
            \/ /\ pc = "reap" /\ k < BatchEnd
               /\ \A p \in AskOps \ {o} : ~(p.event = "RECEIVE" /\ p.j = k)
               /\ \A m \in DOMAIN AskSq : ~(AskSq[m].event = "RECEIVE" /\ AskSq[m].j = k)
        BY <1>2, <1>7, <2>5 DEF AskDone
      <4>2. AskDone(k)
        BY <3>2, <4>1 DEF AskDone
      <4>3. responses'[k] = responses[k]
        BY <1>5, <3>2
      <4> QED
        BY <2>3, <4>2, <4>3
    <3> QED
      BY <3>1, <3>2
  <2>6. GoodPieces(responses[o.j])' <=> GoodPieces(responses'[o.j])
    BY <1>2
  <2>7. \A k \in 0 .. BatchRequests - 1 : AskDone(k)' => GoodPieces(responses[k])'
    BY <2>5
  <2> QED
    BY <1>1, <1>2, <1>7, <2>1, <2>3, <2>4, <2>7 DEF BatchData
<1> QED
  BY <1>7, <1>10, <1>11 DEF BatchesInv

LEMMA ResetKeepsBatches ==
  ASSUME BatchesInv, Batches!Reset
  PROVE  BatchesInv'
<1>1. BatchTypes /\ BatchServer /\ BatchClient
  BY DEF BatchesInv
<1>2. /\ UNCHANGED <<pc, i, left, responses, thread, frame, rings>>
      /\ conn = "open" /\ conn' = "reset" /\ up' = <<>>
  BY DEF Batches!Reset, Batches!clientside
<1>3. losses' = losses + 1
  BY DEF Batches!Reset, Batches!Loses
<1>4. losses' \in Nat /\ losses' # 0
  BY <1>1, <1>3 DEF BatchTypes
<1>5. down' \in Seq({1, 2} \X Answers)
  <2> DEFINE P == {1, 2} \X Answers
  <2>1. down \in Seq(P) /\ Len(down) \in Nat /\ \A k \in 1 .. Len(down) : down[k] \in P
    <3>1. down \in Seq(P)
      BY <1>1 DEF BatchTypes
    <3> HIDE DEF P
    <3> QED
      BY <3>1, LenProperties, ElementOfSeq
  <2> HIDE DEF P
  <2>2. PICK n \in 0 .. Len(down) : down' = SubSeq(down, 1, n)
    BY DEF Batches!Reset
  <2>3. down' \in Seq(P)
    BY <2>1, <2>2
  <2> QED
    BY <2>3 DEF P
<1>6. /\ AskSq' = AskSq /\ AskOps' = AskOps /\ AskCq' = AskCq /\ ServeSq' = ServeSq
      /\ ServeCq' = ServeCq /\ ReadsUnder' = ReadsUnder /\ WritesUnder' = WritesUnder
  BY <1>2 DEF AskSq, AskOps, AskCq, ServeSq, ServeCq, ReadsUnder, WritesUnder
<1>7. BatchTypes'
  BY <1>1, <1>2, <1>4, <1>5, <1>6, EmptyTyped DEF BatchTypes, BatchConns
<1>8. BatchServer'
  BY <1>1, <1>2, <1>6, ServerStays
<1>9. BatchClient'
  BY <1>1, <1>2, <1>6, ClientStays
<1>10. BatchFlow' /\ BatchData'
  BY <1>4 DEF BatchFlow, BatchData
<1> QED
  BY <1>7, <1>8, <1>9, <1>10 DEF BatchesInv

LEMMA NextKeepsBatches ==
  ASSUME BatchesInv, [Batches!Next]_(Batches!getpageiou)
  PROVE  BatchesInv'
<1>1. CASE UNCHANGED Batches!getpageiou
  <2>1. UNCHANGED <<pc, i, left, responses, thread, frame, rings, up, down, conn, losses>>
    BY <1>1 DEF Batches!getpageiou, Batches!clientside
  <2>2. BatchTypes /\ BatchServer /\ BatchClient /\ BatchFlow /\ BatchData
    BY DEF BatchesInv
  <2>3. /\ AskSq' = AskSq /\ AskOps' = AskOps /\ AskCq' = AskCq /\ ServeSq' = ServeSq
        /\ ServeCq' = ServeCq /\ ReadsUnder' = ReadsUnder /\ WritesUnder' = WritesUnder
    BY <2>1 DEF AskSq, AskOps, AskCq, ServeSq, ServeCq, ReadsUnder, WritesUnder
  <2>4. BatchTypes'
    BY <2>1, <2>2, <2>3 DEF BatchTypes
  <2>5. BatchServer'
    BY <2>1, <2>2, <2>3, ServerStays
  <2>6. /\ BatchEnd' = BatchEnd /\ (AskWorking' <=> AskWorking)
        /\ Batches!Batch("SEND")' = Batches!Batch("SEND")
        /\ Batches!Batch("RECEIVE")' = Batches!Batch("RECEIVE")
        /\ OpsOf(AskOps, "RECEIVE")' = OpsOf(AskOps, "RECEIVE")
        /\ OpsOf(AskOps, "SEND")' = OpsOf(AskOps, "SEND")
    BY <2>1, <2>3 DEF BatchEnd, AskWorking, Batches!Batch, OpsOf
  <2>7. BatchClient'
    BY <2>1, <2>2, <2>3, <2>6 DEF BatchClient
  <2>8. Receives' = Receives /\ Sends' = Sends /\ Onward' = Onward
    BY <2>1, <2>3, <2>6 DEF Receives, Sends, Onward
  <2>9. \A k : AskDone(k)' <=> AskDone(k)
    BY <2>1, <2>3, <2>6 DEF AskDone
  <2>10. BatchFlow'
    BY <2>1, <2>2, <2>3, <2>6, <2>8 DEF BatchFlow
  <2>11. BatchData'
    BY <2>1, <2>2, <2>3, <2>6, <2>9 DEF BatchData
  <2> QED
    BY <2>4, <2>5, <2>7, <2>10, <2>11 DEF BatchesInv
<1>2. CASE Batches!Client
  BY <1>2, SetupSocketKeepsBatches, SendRequestsKeepsBatches, ReceiveResponsesKeepsBatches,
     ReapKeepsBatches, ReturnKeepsBatches DEF Batches!Client
<1>3. CASE Batches!Accept
  BY <1>3, AcceptKeepsBatches
<1>4. CASE Batches!EventLoop
  BY <1>4, EventLoopKeepsBatches
<1>5. CASE Batches!Kernel
  <2>1. \A o \in rings["client"].kernel : o \in AskOps
    BY DEF AskOps
  <2>2. CASE \E side \in {"client", "server"} : Batches!Poll(side)
    BY <2>2, AskPollKeepsBatches, ServePollKeepsBatches
  <2>3. CASE \E o \in rings["client"].kernel : Batches!SendOp(o) \/ Batches!RecvOp(o)
    BY <2>1, <2>3, SendOpKeepsBatches, RecvOpKeepsBatches
  <2>4. CASE Batches!ReadOp \/ Batches!WriteOp
    BY <2>4, ReadOpKeepsBatches, WriteOpKeepsBatches
  <2> QED
    BY <1>5, <2>2, <2>3, <2>4 DEF Batches!Kernel
<1>6. CASE Batches!Reset
  BY <1>6, ResetKeepsBatches
<1> QED
  BY <1>1, <1>2, <1>3, <1>4, <1>5, <1>6 DEF Batches!Next

LEMMA BatchesAgree ==
  ASSUME BatchesInv
  PROVE  Batches!SqesSuffice /\ Batches!BatchesApart /\ Batches!AllVerified
<1>1. BatchTypes /\ BatchServer /\ BatchClient /\ BatchFlow /\ BatchData
  BY DEF BatchesInv
<1>2. Batches!SqesSuffice
  BY <1>1 DEF Batches!SqesSuffice, BatchServer, BatchClient
<1>3. Batches!Under("RECEIVE") = Batches!Of(AskSq, "RECEIVE") + Batches!Of(AskCq, "RECEIVE")
                                   + OpsOf(AskOps, "RECEIVE")
  <2> DEFINE K == {o \in AskOps : o.event = "RECEIVE"}
  <2>1. /\ rings["client"].sq = AskSq /\ rings["client"].cq = AskCq /\ rings["client"].kernel = AskOps
    BY DEF AskSq, AskCq, AskOps
  <2>2. Batches!Under("RECEIVE") = Batches!Of(AskSq, "RECEIVE") + Batches!Of(AskCq, "RECEIVE")
                                     + Batches!Cardinality(K)
    BY <2>1 DEF Batches!Under
  <2>3. OpsOf(AskOps, "RECEIVE") = Cardinality(K)
    BY DEF OpsOf
  <2> HIDE DEF K
  <2> QED
    BY <2>2, <2>3, BatchCardinality
<1>4. /\ Batches!Of(AskSq, "RECEIVE") \in Nat /\ Batches!Of(AskCq, "RECEIVE") \in Nat
      /\ Batches!Of(AskSq, "SEND") \in Nat
      /\ OpsOf(AskOps, "RECEIVE") \in Nat /\ OpsOf(AskOps, "SEND") \in Nat
  BY <1>1, BatchNumbers
<1>5. pc = "reap" => Batches!Under("RECEIVE") = left
  <2>1. pc = "reap" => left = Batches!Of(AskSq, "RECEIVE") + OpsOf(AskOps, "RECEIVE")
                                + Batches!Of(AskCq, "RECEIVE")
    BY <1>1 DEF BatchClient
  <2> QED
    BY <1>3, <1>4, <2>1
<1>6. pc = "send_requests" => /\ Batches!Of(AskSq, "RECEIVE") = 0 /\ Batches!Of(AskSq, "SEND") = 0
                              /\ Batches!Of(AskCq, "RECEIVE") = 0
                              /\ OpsOf(AskOps, "RECEIVE") = 0 /\ AskSq = <<>>
  <2> SUFFICES ASSUME pc = "send_requests"
               PROVE  /\ Batches!Of(AskSq, "RECEIVE") = 0 /\ Batches!Of(AskSq, "SEND") = 0
                      /\ Batches!Of(AskCq, "RECEIVE") = 0
                      /\ OpsOf(AskOps, "RECEIVE") = 0 /\ AskSq = <<>>
    OBVIOUS
  <2>1. AskSq = <<>> /\ Batches!Of(AskCq, "RECEIVE") = 0 /\ \A o \in AskOps : o.event # "RECEIVE"
    BY <1>1 DEF BatchClient, AskWorking
  <2>2. OpsOf(AskOps, "RECEIVE") = 0
    BY <1>1, <2>1, OpsType DEF BatchTypes
  <2>3. Batches!Of(<<>>, "RECEIVE") = 0 /\ Batches!Of(<<>>, "SEND") = 0
    BY OfEmpty
  <2> QED
    BY <2>1, <2>2, <2>3
<1>7. pc = "send_requests" => Batches!Under("RECEIVE") = 0
  BY <1>3, <1>4, <1>6
<1>8. ASSUME pc = "send_requests", losses = 0
      PROVE  rings["client"] = Batches!EmptyRing /\ up = <<>> /\ down = <<>>
  <2>1. AskCq = <<>> /\ 2 * Receives = 2 * Sends + Onward
    BY <1>1, <1>8 DEF BatchFlow, AskWorking
  <2>2. Receives = 0 /\ Sends = OpsOf(AskOps, "SEND")
    <3>1. Receives = 0 + 0 + 0
      BY <1>6, <1>8 DEF Receives
    <3>2. Sends = 0 + OpsOf(AskOps, "SEND")
      BY <1>6, <1>8 DEF Sends
    <3> QED
      BY <1>4, <3>1, <3>2
  <2>3. Onward \in Nat /\ Len(up) \in Nat /\ Len(down) \in Nat
    BY <1>1, BatchNumbers
  <2>4. OpsOf(AskOps, "SEND") = 0 /\ Onward = 0
    BY <1>4, <2>1, <2>2, <2>3
  <2>5. Len(up) = 0 /\ Len(down) = 0
    <3>1. /\ Batches!Of(ServeSq, "WRITE") \in Nat /\ Batches!Of(ServeCq, "READ") \in Nat
          /\ WritesUnder \in Nat
      BY <1>1, BatchNumbers
    <3>2. Onward = Len(up) + 2 * Batches!Of(ServeCq, "READ") + 2 * Batches!Of(ServeSq, "WRITE")
                     + 2 * WritesUnder + Len(down)
      BY DEF Onward
    <3> QED
      BY <2>3, <2>4, <3>1, <3>2
  <2>6. up = <<>> /\ down = <<>>
    <3>1. up \in Seq({1, 2} \X Questions) /\ down \in Seq({1, 2} \X Answers)
      BY <1>1 DEF BatchTypes
    <3> QED
      BY <2>5, <3>1, EmptySeq
  <2>7. AskOps = {}
    <3>1. \A o \in AskOps : o.event # "SEND" /\ o.event # "RECEIVE"
      BY <1>1, <1>6, <1>8, <2>4, OpsType DEF BatchTypes
    <3>2. \A o \in AskOps : o.event \in {"SEND", "RECEIVE"}
      BY <1>1, RingsType DEF Asks
    <3> QED
      BY <3>1, <3>2
  <2>8. rings["client"] = RingOf(<<>>, {}, 0, 0, <<>>)
    BY <1>1, <1>6, <1>8, <2>1, <2>7, RingsType
  <2> QED
    BY <2>6, <2>8 DEF RingOf, Batches!EmptyRing
<1>9. Batches!BatchesApart
  BY <1>5, <1>7, <1>8 DEF Batches!BatchesApart
<1>10. Batches!AllVerified
  <2> SUFFICES ASSUME pc = "returned", conn # "none", losses = 0, ClientPages <= ServerPages,
                      NEW k \in DOMAIN responses
               PROVE  Batches!Verified(k)
    BY DEF Batches!AllVerified
  <2>1. k \in 0 .. BatchRequests - 1
    BY <1>1 DEF BatchTypes
  <2>2. Batches!IsWhole(responses[k]) /\ responses[k][1][2] \in GoodAnswers
    BY <1>1, <2>1 DEF BatchData, GoodPieces
  <2> QED
    BY <2>2 DEF Batches!Verified, Batches!verify, Batches!get_value_at, GoodAnswers
<1> QED
  BY <1>2, <1>9, <1>10

(* For however many requests, batches and pages there are: neither program *)
(* runs out of entries, as many receives are under way as are still to be  *)
(* counted, without a loss every batch starts on empty rings and an empty  *)
(* connection, and then every response is one for a page both programs     *)
(* have (client_iou.cpp:90, server_iou.cpp:23, 70).                        *)
THEOREM BatchesAlwaysAnswered == ProgramSpec => []BatchesAnswered
<1> DEFINE I == program = "batches" => BatchesInv
<1>1. ProgramInit => I
  BY InitOf, InitBatches
<1>2. I /\ [ProgramNext]_programs => I'
  BY Dispatch, NextKeepsBatches
<1>3. I => BatchesAnswered
  BY BatchesAgree DEF BatchesAnswered
<1> QED
  BY <1>1, <1>2, <1>3, PTL DEF ProgramSpec
=============================================================================
