-------------------------------- MODULE Dpdk ---------------------------------
(***************************************************************************)
(* dpdk_demo/dpdk_sender.c, dpdk_receiver.c, dpdk_arp_utils.h and          *)
(* dpdk_common.h: the sender resolves its gateway by ARP and sends         *)
(* NumIterations pages in bursts; the receiver polls until it has counted  *)
(* as many IPv4 frames.  What a burst cannot send is freed, not sent       *)
(* again.  Buffers of the sender's pool are alike, so they are counted by  *)
(* owner.                                                                  *)
(***************************************************************************)
EXTENDS Integers, Sequences, SequencesExt, FiniteSetsExt

CONSTANTS
  NumIterations, BurstSize, NumMbufs,
  RxRingSize, TxRingSize,
  Routes,                \* tables of [destination, gateway], 0 for no address
  Faults,                \* a subset of {"setup", "foreign", "lost", "no reply"}
  MaxForeign             \* bound: frames of others, at either program

VARIABLES
  sender,                \* "start", "arp", "wait_reply", "alloc", "tx", "complete",
                         \* "exited" (rte_exit), "crashed" (a NULL mbuf in a burst)
  pool,                  \* mbufs of the sender by owner: "free", "rx" and "tx" of the driver,
                         \* "app" for those the program holds
  i, burst,              \* of main: the iteration, and mbufs in tx_mbufs
  max_retries,
  frames,                \* received by the sender and not polled: "reply" and "other"
  sent,                  \* packets given to the network
  wire,                  \* packets on their way, frames of others included
  receiver,              \* "start", "polling", "complete", "exited"
  counted,               \* total_packets_received
  foreign, lost          \* history: IPv4 frames of others, packets lost

dpdk == <<sender, pool, i, burst, max_retries, frames, sent, wire, receiver, counted, foreign,
          lost>>

Init ==
  /\ sender = "start" /\ receiver = "start"
  /\ pool = [free |-> NumMbufs, rx |-> 0, tx |-> 0, app |-> 0]
  /\ i = 0 /\ burst = 0 /\ max_retries = 5 /\ frames = <<>>
  /\ sent = 0 /\ wire = 0 /\ counted = 0 /\ foreign = 0 /\ lost = 0

Moved(from, to, n) == [pool EXCEPT ![from] = @ - n, ![to] = @ + n]

(***************************************************************************)
(* The sender.                                                             *)
(***************************************************************************)

(* The first default route counts, whether it has a gateway or not.        *)
get_default_gateway_ip(routes) ==
  SelectSeq(routes, LAMBDA route : route.destination = 0)

PortInit ==
  /\ sender = "start"
  /\ \/ "setup" \in Faults /\ sender' = "exited" /\ UNCHANGED pool
     \/ /\ \E routes \in Routes :
             sender' = IF get_default_gateway_ip(routes) = <<>> THEN "exited" ELSE "arp"
        /\ pool' = Moved("free", "rx", RxRingSize)
  /\ UNCHANGED <<i, burst, max_retries, frames, sent, wire, receiver, counted, foreign, lost>>

(* send_arp_request *)
SendArp ==
  /\ sender = "arp"
  /\ \/ /\ pool.free > 0 /\ sender' = "wait_reply"
        /\ pool' = Moved("free", "tx", 1)
     \/ /\ pool.free = 0 \/ "setup" \in Faults
        /\ sender' = "exited" /\ UNCHANGED pool
  /\ UNCHANGED <<i, burst, max_retries, frames, sent, wire, receiver, counted, foreign, lost>>

(* Once the reply is found, the frames polled after it stay with the       *)
(* program (dpdk_arp_utils.h:84).                                          *)
Kept(polled) ==
  IF Contains(polled, "reply") THEN Len(polled) - SelectInSeq(polled, LAMBDA frame : frame = "reply")
                               ELSE 0

WaitReply ==
  /\ sender = "wait_reply"
  /\ IF max_retries = 0
     THEN sender' = "exited" /\ UNCHANGED <<pool, max_retries, frames>>
     ELSE LET n      == Min({Len(frames), BurstSize})
              polled == SubSeq(frames, 1, n)
          IN  /\ max_retries' = max_retries - 1
              /\ frames' = SubSeq(frames, n + 1, Len(frames))
              /\ pool' = Moved("free", "app", Kept(polled))
              /\ sender' = IF Contains(polled, "reply") THEN "alloc" ELSE "wait_reply"
  /\ UNCHANGED <<i, burst, sent, wire, receiver, counted, foreign, lost>>

(* One burst of buffers, one after the other; a failed allocation leaves   *)
(* NULL in its place, which the driver follows (dpdk_sender.c:116).        *)
Alloc ==
  /\ sender = "alloc"
  /\ LET nb_tx_burst == Min({BurstSize, NumIterations - i})
     IN  IF i >= NumIterations THEN sender' = "complete" /\ UNCHANGED <<pool, burst>>
         ELSE IF pool.free < nb_tx_burst THEN sender' = "crashed" /\ UNCHANGED <<pool, burst>>
         ELSE /\ pool' = Moved("free", "app", nb_tx_burst)
              /\ burst' = nb_tx_burst /\ sender' = "tx"
  /\ UNCHANGED <<i, max_retries, frames, sent, wire, receiver, counted, foreign, lost>>

(* Seeded fault: what a burst could not send is not freed. *)
UnsentKept(nb_tx) == [pool EXCEPT !.app = @ - nb_tx, !.tx = @ + nb_tx]

UnsentFreed(nb_tx) ==
  [pool EXCEPT !.app = @ - burst, !.tx = @ + nb_tx, !.free = @ + burst - nb_tx]

(* The driver takes what its ring has room for.                            *)
TxBurst ==
  /\ sender = "tx"
  /\ LET nb_tx == Min({burst, TxRingSize - pool.tx})
     IN  /\ pool' = UnsentFreed(nb_tx)
         /\ sent' = sent + nb_tx
  /\ burst' = 0 /\ i' = i + BurstSize /\ sender' = "alloc"
  /\ UNCHANGED <<max_retries, frames, wire, receiver, counted, foreign, lost>>

Sender == PortInit \/ SendArp \/ WaitReply \/ Alloc \/ TxBurst

(***************************************************************************)
(* The receiver.                                                           *)
(***************************************************************************)

ReceiverInit ==
  /\ receiver = "start"
  /\ receiver' \in {"polling"} \cup IF "setup" \in Faults THEN {"exited"} ELSE {}
  /\ UNCHANGED <<sender, pool, i, burst, max_retries, frames, sent, wire, counted, foreign, lost>>

Enough == counted >= NumIterations

(* udp_receive: every IPv4 frame of a burst counts, whoever sent it.       *)
Receive ==
  /\ receiver = "polling"
  /\ \/ Enough /\ receiver' = "complete" /\ UNCHANGED <<wire, counted>>
     \/ /\ ~Enough
        /\ \E nb_rx \in 1 .. Min({wire, BurstSize}) :
             counted' = counted + nb_rx /\ wire' = wire - nb_rx
        /\ UNCHANGED receiver
  /\ UNCHANGED <<sender, pool, i, burst, max_retries, frames, sent, foreign, lost>>

(***************************************************************************)
(* The drivers and the network.                                            *)
(***************************************************************************)

(* The first packet the driver sends is the ARP request.                   *)
Transmit ==
  /\ pool.tx > 0 /\ sender # "exited"
  /\ pool' = Moved("tx", "free", 1)
  /\ IF sender = "wait_reply"
     THEN /\ \/ frames' = Append(frames, "reply")
             \/ "no reply" \in Faults /\ UNCHANGED frames
          /\ UNCHANGED <<wire, lost>>
     ELSE /\ \/ wire' = wire + 1 /\ UNCHANGED lost
             \/ "lost" \in Faults /\ lost' = lost + 1 /\ UNCHANGED wire
          /\ UNCHANGED frames
  /\ UNCHANGED <<sender, i, burst, max_retries, sent, receiver, counted, foreign>>

Foreign ==
  /\ "foreign" \in Faults
  /\ \/ /\ foreign < MaxForeign
        /\ wire' = wire + 1 /\ foreign' = foreign + 1
        /\ UNCHANGED frames
     \/ /\ sender \in {"arp", "wait_reply"} /\ Len(frames) < Min({RxRingSize, MaxForeign + 1})
        /\ frames' = Append(frames, "other")
        /\ UNCHANGED <<wire, foreign>>
  /\ UNCHANGED <<sender, pool, i, burst, max_retries, sent, receiver, counted, lost>>

Next == Sender \/ ReceiverInit \/ Receive \/ Transmit \/ Foreign

(***************************************************************************)
(* Properties.                                                             *)
(***************************************************************************)

(* No buffer is lost or counted twice: between bursts the program holds    *)
(* none but those polled after the ARP reply, fewer than a burst, and with *)
(* a pool that covers the rings, a burst and these no allocation fails     *)
(* (dpdk_sender.c:117).                                                    *)
BuffersAccounted ==
  /\ pool.free + pool.rx + pool.tx + pool.app = NumMbufs
  /\ pool.app - burst \in 0 .. BurstSize - 1
  /\ NumMbufs >= RxRingSize + TxRingSize + 2 * BurstSize - 1 => sender # "crashed"

(* The receiver counts nothing twice, at most one burst too many, and can  *)
(* only have enough without the sender's packets if others sent some.      *)
CountsArrivals ==
  /\ counted + wire + lost <= sent + foreign
  /\ counted < NumIterations + BurstSize
  /\ receiver = "complete" => counted >= NumIterations

(* Every page sent reaches the receiver's count, and both programs end,    *)
(* unless the setup or the ARP exchange fails, a packet is lost, or a      *)
(* burst found the ring full: its packets are never sent                   *)
(* (dpdk_sender.c:133).                                                    *)
Over ==
  \/ "exited" \in {sender, receiver} \/ lost > 0 \/ sent < Min({i, NumIterations})
  \/ (sender = "complete" /\ receiver = "complete")
CompleteUnlessLost == <>Over
=============================================================================
