---------------------------- MODULE UringQueues -----------------------------
(***************************************************************************)
(* What io_uring and liburing promise a program, as three queues: entries  *)
(* it has prepared and the kernel has not taken yet (sq), operations under *)
(* way (kernel), and completions that it has not given back (cq).  Entries *)
(* are taken in the order in which they were prepared, operations complete *)
(* in any order and once, and no completion is lost, however many there    *)
(* are.  UringClient, UringServer and SimpleIouClient use the ring this    *)
(* way; IoUring implements it with counters and arrays.                    *)
(***************************************************************************)
EXTENDS Naturals, Sequences, SequencesExt

CONSTANTS
  Entries,               \* submission entries of the ring
  Operations             \* what an entry can ask for

VARIABLES sq, kernel, cq

queues == <<sq, kernel, cq>>

Init == sq = <<>> /\ kernel = <<>> /\ cq = <<>>

Prepare(op) ==
  /\ Len(sq) < Entries
  /\ sq' = Append(sq, op)
  /\ UNCHANGED <<kernel, cq>>

Take(n) ==
  /\ kernel' = kernel \o SubSeq(sq, 1, n)
  /\ sq' = SubSeq(sq, n + 1, Len(sq))
  /\ UNCHANGED cq

Complete(k) ==
  /\ cq' = Append(cq, kernel[k])
  /\ kernel' = RemoveAt(kernel, k)
  /\ UNCHANGED sq

GiveBack(n) ==
  /\ cq' = SubSeq(cq, n + 1, Len(cq))
  /\ UNCHANGED <<sq, kernel>>

Next ==
  \/ \E op \in Operations : Prepare(op)
  \/ \E n \in DOMAIN sq : Take(n)
  \/ \E k \in DOMAIN kernel : Complete(k)
  \/ \E n \in DOMAIN cq : GiveBack(n)

Spec == Init /\ [][Next]_queues
=============================================================================
