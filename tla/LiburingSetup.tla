--------------------------- MODULE LiburingSetup ----------------------------
(***************************************************************************)
(* How fast_net/libs/liburing/src/setup.c makes a ring and takes it down:  *)
(* the mappings and descriptors it gets from the kernel, which of them it  *)
(* gives back when a later call fails, and what io_uring_queue_exit leaves. *)
(* A step is one system call, any of which may fail.  register.c lets a    *)
(* program register the ring's descriptor with the kernel, and then close  *)
(* it; io_uring_get_probe and io_uring_mlock_size make a ring of their own.*)
(*                                                                         *)
(* Sizes are those of the code, in bytes.  A mapping is known by what it   *)
(* is for; an unmapped length is rounded up to pages, and of a huge page   *)
(* munmap unmaps all or, for any other length, nothing (EINVAL).           *)
(***************************************************************************)
EXTENDS Integers, FiniteSets

CONSTANTS
  EntryCounts,           \* entries asked for
  AppBuffers,            \* sizes of memory passed to io_uring_queue_init_mem, 0 for none
  Callers                \* "program", "probe", "mlock_size": who makes the ring

VARIABLES
  pc,                    \* "idle", "alloc", "alloc_ring", "setup", "map_sq", "map_cq", "map_sqes",
                         \* "ready", "register", "probed", or an end
  params,                \* what is asked for, and what the kernel supports
  no_sqarray,            \* IORING_SETUP_NO_SQARRAY in this attempt
  ring,                  \* sqes, ring_ptr, sq_ring_sz, cq_ring_sz, cq_ptr, ring_fd,
                         \* enter_ring_fd and int_flags of struct io_uring
  mapped,                \* size and kind of each mapping
  fds                    \* what is open: "ring_fd", and the registered "slot"

vars == <<pc, params, no_sqarray, ring, mapped, fds>>

PageSize == 4096
HugePageSize == 2 * 1024 * 1024
KringSize == 64
MaxEntries == 32768

Ends == {"failed", "exited"}

RoundUp(size, unit) == ((size + unit - 1) \div unit) * unit

roundup_pow2(depth) ==
  LET powers == {1, 2, 4, 8, 16, 32, 64, 128, 256, 512, 1024, 2048, 4096, 8192, 16384, 32768,
                 65536, 131072}
  IN  CHOOSE p \in powers : p >= depth /\ \A q \in powers : q >= depth => p <= q

(* get_sq_cq_entries, without IORING_SETUP_CLAMP and IORING_SETUP_CQSIZE.  *)
ValidEntries(entries) == entries > 0 /\ entries <= MaxEntries
SqEntries == roundup_pow2(params.entries)
CqEntries == 2 * SqEntries

SqeSize == IF params.sqe128 THEN 128 ELSE 64
CqeSize == IF params.cqe32 THEN 32 ELSE 16

(* io_uring_alloc_huge; it does not look at IORING_SETUP_SQE128.           *)
SqesMem == RoundUp(SqEntries * 64, PageSize) + (IF no_sqarray THEN 0 ELSE 4 * SqEntries)
RingMem == KringSize + SqesMem + CqeSize * CqEntries
MemUsed == RoundUp(RingMem, PageSize)

BufSize(size) == IF size <= PageSize THEN PageSize ELSE HugePageSize

NoRing == [sqes |-> "none", ring_ptr |-> "none", cq_ptr |-> "none", sq_ring_sz |-> 0,
           cq_ring_sz |-> 0, ring_fd |-> "none", enter_ring_fd |-> "none", int_flags |-> {}]

Map(name, size, huge) ==
  [n \in DOMAIN mapped \cup {name} |->
     IF n = name THEN [size |-> size, huge |-> huge] ELSE mapped[n]]

Unmapped(memory, name, length) ==
  LET gone == RoundUp(length, PageSize)
  IN  IF name \notin DOMAIN memory \/ (memory[name].huge /\ length # memory[name].size)
      THEN memory
      ELSE IF gone < memory[name].size
      THEN [memory EXCEPT ![name].size = @ - gone]
      ELSE [n \in DOMAIN memory \ {name} |-> memory[n]]

(* Seeded fault: only the submission ring is unmapped. *)
RingsUnmappedSqOnly(memory) ==
  IF ring.sq_ring_sz > 0 THEN Unmapped(memory, ring.ring_ptr, ring.sq_ring_sz) ELSE memory

(* io_uring_unmap_rings *)
RingsUnmapped(memory) ==
  LET one == IF ring.sq_ring_sz > 0 THEN Unmapped(memory, ring.ring_ptr, ring.sq_ring_sz)
                                    ELSE memory
  IN  IF ring.cq_ptr # "none" /\ ring.cq_ring_sz > 0 /\ ring.cq_ptr # ring.ring_ptr
      THEN Unmapped(one, ring.cq_ptr, ring.cq_ring_sz)
      ELSE one

Init ==
  /\ pc = "idle" /\ no_sqarray = TRUE /\ ring = NoRing /\ fds = {}
  /\ \E entries \in EntryCounts, buf \in AppBuffers, no_mmap, single_mmap, sqe128, cqe32,
        asked, registered_fd_only, reg_reg \in BOOLEAN, caller \in Callers :
       /\ buf > 0 => no_mmap
       /\ registered_fd_only => reg_reg
       /\ caller # "program" =>
            ~no_mmap /\ ~sqe128 /\ ~cqe32 /\ ~asked /\ ~reg_reg
       /\ params = [entries |-> entries, buf |-> buf, no_mmap |-> no_mmap,
                    single_mmap |-> single_mmap, sqe128 |-> sqe128, cqe32 |-> cqe32,
                    asked |-> asked, registered_fd_only |-> registered_fd_only,
                    reg_reg |-> reg_reg,      \* IORING_FEAT_REG_REG_RING
                    caller |-> caller]
       /\ mapped = IF buf > 0 THEN [n \in {"app"} |-> [size |-> buf, huge |-> FALSE]]
                              ELSE [n \in {} |-> [size |-> 0, huge |-> FALSE]]

(* Where an attempt begins. *)
Begin == IF params.no_mmap THEN "alloc" ELSE "setup"

(* io_uring_queue_init_try_nosqarr: after -EINVAL everything is tried      *)
(* again without IORING_SETUP_NO_SQARRAY, unless that was asked for.       *)
Fails(err) ==
  IF err = "EINVAL" /\ no_sqarray /\ ~params.asked
  THEN pc' = Begin /\ no_sqarray' = FALSE /\ ring' = NoRing
  ELSE pc' = "failed" /\ UNCHANGED <<no_sqarray, ring>>

QueueInit ==
  /\ pc = "idle"
  /\ IF params.registered_fd_only /\ ~params.no_mmap
     THEN pc' = "failed"           \* -EINVAL, in both attempts
     ELSE pc' = Begin
  /\ UNCHANGED <<params, no_sqarray, ring, mapped, fds>>

Alloc ==
  /\ pc = "alloc"
  /\ \/ ~ValidEntries(params.entries) /\ Fails("EINVAL") /\ UNCHANGED mapped
     \/ /\ ValidEntries(params.entries)
        /\ IF params.buf > 0 THEN MemUsed > params.buf
                             ELSE SqesMem > HugePageSize \/ RingMem > HugePageSize
        /\ Fails("ENOMEM") /\ UNCHANGED mapped
     \/ /\ ValidEntries(params.entries) /\ params.buf > 0 /\ MemUsed <= params.buf
        /\ ring' = [NoRing EXCEPT !.sqes = "app", !.ring_ptr = "app", !.cq_ptr = "app"]
        /\ pc' = "setup"
        /\ UNCHANGED <<no_sqarray, mapped>>
     \/ /\ ValidEntries(params.entries) /\ params.buf = 0
        /\ SqesMem <= HugePageSize /\ RingMem <= HugePageSize
        /\ \/ Fails("ENOMEM") /\ UNCHANGED mapped
           \/ /\ mapped' = Map("sqes", BufSize(SqesMem), SqesMem > PageSize)
              /\ IF MemUsed <= BufSize(SqesMem)
                 THEN /\ ring' = [NoRing EXCEPT !.sqes = "sqes", !.ring_ptr = "sqes",
                                                !.cq_ptr = "sqes"]
                      /\ pc' = "setup"
                 ELSE ring' = [NoRing EXCEPT !.sqes = "sqes"] /\ pc' = "alloc_ring"
              /\ UNCHANGED no_sqarray
  /\ UNCHANGED <<params, fds>>

AllocRing ==
  /\ pc = "alloc_ring"
  /\ \/ mapped' = Unmapped(mapped, "sqes", 1) /\ Fails("ENOMEM")
     \/ /\ mapped' = Map("ring", BufSize(RingMem), RingMem > PageSize)
        /\ ring' = [ring EXCEPT !.ring_ptr = "ring", !.cq_ptr = "ring",
                                !.sq_ring_sz = BufSize(RingMem)]
        /\ pc' = "setup" /\ UNCHANGED no_sqarray
  /\ UNCHANGED <<params, fds>>

AfterSetupFailed ==
  IF params.no_mmap /\ params.buf = 0
  THEN RingsUnmapped(Unmapped(mapped, ring.sqes, 1))
  ELSE mapped

SetupFails(err) ==
  /\ pc = "setup" /\ fds = {}
  /\ mapped' = AfterSetupFailed
  /\ Fails(err)
  /\ UNCHANGED <<params, fds>>

(* With IORING_SETUP_REGISTERED_FD_ONLY there is only a registered slot.   *)
SetupSucceeds ==
  /\ pc = "setup" /\ ValidEntries(params.entries)
  /\ pc' = IF params.no_mmap THEN "ready" ELSE "map_sq"
  /\ LET memory == IF params.no_mmap THEN ring ELSE NoRing
     IN  IF params.registered_fd_only
         THEN /\ fds' = {"slot"}
              /\ ring' = [memory EXCEPT !.enter_ring_fd = "slot",
                                        !.int_flags = {"REG_RING", "REG_REG_RING"}]
         ELSE /\ fds' = {"ring_fd"}
              /\ ring' = [memory EXCEPT !.ring_fd = "ring_fd", !.enter_ring_fd = "ring_fd"]
  /\ UNCHANGED <<params, no_sqarray, mapped>>

(* io_uring_mmap: the rings, in one mapping or two, then the entries.      *)
SqRingSize == (IF no_sqarray THEN 0 ELSE 4 * SqEntries) + KringSize
CqRingSize == KringSize + CqeSize * CqEntries
LargerRing == IF CqRingSize > SqRingSize THEN CqRingSize ELSE SqRingSize

MapSq ==
  /\ pc = "map_sq"
  /\ \/ fds' = {} /\ Fails("ENOMEM") /\ UNCHANGED mapped
     \/ LET size == IF params.single_mmap THEN LargerRing ELSE SqRingSize
        IN  /\ mapped' = Map("sq_ring", RoundUp(size, PageSize), FALSE)
            /\ ring' = [ring EXCEPT !.ring_ptr = "sq_ring", !.sq_ring_sz = size,
                          !.cq_ring_sz = IF params.single_mmap THEN size ELSE CqRingSize,
                          !.cq_ptr = IF params.single_mmap THEN "sq_ring" ELSE "none"]
            /\ pc' = IF params.single_mmap THEN "map_sqes" ELSE "map_cq"
            /\ UNCHANGED <<no_sqarray, fds>>
  /\ UNCHANGED params

MapCq ==
  /\ pc = "map_cq"
  /\ \/ mapped' = RingsUnmapped(mapped) /\ fds' = {} /\ Fails("ENOMEM")
     \/ /\ mapped' = Map("cq_ring", RoundUp(CqRingSize, PageSize), FALSE)
        /\ ring' = [ring EXCEPT !.cq_ptr = "cq_ring"]
        /\ pc' = "map_sqes" /\ UNCHANGED <<no_sqarray, fds>>
  /\ UNCHANGED params

MapSqes ==
  /\ pc = "map_sqes"
  /\ \/ mapped' = RingsUnmapped(mapped) /\ fds' = {} /\ Fails("ENOMEM")
     \/ /\ mapped' = Map("sqes", RoundUp(SqeSize * SqEntries, PageSize), FALSE)
        /\ ring' = [ring EXCEPT !.sqes = "sqes"]
        /\ pc' = "ready" /\ UNCHANGED <<no_sqarray, fds>>
  /\ UNCHANGED params

(* io_uring_queue_exit *)
AfterExit ==
  IF ring.sq_ring_sz = 0
  THEN RingsUnmapped(Unmapped(mapped, ring.sqes, SqeSize * SqEntries))
  ELSE RingsUnmapped(Unmapped(mapped, ring.sqes, 64 * SqEntries))

(* What do_register names the ring by. *)
RegisterFd == IF "REG_REG_RING" \in ring.int_flags THEN ring.enter_ring_fd ELSE ring.ring_fd

Unregistered == IF "REG_RING" \in ring.int_flags /\ RegisterFd \in fds THEN fds \ {"slot"} ELSE fds

QueueExit ==
  /\ pc = (IF params.caller = "probe" THEN "probed" ELSE "ready")
  /\ "buf_ring" \notin DOMAIN mapped
  /\ mapped' = AfterExit
  /\ fds' = Unregistered \ {ring.ring_fd}
  /\ pc' = "exited"
  /\ UNCHANGED <<params, no_sqarray, ring>>

(***************************************************************************)
(* register.c: the registered descriptor.                                  *)
(***************************************************************************)

RegisterRingFd ==
  /\ pc = "ready" /\ params.caller = "program"
  /\ "REG_RING" \notin ring.int_flags /\ RegisterFd \in fds
  /\ fds' = fds \cup {"slot"}
  /\ ring' = [ring EXCEPT !.enter_ring_fd = "slot",
                          !.int_flags = {"REG_RING"} \cup IF params.reg_reg THEN {"REG_REG_RING"}
                                                                           ELSE {}]
  /\ UNCHANGED <<pc, params, no_sqarray, mapped>>

UnregisterRingFd ==
  /\ pc = "ready" /\ params.caller = "program"
  /\ "REG_RING" \in ring.int_flags /\ RegisterFd \in fds
  /\ fds' = Unregistered
  /\ ring' = [ring EXCEPT !.enter_ring_fd = ring.ring_fd, !.int_flags = {}]
  /\ UNCHANGED <<pc, params, no_sqarray, mapped>>

CloseRingFd ==
  /\ pc = "ready" /\ params.caller = "program"
  /\ params.reg_reg /\ "REG_RING" \in ring.int_flags /\ ring.ring_fd # "none"
  /\ fds' = fds \ {ring.ring_fd}
  /\ ring' = [ring EXCEPT !.ring_fd = "none"]
  /\ UNCHANGED <<pc, params, no_sqarray, mapped>>

(***************************************************************************)
(* io_uring_get_probe and io_uring_mlock_size                              *)
(***************************************************************************)

(* The probe stays when it could be allocated and registered. *)
GetProbe ==
  /\ pc = "ready" /\ params.caller = "probe"
  /\ mapped' \in {mapped, Map("probe", PageSize, FALSE)}
  /\ pc' = "probed"
  /\ UNCHANGED <<params, no_sqarray, ring, fds>>

FreeProbe ==
  /\ pc = "exited" /\ "probe" \in DOMAIN mapped
  /\ mapped' = Unmapped(mapped, "probe", PageSize)
  /\ UNCHANGED <<pc, params, no_sqarray, ring, fds>>

(* Pages to the next power of two, the rings' and the entries'. *)
npages(size) == roundup_pow2((size - 1) \div PageSize + 1)
rings_size ==
  (npages(RoundUp(CqeSize * CqEntries + KringSize, 64)) + npages(SqeSize * SqEntries)) * PageSize

(* br_setup and io_uring_free_buf_ring, with one ring of a page.           *)
MapBufRing ==
  /\ pc = "ready" /\ params.caller = "program" /\ "buf_ring" \notin DOMAIN mapped
  /\ mapped' = Map("buf_ring", PageSize, FALSE)
  /\ pc' = "register"
  /\ UNCHANGED <<params, no_sqarray, ring, fds>>

RegisterBufRing ==
  /\ pc = "register"
  /\ mapped' \in {mapped, Unmapped(mapped, "buf_ring", PageSize)}
  /\ pc' = "ready"
  /\ UNCHANGED <<params, no_sqarray, ring, fds>>

FreeBufRing ==
  /\ pc = "ready" /\ "buf_ring" \in DOMAIN mapped
  /\ mapped' = Unmapped(mapped, "buf_ring", PageSize)
  /\ UNCHANGED <<pc, params, no_sqarray, ring, fds>>

Terminated == pc \in Ends /\ UNCHANGED vars

Next ==
  \/ QueueInit \/ Alloc \/ AllocRing
  \/ (\E err \in {"EINVAL", "ENOMEM"} : SetupFails(err)) \/ SetupSucceeds
  \/ MapSq \/ MapCq \/ MapSqes
  \/ MapBufRing \/ RegisterBufRing \/ FreeBufRing
  \/ RegisterRingFd \/ UnregisterRingFd \/ CloseRingFd
  \/ GetProbe \/ FreeProbe
  \/ QueueExit \/ Terminated

Spec == Init /\ [][Next]_vars

(* After a failed queue_init and after queue_exit every mapping has been   *)
(* undone and the descriptor closed, whichever call failed, in the first   *)
(* attempt or the second.  Two things escape: a huge page, which is        *)
(* unmapped with a length that is not its own (setup.c:322, 441), and with *)
(* IORING_SETUP_SQE128 half of the entries (445).  The application's       *)
(* memory is left alone by a queue_init that fails (not by queue_exit,     *)
(* 441).                                                                   *)
NothingLeaks ==
  pc \in Ends =>
    /\ fds = {}
    /\ ~params.sqe128 =>
         \A name \in DOMAIN mapped : mapped[name].huge \/ name \in {"app", "probe"}
    /\ pc = "failed" /\ params.buf > 0 => mapped["app"].size = params.buf

(* As long as the kernel keeps the ring, the program can enter it and      *)
(* register with it, through whichever of its descriptors is left: what    *)
(* enter_ring_fd and do_register use is open (register.c:303, 294).        *)
RingReachable == pc = "ready" /\ fds # {} => {ring.enter_ring_fd, RegisterFd} \subseteq fds

(* What io_uring_mlock_size answers covers the memory of the ring, whose   *)
(* two mappings are of the same memory (setup.c:507).                      *)
MlockSizeCovers ==
  pc = "ready" /\ ~params.no_mmap =>
    /\ mapped["sqes"].size + mapped["sq_ring"].size <= rings_size
    /\ "cq_ring" \in DOMAIN mapped => mapped["sqes"].size + mapped["cq_ring"].size <= rings_size
=============================================================================
