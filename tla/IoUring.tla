------------------------------ MODULE IoUring -------------------------------
(***************************************************************************)
(* The ring as fast_net/libs/liburing keeps it (src/queue.c and the inline *)
(* functions of src/include/liburing.h): two arrays shared with the        *)
(* kernel, each with a head and a tail that only grow, modulo 2^32, and    *)
(* the private sqe_head and sqe_tail of entries not yet shown to the       *)
(* kernel.  One thread of the program calls the library; the kernel runs   *)
(* beside it, and with IORING_SETUP_SQPOLL a kernel thread takes entries   *)
(* on its own and goes to sleep when there are none.                       *)
(*                                                                         *)
(* A step of the thread is what it does up to the next system call, or to  *)
(* the next access of memory that the kernel changes meanwhile.  An        *)
(* operation is its user_data.  Without IORING_FEAT_EXT_ARG a wait with a  *)
(* timeout prepares an operation of its own, LIBURING_UDATA_TIMEOUT.       *)
(***************************************************************************)
EXTENDS Integers, Sequences, SequencesExt

CONSTANTS
  Data,                  \* user_data of the program's operations, integers
  SqEntries, CqEntries,  \* ring_entries of the two rings
  Wrap,                  \* 2^32, where the counters wrap around
  Kinds,                 \* of rings, a subset of RingKinds
  FaultyKinds,           \* of rings whose system calls may fail or be cut short
  MaxTimeouts            \* bound: internal timeouts in the ring at a time

(* With IORING_SETUP_SQPOLL or without, on a kernel with                   *)
(* IORING_FEAT_EXT_ARG or an older one.                                    *)
RingKinds == {"plain", "sqpoll", "old plain", "old sqpoll"}

ASSUME IoUringAssumption ==
  /\ SqEntries \in Nat \ {0} /\ CqEntries \in Nat \ {0} /\ Wrap \in Nat
  /\ SqEntries + 1 < Wrap /\ CqEntries + 1 < Wrap
  /\ Wrap % SqEntries = 0 /\ Wrap % CqEntries = 0
  /\ Data \subseteq Nat
  /\ Kinds \subseteq RingKinds /\ FaultyKinds \subseteq RingKinds
  /\ MaxTimeouts \in Nat

VARIABLES
  sqpoll, ext_arg, faulty,          \* what the ring and the kernel are, fixed
  sqe_head, sqe_tail,               \* private to the library
  sq_khead, sq_ktail, sqes,         \* the submission ring
  cq_khead, cq_ktail, cqes,         \* the completion ring
  kernel,                           \* operations under way
  met,                              \* the first so many timeouts in kernel complete, not expire
  overflow,                         \* completions the kernel keeps for a full ring
  sq_thread,                        \* "awake", "drowsy" (IORING_SQ_NEED_WAKEUP is set), "asleep"
  pc,                               \* "idle", "flags", "look", "batch", "enter", "in_kernel", "sqwait"
  data,                             \* struct get_data, the call it is for, and the locals
  reply,                            \* the last call that returned, and what
  handed                            \* completions the program holds, as they were when it got them

modeVars == <<sqpoll, ext_arg, faulty>>
sqVars == <<sqe_head, sqe_tail, sq_khead, sq_ktail, sqes>>
cqVars == <<cq_khead, cq_ktail, cqes, overflow>>
kernelVars == <<kernel, met>>
vars == <<modeVars, sqVars, cqVars, kernelVars, sq_thread, pc, data, reply, handed>>

TIMEOUT == -1            \* LIBURING_UDATA_TIMEOUT

EAGAIN == 11
EINTR == 4
ETIME == 62

Operations == Data \cup {TIMEOUT}

(* What the kernel or the program has taken from a ring stays there until  *)
(* it is written over, and nothing may read it any more: it is marked.     *)
StaleSqe == -2
StaleCqe == [data |-> -2, res |-> 0]
Mark(stale, array, entries, counter, n) ==
  [slot \in 0 .. entries - 1 |->
     IF (slot - counter) % entries < n THEN stale ELSE array[slot]]

Cqes == [data : Operations, res : {0, -ETIME}]

(***************************************************************************)
(* Counters and arrays.                                                    *)
(***************************************************************************)

Advance(counter, n) == (counter + n) % Wrap

(* What unsigned subtraction gives. *)
Distance(from, to) == (to - from) % Wrap

(* The n entries of a ring of that size from counter on. *)
Slice(array, entries, counter, n) == [i \in 1 .. n |-> array[(counter + i - 1) % entries]]

sq == Slice(sqes, SqEntries, sq_khead, Distance(sq_khead, sqe_tail))
Published == Slice(sqes, SqEntries, sq_khead, Distance(sq_khead, sq_ktail))

io_uring_cq_ready == Distance(cq_khead, cq_ktail)
Ready == Slice(cqes, CqEntries, cq_khead, io_uring_cq_ready)

CqData == [i \in DOMAIN (Ready \o overflow) |-> (Ready \o overflow)[i].data]

io_uring_sq_space_left == SqEntries - Distance(sq_khead, sqe_tail)

(* Seeded fault: one entry more than there is room for. *)
SqeAvailableOneMore == Distance(sq_khead, sqe_tail) <= SqEntries

(* next - head <= ring_entries. *)
SqeAvailable == Distance(sq_khead, Advance(sqe_tail, 1)) <= SqEntries

cq_ring_needs_flush == overflow # <<>>

(* Seeded fault: a sleeping thread is not woken. *)
SqNeedsEnterNoWakeup(submit) == submit > 0 /\ ~sqpoll

sq_ring_needs_enter(submit) == submit > 0 /\ (~sqpoll \/ sq_thread # "awake")

NoCall == [call |-> "none", submit |-> 0, wait_nr |-> 0, has_ts |-> FALSE, looped |-> FALSE,
           err |-> 0, cqe |-> FALSE, getevents |-> FALSE, wakeup |-> FALSE, entered |-> 0]
NoReply == [call |-> "none", ret |-> 0, cqe |-> FALSE]

Init ==
  /\ \E kind \in Kinds \cup FaultyKinds :
       /\ sqpoll = (kind \in {"sqpoll", "old sqpoll"})
       /\ ext_arg = (kind \in {"plain", "sqpoll"})
       /\ faulty \in {mode \in BOOLEAN : kind \in (IF mode THEN FaultyKinds ELSE Kinds)}
  /\ sqe_head = 0 /\ sqe_tail = 0 /\ sq_khead = 0 /\ sq_ktail = 0
  /\ cq_khead = 0 /\ cq_ktail = 0
  /\ sqes = [slot \in 0 .. SqEntries - 1 |-> StaleSqe]
  /\ cqes = [slot \in 0 .. CqEntries - 1 |-> StaleCqe]
  /\ kernel = <<>> /\ met = 0 /\ overflow = <<>> /\ sq_thread = "awake"
  /\ pc = "idle" /\ data = NoCall /\ reply = NoReply
  /\ handed = <<>>

(***************************************************************************)
(* Submission: io_uring_get_sqe, io_uring_submit and its variants.         *)
(***************************************************************************)

PutSqe(op) ==
  /\ sqes' = [sqes EXCEPT ![sqe_tail % SqEntries] = op]
  /\ sqe_tail' = Advance(sqe_tail, 1)

Unused == Data \ (Range(sq) \cup Range(kernel) \cup Range(CqData))

(* The program gets an entry and fills it; if there is none it gets NULL   *)
(* and nothing changes.  A user_data is used again when its completion has *)
(* been given back.                                                        *)
GetSqe(op) ==
  /\ pc = "idle" /\ SqeAvailable
  /\ op \in Unused /\ \A other \in Unused : op <= other
  /\ PutSqe(op)
  /\ reply' = NoReply
  /\ UNCHANGED <<modeVars, sqe_head, sq_khead, sq_ktail, cqVars, kernelVars, sq_thread, pc, data,
                 handed>>

(* __io_uring_flush_sq: what was prepared is shown to the kernel.          *)
FlushSq == sqe_head' = sqe_tail /\ sq_ktail' = sqe_tail

(* io_uring_submit, io_uring_submit_and_wait(1), ..._and_get_events.       *)
Submit(wait_nr, getevents) ==
  /\ pc = "idle"
  /\ FlushSq
  /\ data' = [NoCall EXCEPT !.call = "submit", !.submit = Distance(sq_khead, sqe_tail),
                            !.wait_nr = wait_nr, !.getevents = getevents]
  /\ pc' = "flags" /\ reply' = NoReply
  /\ UNCHANGED <<modeVars, sqe_tail, sq_khead, sqes, cqVars, kernelVars, sq_thread, handed>>

(* What a call returns to the program, which looks at the sign of it.      *)
Sign(ret) == CASE ret < 0 -> -1 [] ret = 0 -> 0 [] ret > 0 -> 1

Return(call, ret, cqe) ==
  /\ pc' = "idle" /\ data' = NoCall
  /\ reply' = [call |-> call, ret |-> Sign(ret), cqe |-> cqe]

Begin(call) == [NoCall EXCEPT !.call = call]

(* An internal timeout met in a batch is given back before the next wait.  *)
HoldsNoTimeout == TIMEOUT \notin {cqe.data : cqe \in Range(handed)}

(* Seeded fault: the entry of the timeout is not shown to the kernel. *)
SubmitTimeoutUnflushed ==
  /\ SqeAvailable
  /\ PutSqe(TIMEOUT)
  /\ pc' = "look"
  /\ data' = [Begin("wait_timeout") EXCEPT !.wait_nr = 1]
  /\ reply' = NoReply
  /\ UNCHANGED <<sqe_head, sq_ktail>>

(* __io_uring_submit_timeout: the timeout is an operation, which goes to   *)
(* the kernel with what the program has prepared.                          *)
SubmitTimeout ==
  IF SqeAvailable
  THEN /\ PutSqe(TIMEOUT)
       /\ sqe_head' = sqe_tail' /\ sq_ktail' = sqe_tail'
       /\ pc' = "look"
       /\ data' = [Begin("wait_timeout") EXCEPT !.wait_nr = 1,
                                                !.submit = Distance(sq_khead, sqe_tail')]
       /\ reply' = NoReply
  ELSE UNCHANGED <<sqe_head, sqe_tail, sq_ktail, sqes>> /\ Return("wait_timeout", -EAGAIN, FALSE)

(* Seeded fault: the call ends without another look at the ring. *)
GetCqeReturns(ret) == Return(data.call, ret, data.cqe)

(* The rest of a pass of the loop of _io_uring_get_cqe, after the system   *)
(* call has returned ret.                                                  *)
GetCqeContinues(ret) ==
  CASE ret < 0 -> Return(data.call, IF data.err = 0 THEN ret ELSE data.err, data.cqe)
    [] ret >= 0 /\ data.cqe ->
         Return(data.call, data.err, TRUE)
    [] OTHER -> /\ pc' = "look"
                /\ data' = [data EXCEPT !.submit = @ - ret, !.looped = TRUE, !.entered = 0,
                                        !.err = IF data.looped THEN @ ELSE ret]
                /\ UNCHANGED reply

Continue(ret) ==
  /\ IF data.call = "submit_timeout" /\ ret >= 0
     THEN SubmitTimeout
     ELSE /\ UNCHANGED <<sqe_head, sqe_tail, sq_ktail, sqes>>
          /\ CASE data.call = "submit" -> Return("submit", ret, FALSE)
               [] data.call = "submit_timeout" -> Return("wait_timeout", ret, FALSE)
               [] data.call = "batch" ->
                    /\ pc' = "batch" /\ data' = [data EXCEPT !.looped = TRUE, !.getevents = FALSE]
                    /\ UNCHANGED reply
               [] OTHER -> GetCqeContinues(ret)
  /\ handed' = IF data.cqe /\ handed = <<>> THEN SubSeq(Ready, 1, 1) ELSE handed

(* __io_uring_submit, after the new tail is visible to the kernel.         *)
SubmitFlags ==
  /\ pc = "flags"
  /\ LET getevents == data.getevents \/ data.wait_nr > 0 \/ cq_ring_needs_flush
     IN  IF sq_ring_needs_enter(data.submit) \/ getevents
         THEN /\ pc' = "enter"
              /\ data' = [data EXCEPT !.getevents = getevents,
                                      !.wakeup = sqpoll /\ sq_ring_needs_enter(data.submit)]
              /\ UNCHANGED <<sqe_head, sqe_tail, sq_ktail, sqes, reply, handed>>
         ELSE Continue(data.submit)
  /\ UNCHANGED <<modeVars, sq_khead, cqVars, kernelVars, sq_thread>>

(* io_uring_sqring_wait, for room in the ring of a polling kernel thread.  *)
SqringWait ==
  /\ pc = "idle" /\ sqpoll /\ io_uring_sq_space_left = 0
  /\ pc' = "sqwait" /\ reply' = NoReply
  /\ UNCHANGED <<modeVars, sqVars, cqVars, kernelVars, sq_thread, data, handed>>

SqringWaitReturns ==
  /\ pc = "sqwait" /\ io_uring_sq_space_left > 0
  /\ Return("sqwait", 0, FALSE)
  /\ UNCHANGED <<modeVars, sqVars, cqVars, kernelVars, sq_thread, handed>>

(***************************************************************************)
(* Completion: io_uring_peek_cqe, io_uring_wait_cqe and its variants.      *)
(***************************************************************************)

(* __io_uring_peek_cqe passes over completions of internal timeouts up to  *)
(* the first that has expired, which it takes too and reports.             *)
IsTimeout(cqe) == ~ext_arg /\ cqe.data = TIMEOUT
Skipped ==
  Cardinality({n \in DOMAIN Ready :
    \A i \in 1 .. n : IsTimeout(Ready[i]) /\ (i < n => Ready[i].res = 0)})
Expired == Skipped > 0 /\ Ready[Skipped].res < 0
Available == Len(Ready) - Skipped
Found == ~Expired /\ Available > 0

Skip ==
  /\ cq_khead' = Advance(cq_khead, Skipped)
  /\ cqes' = Mark(StaleCqe, cqes, CqEntries, cq_khead, Skipped)

(* The program holds the first n completions of the ring, if not yet.      *)
Hand(n) == handed' = IF n <= Len(handed) THEN handed ELSE SubSeq(Ready, Skipped + 1, Skipped + n)

(* io_uring_peek_cqe and io_uring_wait_cqe look once and then, unless      *)
(* there is a completion, do all of it again in __io_uring_get_cqe; an     *)
(* expired timeout met by the first look is forgotten.                     *)
PeekOrWait(call, wait_nr) ==
  /\ pc = "idle" /\ HoldsNoTimeout
  /\ Skip
  /\ IF Found
     THEN Return(call, 0, TRUE) /\ Hand(1)
     ELSE /\ pc' = "look" /\ data' = [Begin(call) EXCEPT !.wait_nr = wait_nr]
          /\ reply' = NoReply /\ UNCHANGED handed
  /\ UNCHANGED <<modeVars, sqVars, cq_ktail, overflow, kernelVars, sq_thread>>

Peek == PeekOrWait("peek", 0)
Wait == PeekOrWait("wait", 1)

(* io_uring_wait_cqe_timeout where the kernel takes a timeout. *)
WaitTimeoutNew ==
  /\ pc = "idle" /\ ext_arg
  /\ pc' = "look" /\ data' = [Begin("wait_timeout") EXCEPT !.wait_nr = 1, !.has_ts = TRUE]
  /\ reply' = NoReply
  /\ UNCHANGED <<modeVars, sqVars, cqVars, kernelVars, sq_thread, handed>>

(* ... and where it does not: one more entry for the timeout, after a      *)
(* submit if there is none.                                                *)
WaitTimeoutOld ==
  /\ pc = "idle" /\ ~ext_arg /\ HoldsNoTimeout
  /\ Len(SelectSeq(sq \o kernel \o CqData, LAMBDA op : op = TIMEOUT)) < MaxTimeouts
  /\ IF SqeAvailable
     THEN SubmitTimeout
     ELSE /\ FlushSq
          /\ pc' = "flags"
          /\ data' = [Begin("submit_timeout") EXCEPT !.submit = Distance(sq_khead, sqe_tail)]
          /\ UNCHANGED <<sqe_tail, sqes>> /\ reply' = NoReply
  /\ UNCHANGED <<modeVars, sq_khead, cqVars, kernelVars, sq_thread, handed>>

(* io_uring_submit_and_wait_timeout: with a timeout where the kernel takes *)
(* one, or without; else it is WaitTimeoutOld.                             *)
SubmitAndWait(has_ts) ==
  /\ pc = "idle" /\ (has_ts => ext_arg) /\ HoldsNoTimeout
  /\ FlushSq
  /\ pc' = "look"
  /\ data' = [Begin("submit_and_wait") EXCEPT !.wait_nr = 1, !.has_ts = has_ts,
                                              !.submit = Distance(sq_khead, sqe_tail)]
  /\ reply' = NoReply
  /\ UNCHANGED <<modeVars, sqe_tail, sq_khead, sqes, cqVars, kernelVars, sq_thread, handed>>

(* One pass of the loop of _io_uring_get_cqe, up to the system call.       *)
Look ==
  /\ pc = "look"
  /\ Skip
  /\ LET nothing == ~Found /\ data.wait_nr = 0 /\ data.submit = 0
         getevents == nothing \/ data.wait_nr > Available
         wakes == sq_ring_needs_enter(data.submit)
         Or(err) == IF data.err = 0 THEN err ELSE data.err
     IN  CASE Expired -> Return(data.call, Or(-ETIME), FALSE) /\ UNCHANGED handed
           [] ~Expired /\ nothing /\ (data.looped \/ ~cq_ring_needs_flush) ->
                Return(data.call, Or(-EAGAIN), FALSE) /\ UNCHANGED handed
           [] ~Expired /\ ~nothing /\ ~getevents /\ ~wakes ->
                Return(data.call, data.err, Found) /\ Hand(IF Found THEN 1 ELSE 0)
           [] ~Expired /\ ~nothing /\ (getevents \/ wakes) /\ data.looped /\ data.has_ts ->
                /\ Return(data.call, IF Found THEN data.err ELSE Or(-ETIME), Found)
                /\ Hand(IF Found THEN 1 ELSE 0)
           [] OTHER ->
                /\ pc' = "enter"
                /\ data' = [data EXCEPT !.getevents = getevents, !.wakeup = sqpoll /\ wakes,
                                        !.cqe = Found]
                /\ UNCHANGED <<reply, handed>>
  /\ UNCHANGED <<modeVars, sqVars, cq_ktail, overflow, kernelVars, sq_thread>>

(* io_uring_peek_batch_cqe, or io_uring_for_each_cqe, of up to count.      *)
PeekBatch(count) ==
  /\ pc = "idle"
  /\ pc' = "batch" /\ data' = [Begin("batch") EXCEPT !.wait_nr = count]
  /\ reply' = NoReply
  /\ UNCHANGED <<modeVars, sqVars, cqVars, kernelVars, sq_thread, handed>>

Batch ==
  /\ pc = "batch"
  /\ IF Ready = <<>> /\ ~data.looped /\ cq_ring_needs_flush
     THEN /\ pc' = "enter" /\ data' = [data EXCEPT !.wait_nr = 0, !.getevents = TRUE]
          /\ UNCHANGED <<reply, handed>>
     ELSE LET n == IF data.wait_nr < Len(Ready) THEN data.wait_nr ELSE Len(Ready)
          IN  /\ Return("batch", n, n > 0)
              /\ handed' = IF n <= Len(handed) THEN handed ELSE SubSeq(Ready, 1, n)
  /\ UNCHANGED <<modeVars, sqVars, cqVars, kernelVars, sq_thread>>

(* io_uring_cq_advance; io_uring_cqe_seen with n = 1. *)
CqAdvance(n) ==
  /\ pc = "idle" /\ n <= Len(handed)
  /\ cq_khead' = Advance(cq_khead, n)
  /\ cqes' = Mark(StaleCqe, cqes, CqEntries, cq_khead, n)
  /\ reply' = NoReply
  /\ handed' = SubSeq(handed, n + 1, Len(handed))
  /\ UNCHANGED <<modeVars, sqVars, cq_ktail, overflow, kernelVars, sq_thread, pc, data>>

(***************************************************************************)
(* io_uring_enter and the kernel.                                          *)
(***************************************************************************)

(* The kernel moves what it has kept into the ring as far as there is room. *)
Room == CqEntries - io_uring_cq_ready
Moved == IF Len(overflow) < Room THEN Len(overflow) ELSE Room

FlushOverflow ==
  /\ cqes' = [slot \in 0 .. CqEntries - 1 |->
                LET n == ((slot - cq_ktail) % CqEntries) + 1
                IN  IF n <= Moved THEN overflow[n] ELSE cqes[slot]]
  /\ cq_ktail' = Advance(cq_ktail, Moved)
  /\ overflow' = SubSeq(overflow, Moved + 1, Len(overflow))

TakeEntries(n) ==
  /\ kernel' = kernel \o SubSeq(Published, 1, n)
  /\ sqes' = Mark(StaleSqe, sqes, SqEntries, sq_khead, n)
  /\ sq_khead' = Advance(sq_khead, n)

(* Entries are taken in the call, or left to the kernel thread.  Fewer     *)
(* than asked for end the call before it looks at completions.             *)
Enter ==
  /\ pc = "enter"
  /\ \E n \in (IF sqpoll \/ ~faulty \/ data.submit = 0 THEN {data.submit}
                                                    ELSE 1 .. data.submit) :
       /\ data' = [data EXCEPT !.entered = n]
       /\ IF sqpoll THEN UNCHANGED <<kernel, sq_khead, sqes>> ELSE TakeEntries(n)
       /\ IF data.getevents /\ n = data.submit THEN FlushOverflow
                                              ELSE UNCHANGED <<cqes, cq_ktail, overflow>>
  /\ sq_thread' = IF data.wakeup THEN "awake" ELSE sq_thread
  /\ pc' = "in_kernel"
  /\ UNCHANGED <<modeVars, sqe_head, sqe_tail, sq_ktail, cq_khead, met, reply, handed>>

(* The value of a call that has taken entries says nothing of its wait.    *)
Interrupted(err) == IF data.entered > 0 THEN data.entered ELSE -err

EnterReturns ==
  /\ \/ pc = "enter" /\ faulty /\ Continue(-EAGAIN)
     \/ /\ pc = "in_kernel"
        /\ data.entered < data.submit \/ ~data.getevents \/ io_uring_cq_ready >= data.wait_nr
        /\ Continue(data.entered)
     \/ pc = "in_kernel" /\ data.getevents /\ data.has_ts /\ Continue(Interrupted(ETIME))
     \/ pc = "in_kernel" /\ data.getevents /\ faulty /\ Continue(Interrupted(EINTR))
  /\ UNCHANGED <<modeVars, sq_khead, cqVars, kernelVars, sq_thread>>

(* Seeded fault: a completion that finds the ring full is lost. *)
PostOrDrop(cqe) ==
  /\ IF io_uring_cq_ready < CqEntries
     THEN cqes' = [cqes EXCEPT ![cq_ktail % CqEntries] = cqe] /\ cq_ktail' = Advance(cq_ktail, 1)
     ELSE UNCHANGED <<cqes, cq_ktail>>
  /\ UNCHANGED overflow

Post(cqe) ==
  IF overflow = <<>> /\ io_uring_cq_ready < CqEntries
  THEN /\ cqes' = [cqes EXCEPT ![cq_ktail % CqEntries] = cqe]
       /\ cq_ktail' = Advance(cq_ktail, 1)
       /\ UNCHANGED overflow
  ELSE overflow' = Append(overflow, cqe) /\ UNCHANGED <<cqes, cq_ktail>>

(* An internal timeout completes with 0 once another operation that was    *)
(* under way with it has completed, else it expires.                       *)
TimeoutsUpTo(k) == Len(SelectSeq(SubSeq(kernel, 1, k), LAMBDA op : op = TIMEOUT))

Complete(k) ==
  /\ IF kernel[k] # TIMEOUT
     THEN Post([data |-> kernel[k], res |-> 0]) /\ met' = TimeoutsUpTo(Len(kernel))
     ELSE IF TimeoutsUpTo(k) <= met
     THEN Post([data |-> TIMEOUT, res |-> 0]) /\ met' = met - 1
     ELSE Post([data |-> TIMEOUT, res |-> -ETIME]) /\ UNCHANGED met
  /\ kernel' = RemoveAt(kernel, k)
  /\ UNCHANGED <<modeVars, sqVars, cq_khead, sq_thread, pc, data, reply, handed>>

(* The thread of IORING_SETUP_SQPOLL: before it sleeps it sets the flag    *)
(* and looks at the tail once more.                                        *)
SqThreadTakes ==
  /\ sqpoll /\ sq_thread = "awake"
  /\ \E n \in DOMAIN Published : TakeEntries(n)
  /\ UNCHANGED <<modeVars, sqe_head, sqe_tail, sq_ktail, cqVars, met, sq_thread, pc, data, reply, handed>>

SqThreadIdles ==
  /\ sqpoll /\ sq_thread \in {"awake", "drowsy"} /\ (sq_thread = "awake" => Published = <<>>)
  /\ sq_thread' = CASE sq_thread = "awake" -> "drowsy"
                     [] Published # <<>> -> "awake"
                     [] OTHER -> "asleep"
  /\ UNCHANGED <<modeVars, sqVars, cqVars, kernelVars, pc, data, reply, handed>>

SqThread == SqThreadTakes \/ SqThreadIdles

(***************************************************************************)
(* The specification.                                                      *)
(***************************************************************************)

Library == SubmitFlags \/ SqringWaitReturns \/ Look \/ Batch \/ Enter \/ EnterReturns

Program ==
  \/ \E op \in Data : GetSqe(op)
  \/ \E wait_nr \in {0, 1}, getevents \in BOOLEAN : Submit(wait_nr, getevents)
  \/ SqringWait
  \/ Peek \/ Wait \/ WaitTimeoutNew \/ WaitTimeoutOld
  \/ \E has_ts \in BOOLEAN : SubmitAndWait(has_ts)
  \/ \E count \in 1 .. CqEntries : PeekBatch(count) \/ CqAdvance(count)

TimeoutCompletes == \E k \in DOMAIN kernel : kernel[k] = TIMEOUT /\ Complete(k)

Next == Library \/ Program \/ (\E k \in DOMAIN kernel : Complete(k)) \/ SqThread

Spec == Init /\ [][Next]_vars

(* A call that can go on does, the kernel's thread is scheduled, timeouts  *)
(* expire.  Other operations may never complete, and nothing is assumed of *)
(* the program.                                                            *)
FairSpec == Spec /\ WF_vars(Library) /\ WF_vars(SqThread) /\ WF_vars(TimeoutCompletes)

(***************************************************************************)
(* Properties.                                                             *)
(***************************************************************************)

(* The counters and arrays are sound, over the wrap of the counters too:   *)
(* neither ring ever holds more than its entries, NULL is returned for an  *)
(* entry exactly when the ring is full (liburing.h:1477), the kernel keeps *)
(* completions back only behind others, and a completion the program holds *)
(* stays in its place, as it was, until it is given back (336).            *)
RingSound ==
  /\ sqe_head = sq_ktail
  /\ Distance(sq_khead, sqe_tail) <= SqEntries
  /\ Distance(sq_khead, sq_ktail) <= Distance(sq_khead, sqe_tail)
  /\ io_uring_cq_ready <= CqEntries
  /\ SqeAvailable <=> io_uring_sq_space_left > 0
  /\ Len(handed) <= Len(Ready) /\ handed = SubSeq(Ready, 1, Len(handed))

(* liburing keeps the three queues of UringQueues: entries in the order    *)
(* they were prepared, no completion lost or given back twice, whatever    *)
(* calls fail or are cut short, and with internal timeouts among them.     *)
Queues == INSTANCE UringQueues WITH Entries <- SqEntries, cq <- CqData
Implements == Queues!Spec

(* "Returns 0 with cqe_ptr filled in on success, -errno on failure."       *)
(* (liburing.h:1375, man/io_uring_wait_cqe_timeout.3:54): what the three   *)
(* calls return where the kernel takes timeouts.                           *)
ReturnsCqeOrError ==
  ext_arg /\ reply.call \in {"peek", "wait", "wait_timeout"} =>
    reply.ret <= 0 /\ (reply.ret = 0 => reply.cqe)

(* The same with the timeouts that liburing prepares itself. *)
AlwaysReturnsCqeOrError ==
  reply.call \in {"peek", "wait", "wait_timeout"} =>
    reply.ret <= 0 /\ (reply.ret = 0 => reply.cqe)

(* A kernel thread that falls asleep while the program submits is woken by *)
(* that submit (queue.c:33) or sees the new tail itself: unless a call     *)
(* fails, every entry shown to it is taken.                                *)
NoLostWakeup ==
  \A op \in Data : sqpoll /\ ~faulty /\ op \in Range(Published) ~> op \notin Range(Published)

(* A wait with a timeout returns, with and without IORING_FEAT_EXT_ARG,    *)
(* for which the kernel must first have got the timeout's own entry.       *)
TimedWaitReturns ==
  ~faulty /\ (data.call \in {"wait_timeout", "submit_timeout"} \/ data.has_ts) ~> pc = "idle"
=============================================================================
