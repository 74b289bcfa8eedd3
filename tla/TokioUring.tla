----------------------------- MODULE TokioUring ------------------------------
(***************************************************************************)
(* rust_io_uring_demo/client/src/main.rs and server/src/main.rs: tasks of  *)
(* the server write pages to one connection without end, tasks of the      *)
(* client read it until their time is over.  Reads and writes may be       *)
(* short; every read counts as a page.  A runtime is one thread: tasks     *)
(* interleave where they await.                                            *)
(***************************************************************************)
EXTENDS Integers, FiniteSets, FiniteSetsExt, Counting

CONSTANTS
  Parallel,              \* PARALLEL_READS and PARALLEL_WRITES
  PageSize,              \* pieces of a page
  Capacity,              \* pieces the connection holds
  MaxWritten,            \* bound: pieces written before the time is over
  Faults                 \* a subset of {"connect", "accept", "reset"}

VARIABLES
  main,                  \* of the client: "connect", "join_all", "reported", "panicked"
  readers,               \* "none", "check", "read", "lock", "done"
  bytes_read,            \* by the last read of each task
  total_bytes, total_pages,  \* stats
  expired,               \* Instant::now() >= end_time
  server,                \* "accept", "panicked"
  writers,               \* "none", "write", "done"
  written, unread,       \* pieces
  conn                   \* "none", "queued", "open", "closed", "reset"

tokio == <<main, readers, bytes_read, total_bytes, total_pages, expired, server, writers,
           written, unread, conn>>

Tasks == 1 .. Parallel
All(state) == [t \in Tasks |-> state]

Init ==
  /\ main = "connect" /\ readers = All("none") /\ bytes_read = All(0)
  /\ total_bytes = 0 /\ total_pages = 0 /\ expired = FALSE
  /\ server = "accept" /\ writers = All("none")
  /\ written = 0 /\ unread = 0 /\ conn = "none"

(***************************************************************************)
(* The client.                                                             *)
(***************************************************************************)

Connect ==
  /\ main = "connect"
  /\ \/ /\ server = "accept"
        /\ main' = "join_all" /\ readers' = All("check") /\ conn' = "queued"
     \/ /\ "connect" \in Faults \/ server = "panicked"
        /\ main' = "panicked" /\ UNCHANGED <<readers, conn>>
  /\ UNCHANGED <<bytes_read, total_bytes, total_pages, expired, server, writers, written, unread>>

Goes(t, state) == readers' = [readers EXCEPT ![t] = state]

CheckTime(t) ==
  /\ readers[t] = "check"
  /\ Goes(t, IF expired THEN "done" ELSE "read")
  /\ UNCHANGED <<main, bytes_read, total_bytes, total_pages, expired, server, writers, written,
                 unread, conn>>

Ended == {"closed", "reset"}

Read(t) ==
  /\ readers[t] = "read"
  /\ \/ \E n \in 1 .. Min({unread, PageSize}) :
          /\ bytes_read' = [bytes_read EXCEPT ![t] = n]
          /\ unread' = unread - n
          /\ Goes(t, "lock")
     \/ /\ unread = 0 /\ conn \in Ended
        /\ Goes(t, "done") /\ UNCHANGED <<bytes_read, unread>>
  /\ UNCHANGED <<main, total_bytes, total_pages, expired, server, writers, written, conn>>

Added(t) == total_bytes + bytes_read[t]

(* The lock is never held across an await.                                 *)
Lock(t) ==
  /\ readers[t] = "lock"
  /\ total_bytes' = Added(t) /\ total_pages' = total_pages + 1
  /\ bytes_read' = [bytes_read EXCEPT ![t] = 0]
  /\ Goes(t, "check")
  /\ UNCHANGED <<main, expired, server, writers, written, unread, conn>>

(* The process ends, and with it its connection.                           *)
JoinAll ==
  /\ main = "join_all" /\ readers = All("done")
  /\ main' = "reported"
  /\ conn' = IF conn = "reset" THEN conn ELSE "closed"
  /\ UNCHANGED <<readers, bytes_read, total_bytes, total_pages, expired, server, writers,
                 written, unread>>

Tick ==
  /\ main = "join_all" /\ ~expired /\ expired' = TRUE
  /\ UNCHANGED <<main, readers, bytes_read, total_bytes, total_pages, server, writers, written,
                 unread, conn>>

Client == Connect \/ JoinAll \/ Tick

(***************************************************************************)
(* The server.                                                             *)
(***************************************************************************)

Accept ==
  /\ server = "accept"
  /\ \/ /\ conn = "queued"
        /\ conn' = "open" /\ writers' = All("write")
     \/ /\ conn = "closed" /\ writers = All("none")
        /\ writers' = All("write") /\ UNCHANGED conn
  /\ UNCHANGED <<server, main, readers, bytes_read, total_bytes, total_pages, expired, written, unread>>

(* A failed accept ends the process. *)
AcceptFails ==
  /\ server = "accept" /\ "accept" \in Faults
  /\ server' = "panicked" /\ writers' = All("done")
  /\ conn' = IF conn \in {"queued", "open"} THEN "reset" ELSE conn
  /\ UNCHANGED <<main, readers, bytes_read, total_bytes, total_pages, expired, written, unread>>

(* Seeded fault: a task stays after an error. *)
AfterErrorStays(t) == [writers EXCEPT ![t] = "write"]

AfterError(t) == [writers EXCEPT ![t] = "done"]

(* A short write is not completed: the next one starts with a new page.    *)
Write(t) ==
  /\ writers[t] = "write"
  /\ \/ /\ conn = "open" /\ (expired \/ written < MaxWritten)
        /\ \E n \in 1 .. Min({PageSize, Capacity - unread}) :
             unread' = unread + n /\ written' = written + n
        /\ UNCHANGED writers
     \/ /\ conn \in Ended
        /\ writers' = AfterError(t) /\ UNCHANGED <<unread, written>>
  /\ UNCHANGED <<main, readers, bytes_read, total_bytes, total_pages, expired, server, conn>>

Reset ==
  /\ "reset" \in Faults /\ conn = "open" /\ conn' = "reset"
  /\ UNCHANGED <<main, readers, bytes_read, total_bytes, total_pages, expired, server, writers,
                 written, unread>>

Task(t) == CheckTime(t) \/ Read(t) \/ Lock(t) \/ Write(t)

Next == Client \/ Accept \/ AcceptFails \/ Reset \/ \E t \in Tasks : Task(t)

(***************************************************************************)
(* Properties.                                                             *)
(***************************************************************************)

(* Whatever the tasks' order, what is counted, read but not counted and    *)
(* not read yet is all that was written, and no read counts for more than  *)
(* a page.                                                                 *)
StatsAgree ==
  /\ total_bytes + Total(bytes_read) + unread = written
  /\ total_bytes <= total_pages * PageSize

(* The client reports although its readers look at the time only between   *)
(* reads, and then the server's writers end.                               *)
Over == main \in {"reported", "panicked"} /\ \A t \in Tasks : writers[t] # "write"
BothEnd == <>Over
=============================================================================
