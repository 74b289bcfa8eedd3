----------------------------- MODULE SeastarDemo -----------------------------
(***************************************************************************)
(* dpdk_seastar_demo/src/simple_dpkd_client.cpp and simple_dpkd_server.cpp:*)
(* the client writes all its requests and starts two reads of a page for   *)
(* each; the server sends one page for each.  Futures of one stream are    *)
(* taken to be served in the order they were made.                         *)
(***************************************************************************)
EXTENDS Integers, Sequences, SequencesExt

CONSTANTS
  Requests,              \* end - start of start_client
  Faults                 \* a subset of {"connect", "reset", "server ends"}

VARIABLES
  client,                \* "connect", "when_all", "done", "failed"
  futures,               \* of read_exactly, in order: resolved, and with which halves
  flushing,              \* requests written and not flushed
  up, down,              \* halves of requests and pages on the connection
  conn,                  \* "none", "open", "reset", "closed" by the client, "server ends"
  listener,              \* service_loop: "accepting", "connected"
  handler,               \* handle_connection: "none", "repeat", "stopped"
  partial                \* halves its read_exactly has so far

seastar == <<client, futures, flushing, up, down, conn, listener, handler, partial>>

Halves(number) == <<<<1, number>>, <<2, number>>>>

Init ==
  /\ client = "connect" /\ futures = <<>> /\ flushing = <<>>
  /\ up = <<>> /\ down = <<>> /\ conn = "none"
  /\ listener = "accepting" /\ handler = "none" /\ partial = <<>>

(***************************************************************************)
(* start_client                                                            *)
(***************************************************************************)

ReadsPerRequest == 2

(* All futures are made before the reactor runs again.                     *)
StartClient ==
  /\ client = "connect"
  /\ \/ /\ "connect" \in Faults /\ client' = "failed"
        /\ UNCHANGED <<futures, flushing, conn>>
     \/ /\ client' = "when_all" /\ conn' = "open"
        /\ flushing' = [k \in 1 .. Requests |-> k - 1]
        /\ futures' = [k \in 1 .. ReadsPerRequest * Requests |-> [resolved |-> FALSE, halves |-> <<>>]]
  /\ UNCHANGED <<up, down, listener, handler, partial>>

Flush ==
  /\ client = "when_all" /\ flushing # <<>>
  /\ flushing' = Tail(flushing)
  /\ up' = IF conn = "open" THEN up \o Halves(Head(flushing)) ELSE up
  /\ UNCHANGED <<client, futures, down, conn, listener, handler, partial>>

Resolved == {k \in DOMAIN futures : futures[k].resolved}

(* A page, or at the end of the stream what is left of it.                 *)
ReadExactly ==
  /\ client = "when_all" /\ Resolved # DOMAIN futures
  /\ Len(down) >= 2 \/ conn = "server ends"
  /\ LET next == CHOOSE k \in DOMAIN futures \ Resolved : k - 1 \in Resolved \cup {0}
         n    == IF Len(down) < 2 THEN Len(down) ELSE 2
     IN  /\ futures' = [futures EXCEPT ![next] =
                           [resolved |-> TRUE, halves |-> SubSeq(down, 1, n)]]
         /\ down' = SubSeq(down, n + 1, Len(down))
  /\ UNCHANGED <<client, flushing, up, conn, listener, handler, partial>>

WhenAll ==
  /\ client = "when_all"
  /\ \/ Resolved = DOMAIN futures /\ flushing = <<>> /\ client' = "done"
     \/ conn \in {"reset", "server ends"} /\ client' = "failed"
  /\ conn' = IF conn = "open" THEN "closed" ELSE conn
  /\ UNCHANGED <<futures, flushing, up, down, listener, handler, partial>>

Client == StartClient \/ Flush \/ ReadExactly \/ WhenAll

(***************************************************************************)
(* service_loop and handle_connection                                      *)
(***************************************************************************)

Accept ==
  /\ listener = "accepting" /\ conn # "none"
  /\ listener' = "connected" /\ handler' = "repeat"
  /\ UNCHANGED <<client, futures, flushing, up, down, conn, partial>>

(* Seeded fault: the page is answered before the request is whole. *)
AnswersHalf(halves) == Halves(halves[1][2])

Answers(halves) == IF Len(halves) = 2 THEN Halves(halves[1][2]) ELSE <<>>

HandleConnection ==
  /\ handler = "repeat"
  /\ \/ /\ up # <<>> /\ up' = Tail(up)
        /\ LET halves == Append(partial, Head(up))
           IN  /\ down' = IF conn = "open" THEN down \o Answers(halves) ELSE down
               /\ partial' = IF Len(halves) = 2 THEN <<>> ELSE halves
        /\ UNCHANGED handler
     \/ /\ up = <<>> /\ conn \in {"closed", "reset", "server ends"}
        /\ handler' = "stopped" /\ partial' = <<>>
        /\ UNCHANGED <<up, down>>
  /\ UNCHANGED <<client, futures, flushing, conn, listener>>

(* The connection breaks down, or the server's process ends. *)
Lost ==
  /\ conn = "open" /\ conn' \in Faults \cap {"reset", "server ends"}
  /\ up' = <<>>
  /\ UNCHANGED <<client, futures, flushing, down, listener, handler, partial>>

Next == Client \/ Accept \/ HandleConnection \/ Lost

(***************************************************************************)
(* Properties.                                                             *)
(***************************************************************************)

Served == {k \in Resolved : futures[k].halves # <<>>}

(* Every read that is served has one page, whole, and it is the page of    *)
(* the request of that position, whatever arrives in halves.               *)
PagesInOrder == \A k \in Served : futures[k].halves = Halves(k - 1)

(* There are twice as many reads as pages (simple_dpkd_client.cpp:30): the *)
(* client succeeds only when the server's end has served the rest.         *)
HalfIsNeverServed ==
  /\ client = "done" => conn = "server ends"
  /\ Served \subseteq 1 .. Requests

(* Every page comes, unless the connection does not last.                  *)
Over == client = "failed" \/ conn \in {"reset", "server ends"} \/ Served = 1 .. Requests
PagesCome == <>Over
=============================================================================
