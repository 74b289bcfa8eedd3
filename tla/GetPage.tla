------------------------------ MODULE GetPage -------------------------------
(***************************************************************************)
(* fast_net/src/client.cpp and server.cpp: one request at a time, each     *)
(* with its page, over a connection served by a thread of its own.  The    *)
(* server takes a request to arrive in one read; the client never compares *)
(* the answer with its question, and goes on with the next request on the  *)
(* same connection when an answer is incomplete.                           *)
(*                                                                         *)
(* The two programs read configurations of their own.  Connections share   *)
(* only constant data, so one is modelled.                                 *)
(***************************************************************************)
EXTENDS GetPageModel, StaticConfig, FiniteSets

CONSTANTS
  ClientSources,         \* a .env file and an environment of the client
  ServerSources,         \* and of the server
  Faults                 \* a subset of {"setup", "accept", "split", "reset"}

VARIABLES
  client_config, server_config,
  pc,                    \* of the client: "load_config", "connect", "send", "read", "check",
                         \* or how it ended: "returned", "failed", "threw", "killed"
  i, response,           \* request id, pieces of the response read so far
  correct, incorrect,    \* correct_responses, incorrect_responses
  unsent, lost,          \* requests given up before and after they were sent
  up, down,              \* pieces on the connection that are not read yet
  conn,                  \* "none", "queued", "open", or what is left: "client closed",
                         \* "server closed", "reset" (the error is not reported yet),
                         \* "broken" (reset after the server closed), "dead"
  main, thread           \* of the server

client == <<client_config, pc, i, response, correct, incorrect, unsent, lost>>
getpage == <<client, server_config, up, down, conn, main, thread>>

Ended == {"returned", "failed", "threw", "killed"}

Init ==
  /\ client_config \in {load_config(s[1], s[2]) : s \in ClientSources}
  /\ server_config \in {load_config(s[1], s[2]) : s \in ServerSources}
  /\ pc = "load_config" /\ i = 0 /\ response = <<>>
  /\ correct = 0 /\ incorrect = 0 /\ unsent = 0 /\ lost = 0
  /\ up = <<>> /\ down = <<>> /\ conn = "none"
  /\ main = IF server_config.throws THEN "exited" ELSE "accept"
  /\ thread = "none"

num_requests == client_config.config.NUM_REQUESTS
page_count == client_config.config.PAGE_COUNT

(***************************************************************************)
(* The client.                                                             *)
(***************************************************************************)

Load ==
  /\ pc = "load_config"
  /\ pc' = IF client_config.throws THEN "threw" ELSE "connect"
  /\ UNCHANGED <<client_config, i, response, correct, incorrect, unsent, lost,
                 server_config, up, down, conn, main, thread>>

Listening == main = "accept" /\ client_config.config.PORT = server_config.config.PORT

Connect ==
  /\ pc = "connect"
  /\ \/ Listening /\ pc' = "send" /\ conn' = "queued"
     \/ /\ ~Listening \/ "setup" \in Faults
        /\ pc' = "failed" /\ UNCHANGED conn
  /\ UNCHANGED <<client_config, i, response, correct, incorrect, unsent, lost,
                 server_config, up, down, main, thread>>

Request == GetPageRequest(i, i % page_count)

(* A reset is reported once; after it, or after the server closed first,   *)
(* a send ends the process with SIGPIPE.                                   *)
Send ==
  /\ pc = "send" /\ i < num_requests
  /\ IF page_count = 0 \/ conn \in {"broken", "dead"}
     THEN /\ pc' = "killed"
          /\ UNCHANGED <<i, unsent, response, up, conn>>
     ELSE IF conn = "reset"
     THEN /\ i' = i + 1 /\ unsent' = unsent + 1 /\ conn' = "dead"
          /\ UNCHANGED <<pc, response, up>>
     ELSE /\ pc' = "read" /\ response' = <<>>
          /\ IF conn = "server closed"
             THEN conn' = "broken" /\ UNCHANGED up
             ELSE up' = up \o RequestPieces(to_network_order(Request)) /\ UNCHANGED conn
          /\ UNCHANGED <<i, unsent>>
  /\ UNCHANGED <<client_config, correct, incorrect, lost, server_config, down, main, thread>>

(* Seeded fault: what the last read brought is checked as the response. *)
ReadAfterOne(pieces) == "check"

ReadAfter(pieces) == IF Len(pieces) = 2 THEN "check" ELSE "read"

Read ==
  /\ pc = "read"
  /\ \/ \E n \in 1 .. Len(down) :
          /\ n <= 2 - Len(response)
          /\ response' = response \o SubSeq(down, 1, n)
          /\ down' = SubSeq(down, n + 1, Len(down))
          /\ pc' = ReadAfter(response')
          /\ UNCHANGED <<conn, i, lost>>
     \/ /\ down = <<>> /\ conn \in {"server closed", "broken", "reset", "dead"}
        /\ conn' = IF conn = "reset" THEN "dead" ELSE conn
        /\ lost' = lost + 1 /\ i' = i + 1 /\ pc' = "send"
        /\ UNCHANGED <<response, down>>
  /\ UNCHANGED <<client_config, correct, incorrect, unsent, server_config, up, main, thread>>

Check ==
  /\ pc = "check"
  /\ LET header  == to_host_order(response[1][2].header)
         content == response[2][2].content
     IN  IF header.status = SUCCESS /\ verify(content, header.page_number, page_count)
         THEN correct' = correct + 1 /\ UNCHANGED incorrect
         ELSE incorrect' = incorrect + 1 /\ UNCHANGED correct
  /\ i' = i + 1 /\ pc' = "send"
  /\ UNCHANGED <<client_config, response, unsent, lost, server_config, up, down, conn, main,
                 thread>>

Return ==
  /\ pc = "send" /\ i = num_requests
  /\ pc' = "returned"
  /\ conn' = IF conn \in {"queued", "open"} THEN "client closed" ELSE conn
  /\ UNCHANGED <<client_config, i, response, correct, incorrect, unsent, lost,
                 server_config, up, down, main, thread>>

Client == Load \/ Connect \/ Send \/ Read \/ Check \/ Return

(***************************************************************************)
(* The server.                                                             *)
(***************************************************************************)

(* What is not read when a socket is closed, or comes later, resets the    *)
(* connection.                                                             *)
CloseSocket(unread) ==
  /\ up' = <<>>
  /\ conn' \in IF conn \notin {"queued", "open"} THEN {conn}
               ELSE IF unread = <<>> THEN {"server closed"} ELSE {"broken", "reset"}

Accept ==
  /\ main = "accept" /\ thread = "none" /\ conn \in {"queued", "client closed"}
  /\ conn' = IF conn = "queued" THEN "open" ELSE conn
  /\ thread' = "handle_client"
  /\ UNCHANGED <<client, server_config, up, down, main>>

AcceptFails ==
  /\ main = "accept" /\ "accept" \in Faults
  /\ main' = "exited" /\ thread' = "closed"
  /\ CloseSocket(up)
  /\ UNCHANGED <<client, server_config, down>>

ReadRequest(n) == n = Len(up) \/ "split" \in Faults

HandleClient ==
  /\ thread = "handle_client"
  /\ \/ \E n \in 1 .. Len(up) :
          LET pieces == SubSeq(up, 1, n)
              unread == SubSeq(up, n + 1, Len(up))
          IN  /\ n <= 2 /\ ReadRequest(n)
              /\ IF IsWhole(pieces)
                 THEN /\ up' = unread
                      /\ down' = IF conn = "open"
                                 THEN down \o ResponsePieces(
                                        GetPageResponse(pieces[1][2],
                                                        server_config.config.PAGE_COUNT))
                                 ELSE down
                      /\ UNCHANGED <<thread, conn>>
                 ELSE CloseSocket(unread) /\ thread' = "closed" /\ UNCHANGED down
     \/ /\ up = <<>> /\ conn \in {"client closed", "reset", "dead"}
        /\ thread' = "closed" /\ CloseSocket(<<>>)
        /\ UNCHANGED down
  /\ UNCHANGED <<client, server_config, main>>

(* The network: the connection breaks down, and what was on it is lost.    *)
Reset ==
  /\ "reset" \in Faults /\ conn = "open"
  /\ conn' = "reset" /\ up' = <<>>
  /\ \E n \in 0 .. Len(down) : down' = SubSeq(down, 1, n)
  /\ UNCHANGED <<client, server_config, main, thread>>

Terminated == pc \in Ended /\ thread # "handle_client" /\ UNCHANGED getpage

Next == Client \/ Accept \/ AcceptFails \/ HandleClient \/ Reset \/ Terminated

(***************************************************************************)
(* Properties.                                                             *)
(***************************************************************************)

(* The response that is checked answers the request under way, though the  *)
(* client goes on after incomplete ones (client.cpp:82): it is whole, one  *)
(* answer's, and has the request's id and page, in either byte order.      *)
ResponseIsOwn ==
  pc = "check" =>
    /\ IsWhole(response)
    /\ LET header == to_host_order(response[1][2].header)
       IN  header.request_id = i /\ header.page_number = i % page_count

(* Between requests nothing is left on a connection that still works.      *)
StreamsAligned == pc = "send" /\ conn \in {"queued", "open"} => up = <<>> /\ down = <<>>

(* The report adds up, and is exact when nothing was lost: the pages the   *)
(* server has too are correct, the others incorrect.                       *)
ReportAddsUp ==
  /\ pc = "send" => correct + incorrect + unsent + lost = i
  /\ pc = "returned" /\ unsent + lost = 0 =>
       correct = Cardinality({k \in 0 .. num_requests - 1 :
                                k % page_count < server_config.config.PAGE_COUNT})

(* SIGPIPE or an empty page range end the client, the former only after a  *)
(* request has been lost or could not be sent.                             *)
KilledAfterLoss == pc = "killed" => page_count = 0 \/ unsent + lost > 0

(* The client ends, whatever the server and the network do.                *)
Over == pc \in Ended
ClientEnds == <>Over
=============================================================================
