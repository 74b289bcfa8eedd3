---------------------------- MODULE GetPageModel -----------------------------
(***************************************************************************)
(* fast_net/src/models/get_page.hpp and memory_block.hpp: the messages of  *)
(* the get_page programs, their byte order and what a page holds.  A word  *)
(* has two digits to the base Digits where the code's has four bytes; on a *)
(* stream a message is a sequence of pieces.                               *)
(***************************************************************************)
EXTENDS Integers, Sequences

Digits == 4
htonl(word) == (word % Digits) * Digits + word \div Digits
ntohl(word) == htonl(word)

SUCCESS == 2
INVALID_PAGE_NUMBER == 4

(* GetPageRequest and GetPageResponseHeader swap every word they have. *)
to_network_order(message) == [field \in DOMAIN message |-> htonl(message[field])]
to_host_order(message) == [field \in DOMAIN message |-> ntohl(message[field])]

GetPageRequest(id, page) == [request_id |-> id, page_number |-> page]

(* What the server takes for the number of the page asked for. *)
PageOf(request) == to_host_order(request).page_number

(* The answer to a request read, both in network order, and its content.   *)
GetPageResponse(request, page_count) ==
  LET known == PageOf(request) < page_count
      host  == to_host_order(request)
  IN  [header |-> to_network_order(
                    [request_id |-> host.request_id, page_number |-> host.page_number,
                     status |-> IF known THEN SUCCESS ELSE INVALID_PAGE_NUMBER]),
       content |-> IF known THEN "AA" ELSE "FA"]

(* What PseudoRandomFillingStrategy fills every byte of every page with.   *)
get_value_at(page_number) == "AA"

verify(content, page_number, page_count) ==
  page_number < page_count /\ content = get_value_at(page_number)

(* Pieces on a stream: a request is two, a response its header and page.   *)
RequestPieces(request) == <<<<1, request>>, <<2, request>>>>
ResponsePieces(response) == <<<<1, response>>, <<2, response>>>>
IsWhole(pieces) == Len(pieces) = 2 /\ pieces[1][1] = 1 /\ pieces[2] = <<2, pieces[1][2]>>
=============================================================================
