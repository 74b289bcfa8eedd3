----------------------------- MODULE MCPrograms ------------------------------
(***************************************************************************)
(* The smaller programs, each on a small instance.                         *)
(***************************************************************************)
EXTENDS Programs

MCModes ==
  [registered : BOOLEAN, stupid : BOOLEAN, threads : {1}, requests : {3}]
    \cup {[registered |-> TRUE, stupid |-> FALSE, threads |-> 2, requests |-> 0]}

(* A .env file and an environment, of a client and of a server. *)
MCClientSources ==
  {<<[PAGE_COUNT |-> n], [NUM_REQUESTS |-> 4]>> : n \in {0, 2, 3}}
    \cup {<<[PORT |-> 65536], [HOST |-> 1]>>}
MCServerSources ==
  {<<[PAGE_COUNT |-> n], [HOST |-> 1]>> : n \in {0, 2, 3}}
    \cup {<<[PORT |-> 80], [PORT |-> 81]>>, <<[NUM_REQUESTS |-> -1], [NUM_REQUESTS |-> 4]>>}

MCRoutes == {<<>>, <<[destination |-> 7, gateway |-> 0], [destination |-> 0, gateway |-> 9]>>}

MCEnvironments ==
  {[CONNECTIONS_PER_THREAD |-> n, THREAD_COUNT |-> t, HALF_DUPLEX_MODE |-> 3] :
     n \in {1, 2, 4}, t \in {1, 2}}
    \cup {[QUEUE_DEPTH |-> 64, THREAD_COUNT |-> 2], [QUEUE_DEPTH |-> -1, THREAD_COUNT |-> 2]}
=============================================================================
