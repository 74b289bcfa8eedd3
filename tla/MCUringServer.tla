--------------------------- MODULE MCUringServer ---------------------------
(* The instances of UringServer that TLC checks: two connections.          *)
EXTENDS UringServer

TwoConnections == <<7, 8>>

(* Clients that leave, with an operation refused or with more messages;    *)
(* and faults of the worker's calls and operations.                        *)
ThreeScenarios ==
  {[faults |-> {"accept"}, leaving |-> {8}, refusals |-> 1, messages |-> 1],
   [faults |-> {"accept"}, leaving |-> {8}, refusals |-> 0, messages |-> 2],
   [faults |-> {"submit", "wait", "error"}, leaving |-> {}, refusals |-> 0, messages |-> 1]}

(* Nothing goes wrong, and all clients stay. *)
Undisturbed == {[faults |-> {}, leaving |-> {}, refusals |-> 0, messages |-> 2]}
============================================================================
