---------------------------- MODULE StaticConfig -----------------------------
(***************************************************************************)
(* How the programs come by their configuration:                           *)
(*                                                                         *)
(*   fast_net/src/static_config.hpp: a file of lines KEY=value, over it    *)
(*     the environment, under both the defaults of the program;            *)
(*   io_uring_fast_net_new/src/static_config.cpp: the environment alone,   *)
(*     with queue_depth and inflight_ops scaled by the connections, and    *)
(*     saved beside the results when a run is over.                        *)
(*                                                                         *)
(* A file and an environment are functions from the keys they hold; a      *)
(* switch is saved as the 0 or 1 it was taken for.                         *)
(* Negative values stand for text that std::stoul and std::stoi refuse.    *)
(***************************************************************************)
EXTENDS Integers

get_env_var(env, key, default) == IF key \in DOMAIN env THEN env[key] ELSE default

(***************************************************************************)
(* fast_net                                                                *)
(***************************************************************************)

Default == [PORT |-> 8888, NUM_REQUESTS |-> 10, PAGE_COUNT |-> 1024, CLIENT_THREADS |-> 4]

(* A file may hold keys that are unknown: they are warned about. *)
parse_env_line(file) == [key \in DOMAIN file \cap DOMAIN Default |-> file[key]]

in_port_t(port) == port % 2^16

(* A line of the file is converted even if the environment overrides it.   *)
load_config(file, env) ==
  LET lines  == parse_env_line(file)
      config == [key \in DOMAIN Default |->
                   get_env_var(env, key, get_env_var(lines, key, Default[key]))]
      taken  == [config EXCEPT !.PORT = in_port_t(@)]
  IN  IF \/ \E key \in DOMAIN lines : lines[key] < 0
         \/ \E key \in DOMAIN Default : config[key] < 0
         \/ taken.PORT = 0 \/ taken.NUM_REQUESTS = 0
      THEN [throws |-> TRUE]
      ELSE [throws |-> FALSE, config |-> taken]

(***************************************************************************)
(* io_uring_fast_net_new                                                   *)
(***************************************************************************)

DefaultOfRun == [QUEUE_DEPTH |-> 512, INFLIGHT_OPS |-> 256, THREAD_COUNT |-> 4,
                 CONNECTIONS_PER_THREAD |-> 4, PORT |-> 12345, HALF_DUPLEX_MODE |-> 1]
Switches == {"HALF_DUPLEX_MODE"}

(* Seeded fault: the operations under way are not scaled. *)
ScaledDepthOnly(values) ==
  [values EXCEPT !.QUEUE_DEPTH = @ * values.CONNECTIONS_PER_THREAD]

Scaled(values) ==
  [values EXCEPT !.QUEUE_DEPTH = @ * values.CONNECTIONS_PER_THREAD,
                 !.INFLIGHT_OPS = @ * values.CONNECTIONS_PER_THREAD]

load_from_env(env) ==
  Scaled([key \in DOMAIN DefaultOfRun |->
            LET value == get_env_var(env, key, DefaultOfRun[key])
            IN  IF key \in Switches /\ value # 0 THEN 1 ELSE value])

(* What was scaled is saved as it is, to be scaled again when loaded. *)
save_to_file(config) == config
=============================================================================
