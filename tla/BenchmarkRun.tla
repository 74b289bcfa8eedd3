---------------------------- MODULE BenchmarkRun -----------------------------
(***************************************************************************)
(* main of io_uring_fast_net_new/src/client.cpp, client_s.cpp and          *)
(* server.cpp, around the threads that the other modules are about: load   *)
(* the configuration, start and join the threads, report the sums, save    *)
(* the configuration beside the report.  A run may be repeated from the    *)
(* environment that an earlier one saved.                                  *)
(***************************************************************************)
EXTENDS StaticConfig, FiniteSets, FiniteSetsExt

CONSTANTS
  Environments,          \* functions from keys to values, negative ones for text
  MaxCompleted,          \* bound: requests a thread completes
  MaxRuns                \* bound: runs, each from what the last one saved

VARIABLES
  pc,                    \* "load", "join", "save", "ended", "threw"
  env, config, saved,    \* environment, configuration, file ({}: none)
  running, results,      \* threads, and the requests each has completed
  report,                \* total and the number of threads it sums up
  first, runs            \* history: the first configuration, runs started

run == <<pc, env, config, saved, running, results, report, first, runs>>

None == <<>>

Init ==
  /\ pc = "load" /\ env \in Environments
  /\ config = None /\ saved = None
  /\ running = {} /\ results = None
  /\ report = [total |-> 0, threads |-> 0]
  /\ first = None /\ runs = 0

(* std::stoi throws on text, and nobody catches. *)
Load ==
  /\ pc = "load"
  /\ IF \E key \in DOMAIN env : env[key] < 0
     THEN pc' = "threw" /\ UNCHANGED <<config, running, results, first>>
     ELSE /\ config' = load_from_env(env)
          /\ running' = 0 .. config'.THREAD_COUNT - 1
          /\ results' = [t \in running' |-> 0]
          /\ first' = IF runs = 0 THEN config' ELSE first
          /\ pc' = "join"
  /\ runs' = runs + 1
  /\ UNCHANGED <<env, saved, report>>

(* A thread that cannot be set up leaves its result as it was, 0. *)
Thread(t) ==
  /\ pc = "join" /\ running' = running \ {t}
  /\ \E n \in 0 .. MaxCompleted : results' = [results EXCEPT ![t] = n]
  /\ UNCHANGED <<pc, env, config, saved, report, first, runs>>

Join ==
  /\ pc = "join" /\ running = {}
  /\ report' = [total   |-> MapThenSumSet(LAMBDA t : results[t], DOMAIN results),
                threads |-> Cardinality(DOMAIN results)]
  /\ pc' = "save"
  /\ UNCHANGED <<env, config, saved, running, results, first, runs>>

(* A file that cannot be opened or written is reported, no more. *)
Save ==
  /\ pc = "save"
  /\ saved' \in {saved, save_to_file(config)}
  /\ pc' = "ended"
  /\ UNCHANGED <<env, config, running, results, report, first, runs>>

Repeat ==
  /\ pc = "ended" /\ saved # None /\ runs < MaxRuns
  /\ env' = saved /\ pc' = "load"
  /\ UNCHANGED <<config, saved, running, results, report, first, runs>>

Terminated ==
  /\ pc = "threw" \/ (pc = "ended" /\ (saved = None \/ runs = MaxRuns))
  /\ UNCHANGED run

Main == Load \/ Join \/ Save

Next ==
  \/ Main \/ Repeat \/ Terminated
  \/ \E t \in running : Thread(t)

(***************************************************************************)
(* Properties.                                                             *)
(***************************************************************************)

Power(base, n) ==
  LET power[k \in Nat] == IF k = 0 THEN 1 ELSE base * power[k - 1]
  IN  power[n]

(* Repeating a run from what one saved multiplies the queue depth and the  *)
(* operations under way by the connections once more for every run saved   *)
(* on the way, keeps their ratio, which the rings rest on, and changes     *)
(* nothing else: it is the same run only with one connection per thread    *)
(* (static_config.cpp:29, 87).                                             *)
RepeatScalesAgain ==
  pc \in {"join", "save"} =>
    \E n \in IF runs = 1 THEN {0} ELSE 1 .. runs - 1 :
      LET again == Power(config.CONNECTIONS_PER_THREAD, n)
      IN  config = [first EXCEPT !.QUEUE_DEPTH = @ * again, !.INFLIGHT_OPS = @ * again]
=============================================================================
