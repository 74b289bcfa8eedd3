----------------------------- MODULE BufferPool -----------------------------
(***************************************************************************)
(* The buffers of one size of fast_net/src/buffer_pool.hpp: a ring of      *)
(* Capacity blocks and an index at which the search for a free one begins. *)
(* In STUPID_BUFFER_MODE there is one block, which is always handed out;   *)
(* the programs that use the pool model that mode by what it makes them    *)
(* share.                                                                  *)
(***************************************************************************)
EXTENDS Integers

CONSTANT Capacity        \* BUFFER_POOL_INITIAL_POOL_SIZE

ASSUME CapacityAssumption == Capacity \in Nat \ {0}

Blocks == 0 .. Capacity - 1
BufferStates == {"Free", "CheckedOut"}
Pools == [state : [Blocks -> BufferStates], next_index : Blocks]

NewPool == [state |-> [b \in Blocks |-> "Free"], next_index |-> 0]

FreeBlocks(pool) == {b \in Blocks : pool.state[b] = "Free"}

(* How far the search goes from next_index until it reaches block b. *)
Distance(pool, b) == (b - pool.next_index) % Capacity

(* The first free block from next_index on, around the end if need be.     *)
NextFree(pool) ==
  CHOOSE b \in FreeBlocks(pool) :
    \A c \in FreeBlocks(pool) : Distance(pool, b) <= Distance(pool, c)

(* check_out throws std::bad_alloc unless there is a free block. *)
CanCheckOut(pool) == FreeBlocks(pool) # {}

(* Seeded fault: the search always begins with the first block. *)
CheckOutFromFirst(pool) ==
  [pool EXCEPT !.state[CHOOSE b \in FreeBlocks(pool) : \A c \in FreeBlocks(pool) : b <= c]
                 = "CheckedOut"]

CheckOut(pool) ==
  LET b == NextFree(pool)
  IN  [state |-> [pool.state EXCEPT ![b] = "CheckedOut"], next_index |-> (b + 1) % Capacity]

(* check_in does not ask who owns the block. *)
CheckIn(pool, b) == [pool EXCEPT !.state[b] = "Free"]
=============================================================================
