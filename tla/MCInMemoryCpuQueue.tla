-------------------------- MODULE MCInMemoryCpuQueue --------------------------
(***************************************************************************)
(* InMemoryCpuQueue for TLC, over policies whose minimum, maximum, default *)
(* and pool size contradict each other in every way.                       *)
(***************************************************************************)
EXTENDS InMemoryCpuQueue

CONSTANTS j1, j2, j3

Jobs == Permutations(Job)

Options ==
  [total: {1, 3}, maxRunning: {1, 2}, default: {1, 2}, min: {1, 2}, max: {None, 1, 2}]

(* None, a negative number, one slot, and as many as the largest pool has. *)
Sizes == {None, -1, 1, 3}
===============================================================================
