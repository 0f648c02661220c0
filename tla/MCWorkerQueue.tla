----------------------------- MODULE MCWorkerQueue -----------------------------
(***************************************************************************)
(* WorkerQueue for TLC: batches of up to four tasks and up to three        *)
(* workers.  Ample is what the default bound of the task queue amounts to: *)
(* room for a stop mark for every worker.                                  *)
(***************************************************************************)
EXTENDS WorkerQueue

Batches(counts, bounds) ==
  [ tasks: counts, workers: {1, 2, 3}, backend: {"worker_queue"},
    device: {"cpu"}, singly: {FALSE}, chunkSize: {None}, maxPending: bounds ]

Ample  == Batches({0, 1, 3, 4}, {None, 3})
Narrow == Batches({3, 4}, {1, 2})
===============================================================================
