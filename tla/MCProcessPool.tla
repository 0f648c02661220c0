----------------------------- MODULE MCProcessPool -----------------------------
(***************************************************************************)
(* ProcessPool for TLC: every way to a schedule, for batches of up to six *)
(* tasks, the fifth of which may be a bad one, and pools of up to three    *)
(* processes.                                                              *)
(***************************************************************************)
EXTENDS ProcessPool

Batches ==
  [ tasks: {0, 1, 4, 6}, workers: {0, 2, 3}, backend: {"direct", "serial", "process"},
    device: {"cpu", "cuda"}, singly: BOOLEAN, chunkSize: {None, 2}, maxPending: {None, 1, 2} ]
===============================================================================
