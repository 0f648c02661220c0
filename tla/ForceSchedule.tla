----------------------------- MODULE ForceSchedule -----------------------------
(***************************************************************************)
(* How evaluate_forces_for_displacements (phonoflow/workflow/force_eval.py)*)
(* plans a batch of force tasks: which scheduler computes it, with how     *)
(* many processes, in chunks of which size, and how much of it may be      *)
(* submitted at a time (phonoflow_scheduler/process_pool.py).  Tasks are   *)
(* named by their index, from 1 on.                                        *)
(***************************************************************************)
EXTENDS SchedulerNumbers, Sequences

Parallel == {"process", "worker_queue"}

Schedule(r) ==
  LET asked == CleanPositiveInt(r.workers)
      cuda  == r.device = "cuda" /\ asked > 1
  IN [ tasks      |-> r.tasks,
       workers    |-> IF cuda \/ r.backend = "direct" THEN 1 ELSE asked,
       backend    |-> IF ~cuda /\ r.backend = "direct" THEN "direct"
                      ELSE IF ~cuda /\ r.backend \in Parallel /\ asked > 1 THEN r.backend
                      ELSE "serial",
       singly     |-> r.singly,       \* a model whose chunks are single tasks
       chunkSize  |-> r.chunkSize,    \* the configured ones, or None
       maxPending |-> r.maxPending ]

CeilDiv(a, b) == (a + b - 1) \div b

(* choose_chunk_size.                                                      *)
ChunkSize(p) ==
  IF p.chunkSize # None THEN CleanPositiveInt(p.chunkSize)
  ELSE IF p.singly THEN 1
  ELSE Larger(1, Smaller(16, CeilDiv(CleanPositiveInt(p.tasks),
                                     CleanPositiveInt(p.workers) * 8)))

(* choose_max_pending_tasks.                                               *)
MaxPending(workers, configured) ==
  IF configured # None THEN CleanPositiveInt(configured)
  ELSE CleanPositiveInt(workers) * 4

(* _chunk_tasks: the tasks 1 .. n in chunks; the last one may be shorter.  *)
Chunks(n, size) ==
  [c \in 1 .. CeilDiv(n, size) |->
     [i \in 1 .. Smaller(size, n - (c - 1) * size) |-> (c - 1) * size + i]]
===============================================================================
