------------------------------ MODULE ProcessPool ------------------------------
(***************************************************************************)
(* evaluate_force_tasks of phonoflow_scheduler/process_pool.py: a batch of *)
(* force tasks, cut into chunks, computed one by one in this process or by *)
(* a ProcessPoolExecutor that is handed a bounded number of chunks at a    *)
(* time.  (The "direct" backend of force_eval.py is the same loop in this  *)
(* process without the chunks.)                                            *)
(*                                                                         *)
(* The executor is not part of the repository: it starts the chunks in the *)
(* order they were submitted, on at most as many processes as it was given;*)
(* once a process dies, or cannot set up its calculator, it is broken: all *)
(* its futures fail, and submit raises.  Leaving its context waits for the *)
(* futures that are left.                                                  *)
(***************************************************************************)
EXTENDS ForceSchedule, FiniteSets, SequencesExt

CONSTANTS
  Requests,        \* the batches and settings a workflow may ask for
  BadTasks,        \* the tasks whose evaluation raises
  MayBreak         \* whether a calculator or a process of the pool may fail

ASSUME PoolAssumption ==
  /\ \A r \in Requests : r.tasks \in Nat /\ r.workers \in Int
                         /\ r.chunkSize \in Int /\ r.maxPending \in Int
  /\ MayBreak \in BOOLEAN

VARIABLES
  plan,            \* the schedule of the batch
  pc,              \* where the parent is
  next,            \* the next chunk to submit
  pending,         \* the chunks whose futures the parent waits for
  batch,           \* the futures of the last wait it has not looked at yet
  future,          \* the state of every chunk's future
  results,         \* the results so far, named by their tasks
  broken           \* the pool broke, or the loop in this process raised

vars == <<plan, pc, next, pending, batch, future, results, broken>>

Work  == Chunks(plan.tasks, ChunkSize(plan))
Limit == MaxPending(plan.workers, plan.maxPending)

Unfinished == {c \in DOMAIN future : future[c] \in {"queued", "running"}}
Finished   == {c \in DOMAIN future : future[c] \in {"done", "failed"}}
Over       == pc \in {"returned", "raised"}

Init ==
  /\ \E r \in Requests : plan = Schedule(r) /\ plan.backend # "worker_queue"
  /\ pc = IF plan.backend = "process" THEN "filling" ELSE "serial"
  /\ next = 1
  /\ pending = {}
  /\ batch = {}
  /\ future = [c \in DOMAIN Work |-> "new"]
  /\ results = <<>>
  /\ broken = FALSE

-------------------------------------------------------------------------------
(* The loop in this process.                                               *)
SerialStep ==
  /\ pc = "serial"
  /\ LET task == Len(results) + 1
     IN \/ /\ task > plan.tasks
           /\ pc' = "returned"
           /\ UNCHANGED <<results, broken>>
        \/ /\ task <= plan.tasks /\ task \notin BadTasks
           /\ results' = Append(results, task)
           /\ UNCHANGED <<pc, broken>>
        \/ /\ task \in 1 .. plan.tasks \cap BadTasks \/ (task = 1 /\ MayBreak)
           /\ pc' = "raised"
           /\ broken' = TRUE
           /\ UNCHANGED results
  /\ UNCHANGED <<plan, next, pending, batch, future>>

-------------------------------------------------------------------------------
(* A slip: a pool that refuses a chunk is asked again.                     *)
FillRetrying ==
  /\ pc = "filling"
  /\ \/ /\ next <= Len(Work) /\ Cardinality(pending) < Limit
        /\ future' = IF broken THEN future ELSE [future EXCEPT ![next] = "queued"]
        /\ pending' = IF broken THEN pending ELSE pending \cup {next}
        /\ next' = IF broken THEN next ELSE next + 1
        /\ UNCHANGED pc
     \/ /\ next > Len(Work) \/ Cardinality(pending) >= Limit
        /\ pc' = IF pending = {} THEN "leaving" ELSE "waiting"
        /\ UNCHANGED <<future, pending, next>>
  /\ UNCHANGED <<plan, batch, results, broken>>

(* _fill_pending: submit until there are enough pending or no chunks left; *)
(* a broken pool refuses.                                                  *)
Fill ==
  /\ pc = "filling"
  /\ \/ /\ next <= Len(Work) /\ Cardinality(pending) < Limit /\ ~broken
        /\ future' = [future EXCEPT ![next] = "queued"]
        /\ pending' = pending \cup {next}
        /\ next' = next + 1
        /\ UNCHANGED pc
     \/ /\ next <= Len(Work) /\ Cardinality(pending) < Limit /\ broken
        /\ pc' = "raising"
        /\ UNCHANGED <<future, pending, next>>
     \/ /\ next > Len(Work) \/ Cardinality(pending) >= Limit
        /\ pc' = IF pending = {} THEN "leaving" ELSE "waiting"
        /\ UNCHANGED <<future, pending, next>>
  /\ UNCHANGED <<plan, batch, results, broken>>

(* wait(pending, FIRST_COMPLETED).                                         *)
Wait ==
  /\ pc = "waiting"
  /\ pending \cap Finished # {}
  /\ batch' = pending \cap Finished
  /\ pc' = "collecting"
  /\ UNCHANGED <<plan, next, pending, future, results, broken>>

(* Slips: a future is looked at without being popped; the futures that came*)
(* in together with this one are let go.                                   *)
CollectWithoutPop ==
  /\ pc = "collecting"
  /\ \E c \in batch :
       /\ batch' = batch \ {c}
       /\ \/ /\ future[c] = "done"
             /\ results' = results \o Work[c]
             /\ pc' = IF batch = {c} THEN "filling" ELSE "collecting"
          \/ /\ future[c] = "failed"
             /\ pc' = "raising"
             /\ UNCHANGED results
  /\ UNCHANGED <<plan, next, pending, future, broken>>

CollectOneOfBatch ==
  /\ pc = "collecting"
  /\ \E c \in batch :
       /\ pending' = pending \ batch
       /\ batch' = {}
       /\ \/ /\ future[c] = "done"
             /\ results' = results \o Work[c]
             /\ pc' = "filling"
          \/ /\ future[c] = "failed"
             /\ pc' = "raising"
             /\ UNCHANGED results
  /\ UNCHANGED <<plan, next, future, broken>>

(* One turn of the loop over the futures that are done, in any order.  The *)
(* first exception leaves the others where they are.                       *)
Collect ==
  /\ pc = "collecting"
  /\ \E c \in batch :
       /\ pending' = pending \ {c}
       /\ batch' = batch \ {c}
       /\ \/ /\ future[c] = "done"
             /\ results' = results \o Work[c]
             /\ pc' = IF batch = {c} THEN "filling" ELSE "collecting"
          \/ /\ future[c] = "failed"
             /\ pc' = "raising"
             /\ UNCHANGED results
  /\ UNCHANGED <<plan, next, future, broken>>

(* A slip: the exception is not held up by the work that is left.          *)
LeaveAtOnce ==
  /\ pc \in {"leaving", "raising"}
  /\ pc' = IF pc = "leaving" THEN "returned" ELSE "raised"
  /\ UNCHANGED <<plan, next, pending, batch, future, results, broken>>

(* The executor's context is left, after a loop that ended or that raised. *)
Leave ==
  /\ pc \in {"leaving", "raising"}
  /\ Unfinished = {}
  /\ pc' = IF pc = "leaving" THEN "returned" ELSE "raised"
  /\ UNCHANGED <<plan, next, pending, batch, future, results, broken>>

-------------------------------------------------------------------------------
(* The executor.                                                           *)
Start ==
  LET queued  == {c \in Unfinished : future[c] = "queued"}
      running == Unfinished \ queued
  IN /\ Cardinality(running) < plan.workers
     /\ \E c \in queued :
          /\ \A d \in queued : c <= d
          /\ future' = [future EXCEPT ![c] = "running"]
     /\ UNCHANGED <<plan, pc, next, pending, batch, results, broken>>

(* _worker_calculate_chunk: the first task that raises fails its chunk.    *)
Finish(c) ==
  /\ future[c] = "running"
  /\ future' = [future EXCEPT ![c] =
                  IF \E i \in DOMAIN Work[c] : Work[c][i] \in BadTasks
                  THEN "failed" ELSE "done"]
  /\ UNCHANGED <<plan, pc, next, pending, batch, results, broken>>

(* A process dies, or _init_worker raises in it.                           *)
Break ==
  /\ MayBreak /\ ~broken /\ ~Over
  /\ next > 1
  /\ broken' = TRUE
  /\ future' = [c \in DOMAIN future |->
                  IF c \in Unfinished THEN "failed" ELSE future[c]]
  /\ UNCHANGED <<plan, pc, next, pending, batch, results>>

Parent   == SerialStep \/ Fill \/ Wait \/ Collect \/ Leave
Executor == Start \/ \E c \in DOMAIN future : Finish(c)
Done     == Over /\ UNCHANGED vars

Next == Parent \/ Executor \/ Break \/ Done

Spec     == Init /\ [][Next]_vars
FairSpec == Spec /\ WF_vars(Parent) /\ WF_vars(Executor)
-------------------------------------------------------------------------------
(* As long as nothing failed, a submitted chunk is either waited for or    *)
(* its results are in, and never both: none gets lost among the futures    *)
(* that complete while the parent looks at others.                         *)
EveryChunkAccounted ==
  pc \in {"filling", "waiting", "collecting", "leaving"} =>
    /\ next - 1 = Cardinality(pending \cup {c \in DOMAIN Work : Work[c][1] \in ToSet(results)})
    /\ \A c \in pending : ToSet(Work[c]) \cap ToSet(results) = {}

(* When the batch is over, whichever way, no chunk of it is computed any   *)
(* more: the workflow can use its slots for something else.                *)
QuietWhenOver == Over => Unfinished = {}

(* The pool collects every task once, returns when it has all of them and  *)
(* raises for a reason.                                                    *)
Batch == INSTANCE ForceBatch
           WITH size    <- plan.tasks,
                trouble <- broken \/ \E c \in DOMAIN future : future[c] = "failed",
                outcome <- IF Over THEN pc ELSE "computing"

IsForceBatch == Batch!Spec

(* Every batch comes to an end, whatever fails and dies meanwhile.         *)
BatchEnds == <>Over
===============================================================================
