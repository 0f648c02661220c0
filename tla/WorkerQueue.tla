------------------------------ MODULE WorkerQueue ------------------------------
(***************************************************************************)
(* evaluate_force_tasks_with_worker_queue of                               *)
(* phonoflow_scheduler/worker_queue.py: fixed worker processes pull single *)
(* tasks from a bounded queue and put their results into another; the      *)
(* parent feeds the one, empties the other and looks after the workers     *)
(* when it has waited for a result in vain.                                *)
(*                                                                         *)
(* The queues are multiprocessing's, which is not part of the repository:  *)
(* put blocks on a full queue, and a reader holds a lock while it waits    *)
(* for an item, which is never given back when it is killed then.  A       *)
(* worker that is killed before its result is written is killed, here,     *)
(* while it computes.                                                      *)
(***************************************************************************)
EXTENDS ForceSchedule, FiniteSets, SequencesExt

CONSTANTS
  Requests,        \* the batches and settings a workflow may ask for
  BadTasks,        \* the tasks whose evaluation raises
  BadFactories,    \* the workers that cannot set up a calculator
  Mortal,          \* the workers that may be killed
  StartsMayFail    \* whether the system may refuse to start a process

ASSUME QueueAssumption ==
  /\ \A r \in Requests : r.tasks \in Nat /\ r.workers \in Int /\ r.maxPending \in Int
  /\ StartsMayFail \in BOOLEAN

VARIABLES
  plan,            \* the schedule of the batch
  pc,              \* where the parent is
  submitted,       \* the tasks put into the queue are 1 .. submitted
  results,         \* the collected results, named by their tasks
  stops,           \* the stop marks put into the queue
  taskQueue,
  resultQueue,     \* what the workers report: [ok, task]
  worker,          \* the state of every worker process
  task,            \* the task it computes, or Stop
  locked           \* a killed worker took the lock of the task queue with it

parentVars == <<submitted, results, stops>>
vars == <<plan, pc, parentVars, taskQueue, resultQueue, worker, task, locked>>

Stop == 0

Workers == 1 .. Smaller(plan.workers, Larger(1, plan.tasks))
Limit   == MaxPending(Cardinality(Workers), plan.maxPending)

Alive == {w \in Workers : worker[w] \in {"starting", "idle", "busy"}}
Over  == pc \in {"returned", "raised"}

(* A serial loop if there is one worker, or none to do anything.           *)
Init ==
  /\ \E r \in Requests : plan = Schedule(r) /\ plan.backend = "worker_queue"
  /\ pc = IF Cardinality(Workers) = 1 THEN "serial" ELSE "starting"
  /\ submitted = 0
  /\ results = <<>>
  /\ stops = 0
  /\ taskQueue = <<>>
  /\ resultQueue = <<>>
  /\ worker = [w \in Workers |-> "none"]
  /\ task = [w \in Workers |-> Stop]
  /\ locked = FALSE

-------------------------------------------------------------------------------
(* The parent.                                                             *)

SerialStep ==
  /\ pc = "serial"
  /\ LET t == Len(results) + 1
     IN \/ /\ t > plan.tasks
           /\ pc' = "returned"
           /\ UNCHANGED <<results, worker>>
        \/ /\ t <= plan.tasks /\ t \notin BadTasks
           /\ results' = Append(results, t)
           /\ UNCHANGED <<pc, worker>>
        \/ /\ plan.tasks > 0
           /\ t \in (1 .. plan.tasks) \cap BadTasks \/ (t = 1 /\ 1 \in BadFactories)
           /\ pc' = "raised"
           /\ worker' = [worker EXCEPT ![1] = "failed"]
           /\ UNCHANGED results
  /\ UNCHANGED <<plan, submitted, stops, taskQueue, resultQueue, task, locked>>

(* The processes are started one after the other, before the try block: if *)
(* one cannot be, those before it are left running.                        *)
StartWorker ==
  /\ pc = "starting"
  /\ \E w \in Workers :
       /\ worker[w] = "none" /\ \A v \in Workers : v < w => worker[v] # "none"
       /\ \/ /\ worker' = [worker EXCEPT ![w] = "starting"]
             /\ pc' = IF \A v \in Workers : v <= w THEN "submitting" ELSE "starting"
          \/ /\ StartsMayFail
             /\ worker' = [worker EXCEPT ![w] = "refused"]
             /\ pc' = "raised"
  /\ UNCHANGED <<plan, parentVars, taskQueue, resultQueue, task, locked>>

(* Slips: one task too many, the limit missed by one.                      *)
RoomPastTheEnd ==
  /\ submitted <= plan.tasks
  /\ submitted - Len(results) < Limit

RoomForOneMore ==
  /\ submitted < plan.tasks
  /\ submitted - Len(results) <= Limit

(* The inner loop's condition.                                             *)
RoomForTask ==
  /\ submitted < plan.tasks
  /\ submitted - Len(results) < Limit

Put ==
  /\ pc = "submitting" /\ RoomForTask
  /\ Len(taskQueue) < Limit
  /\ taskQueue' = Append(taskQueue, submitted + 1)
  /\ submitted' = submitted + 1
  /\ UNCHANGED <<plan, pc, results, stops, resultQueue, worker, task, locked>>

EndPut ==
  /\ pc = "submitting" /\ ~RoomForTask
  /\ pc' = "collecting"
  /\ UNCHANGED <<plan, parentVars, taskQueue, resultQueue, worker, task, locked>>

(* The finally clause of a loop that raised: whoever is alive is           *)
(* terminated.                                                             *)
Terminated == [w \in Workers |-> IF w \in Alive THEN "terminated" ELSE worker[w]]

Get ==
  /\ pc = "collecting" /\ resultQueue # <<>>
  /\ resultQueue' = Tail(resultQueue)
  /\ \/ /\ Head(resultQueue).ok
        /\ results' = Append(results, Head(resultQueue).task)
        /\ pc' = IF Len(results) + 1 = plan.tasks THEN "stopping" ELSE "submitting"
        /\ UNCHANGED worker
     \/ /\ ~Head(resultQueue).ok
        /\ pc' = "raised"
        /\ worker' = Terminated
        /\ UNCHANGED results
  /\ UNCHANGED <<plan, submitted, stops, taskQueue, task, locked>>

(* queue.Empty after 0.1 s ...                                             *)
GetInVain ==
  /\ pc = "collecting" /\ resultQueue = <<>>
  /\ pc' = "checking"
  /\ UNCHANGED <<plan, parentVars, taskQueue, resultQueue, worker, task, locked>>

(* A slip: only a pool without any worker left is given up.                *)
ExitedAll == \A w \in Workers : worker[w] = "killed"

(* ... and _raise_if_worker_exited, which is about exit codes other than   *)
(* 0: a worker that was stopped, or that reported an exception, has 0.     *)
Exited == \E w \in Workers : worker[w] = "killed"

(* A slip: what has not come by now is submitted again.                    *)
CheckAndResubmit ==
  /\ pc = "checking"
  /\ IF Exited THEN pc' = "raised" /\ worker' = Terminated /\ UNCHANGED submitted
     ELSE pc' = "submitting" /\ submitted' = Len(results) /\ UNCHANGED worker
  /\ UNCHANGED <<plan, results, stops, taskQueue, resultQueue, task, locked>>

CheckWorkers ==
  /\ pc = "checking"
  /\ IF Exited THEN pc' = "raised" /\ worker' = Terminated
     ELSE pc' = "submitting" /\ UNCHANGED worker
  /\ UNCHANGED <<plan, parentVars, taskQueue, resultQueue, task, locked>>

(* The finally clause of a loop that has all the results: a stop mark for  *)
(* every worker, dead or alive, ...                                        *)
PutStop ==
  /\ pc = "stopping"
  /\ Len(taskQueue) < Limit
  /\ taskQueue' = Append(taskQueue, Stop)
  /\ stops' = stops + 1
  /\ pc' = IF stops' = Cardinality(Workers) THEN "joining" ELSE "stopping"
  /\ UNCHANGED <<plan, submitted, results, resultQueue, worker, task, locked>>

(* A slip: nobody is terminated after the joins.                           *)
JoinOnly ==
  /\ pc = "joining"
  /\ pc' = "returned"
  /\ UNCHANGED <<plan, parentVars, taskQueue, resultQueue, worker, task, locked>>

(* ... a join with a timeout for each, and those that are still alive are  *)
(* terminated.                                                             *)
Join ==
  /\ pc = "joining"
  /\ pc' = "returned"
  /\ worker' = Terminated
  /\ UNCHANGED <<plan, parentVars, taskQueue, resultQueue, task, locked>>

-------------------------------------------------------------------------------
(* _worker_loop.                                                           *)

Report(w, ok, state) ==
  /\ resultQueue' = Append(resultQueue, [ok |-> ok, task |-> task[w]])
  /\ worker' = [worker EXCEPT ![w] = state]
  /\ task' = [task EXCEPT ![w] = Stop]
  /\ UNCHANGED <<plan, pc, parentVars, taskQueue, locked>>

MakeCalculator(w) ==
  /\ worker[w] = "starting"
  /\ \/ /\ w \notin BadFactories
        /\ worker' = [worker EXCEPT ![w] = "idle"]
        /\ UNCHANGED <<plan, pc, parentVars, taskQueue, resultQueue, task, locked>>
     \/ w \in BadFactories /\ Report(w, FALSE, "failed")

Take(w) ==
  /\ worker[w] = "idle" /\ taskQueue # <<>> /\ ~locked
  /\ taskQueue' = Tail(taskQueue)
  /\ task' = [task EXCEPT ![w] = Head(taskQueue)]
  /\ worker' = [worker EXCEPT ![w] = IF Head(taskQueue) = Stop THEN "stopped" ELSE "busy"]
  /\ UNCHANGED <<plan, pc, parentVars, resultQueue, locked>>

(* A slip: a worker goes on after a task that raised.                      *)
ComputeAndGoOn(w) ==
  /\ worker[w] = "busy"
  /\ IF task[w] \in BadTasks
     THEN /\ worker' = [worker EXCEPT ![w] = "idle"]
          /\ task' = [task EXCEPT ![w] = Stop]
          /\ UNCHANGED <<plan, pc, parentVars, taskQueue, resultQueue, locked>>
     ELSE Report(w, TRUE, "idle")

(* The first exception is reported and ends the worker.                    *)
Compute(w) ==
  /\ worker[w] = "busy"
  /\ IF task[w] \in BadTasks THEN Report(w, FALSE, "failed")
                             ELSE Report(w, TRUE, "idle")

(* A worker is killed, or dies of something that is no Exception.          *)
Killed(w) ==
  /\ w \in Mortal /\ w \in Alive /\ ~Over
  /\ worker' = [worker EXCEPT ![w] = "killed"]
  /\ locked' \in {locked, worker[w] = "idle" \/ locked}
  /\ UNCHANGED <<plan, pc, parentVars, taskQueue, resultQueue, task>>

Parent ==
  \/ SerialStep \/ StartWorker \/ Put \/ EndPut \/ Get \/ GetInVain
  \/ CheckWorkers \/ PutStop \/ Join

WorkerStep(w) == MakeCalculator(w) \/ Take(w) \/ Compute(w)

Done == Over /\ UNCHANGED vars

Next ==
  \/ Parent
  \/ \E w \in Workers : WorkerStep(w) \/ Killed(w)
  \/ Done

Spec == Init /\ [][Next]_vars

(* The parent and the workers keep running, and every evaluation ends.     *)
FairSpec ==
  /\ Spec
  /\ WF_vars(Parent)
  /\ WF_vars(\E w \in Workers : WorkerStep(w))
-------------------------------------------------------------------------------
TypeOK ==
  /\ plan.tasks \in Nat /\ plan.workers \in Nat \ {0}
  /\ pc \in {"serial", "starting", "submitting", "collecting", "checking",
             "stopping", "joining", "returned", "raised"}
  /\ submitted \in 0 .. plan.tasks
  /\ results \in Seq(1 .. plan.tasks)
  /\ stops \in 0 .. Cardinality(Workers)
  /\ taskQueue \in Seq(0 .. plan.tasks)
  /\ resultQueue \in Seq([ok: BOOLEAN, task: 0 .. plan.tasks])
  /\ worker \in [Workers -> {"none", "starting", "idle", "busy", "stopped",
                             "failed", "killed", "refused", "terminated"}]
  /\ task \in [Workers -> 0 .. plan.tasks]
  /\ locked \in BOOLEAN

(* A submitted task is in one place: in the queue, with one worker, in one *)
(* report or in the results; so nothing is computed twice, and only a      *)
(* worker that died takes a task with it.                                  *)
Places(t) ==
  Cardinality({i \in DOMAIN taskQueue : taskQueue[i] = t})
  + Cardinality({w \in Workers : task[w] = t})
  + Cardinality({i \in DOMAIN resultQueue : resultQueue[i].task = t})
  + Cardinality({i \in DOMAIN results : results[i] = t})

TasksConserved ==
  Cardinality(Workers) > 1 =>
    \A t \in 1 .. plan.tasks :
      \/ t <= submitted /\ Places(t) = 1
      \/ t > submitted /\ Places(t) = 0
      \/ pc = "raised" /\ Places(t) = 0

(* The parent never blocks on a full queue when it puts a task, where it   *)
(* would notice neither results nor dead workers.                          *)
PutNeverBlocks ==
  pc = "submitting" /\ RoomForTask => Len(taskQueue) < Limit

(* Once all the processes were started, none outlives the call.            *)
NoWorkerLeft ==
  Over /\ (\A w \in Workers : worker[w] # "refused") => Alive = {}

(* The scheduler collects every task once, returns when it has all of them *)
(* and raises for a reason.                                                *)
Batch == INSTANCE ForceBatch
           WITH size    <- plan.tasks,
                trouble <- \E w \in Workers : worker[w] \in {"failed", "killed", "refused"},
                outcome <- IF Over THEN pc ELSE "computing"

IsForceBatch == Batch!Spec

(* Every batch comes to an end, whatever fails and dies meanwhile.         *)
BatchEnds == <>Over
===============================================================================
