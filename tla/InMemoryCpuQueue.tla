--------------------------- MODULE InMemoryCpuQueue ---------------------------
(***************************************************************************)
(* InMemoryCpuQueue of phonoflow_scheduler/cpu_queue.py: the same          *)
(* transitions as the file queue under one policy and one caller, in any   *)
(* order the caller likes.  Nothing expires and nobody waits here; the     *)
(* policy comes from raw options through from_values.                      *)
(***************************************************************************)
EXTENDS CpuQueueState

CONSTANTS RawOptions,   \* the option values a queue may be built from
          Asks,         \* the slots a caller may ask for, None included
          MaxIssued     \* bound on the leases ever given out

ASSUME OptionsAssumption ==
  /\ \A o \in RawOptions : {o.total, o.maxRunning, o.default, o.min, o.max} \subseteq Int
  /\ Asks \subseteq Int

VARIABLES config, queue

vars == <<config, queue>>

Init ==
  /\ \E o \in RawOptions :
       config = FromValues(o.total, o.maxRunning, o.default, o.min, o.max)
  /\ queue = EmptyQueue

(* CpuQueueJobRequest.new raises what is asked for to one slot at least.   *)
Submit(job, slots) ==
  /\ queue.issued + Len(queue.pending) < MaxIssued
  /\ queue' = Enqueue(queue, job, CleanPositiveInt(IF slots = None THEN config.defaultSlots
                                                                  ELSE slots))
  /\ UNCHANGED config

(* acquire_for_job starts what it can, whether the job asked about gets a  *)
(* lease by that or the call raises TimeoutError.                          *)
Acquire ==
  /\ queue' = TryStart(queue, config)
  /\ UNCHANGED config

(* A slip: nobody is started with the slots that become free.              *)
ReleaseOnly(id) ==
  /\ queue' = LET mine == {l \in queue.leases : l.id = id}
              IN IF mine = {} THEN queue
                 ELSE MarkDone(queue, (CHOOSE l \in mine : TRUE).job, "finished")
  /\ UNCHANGED config

(* A caller may release a lease it released before.                        *)
Release(id) ==
  LET freed == ReleaseLease(queue, id)
      mine  == {l \in queue.leases : l.id = id}
  IN /\ queue' = TryStart(IF mine = {} THEN freed
                          ELSE MarkDone(freed, (CHOOSE l \in mine : TRUE).job, "finished"),
                          config)
     /\ UNCHANGED config

(* cancel looks at the pending requests only and starts nobody.            *)
Cancel(job) ==
  /\ queue' = CancelPending(queue, job)
  /\ UNCHANGED config

Next ==
  \/ \E job \in Job, slots \in Asks : Submit(job, slots)
  \/ Acquire
  \/ \E id \in 1 .. MaxIssued : Release(id)
  \/ \E job \in Job : Cancel(job)

Spec == Init /\ [][Next]_vars
-------------------------------------------------------------------------------
(* Every lease is as large as the policy wants leases to be: no larger     *)
(* than its maximum and the pool, and no smaller than its minimum unless   *)
(* the pool is, whatever was asked for and however the raw options         *)
(* contradicted each other.                                                *)
AllocationsFit ==
  \A l \in queue.leases :
    /\ l.slots <= config.total
    /\ config.maxSlots # None => l.slots <= config.maxSlots
    /\ l.slots >= Smaller(config.minSlots, config.total)

(* The leases together stay within the pool and the number of jobs, and    *)
(* nobody is left waiting in front of slots it fits into once the leases   *)
(* changed.                                                                *)
FreeSlotsAreUsed ==
  [][queue'.leases # queue.leases =>
       /\ UsedSlots(queue'.leases) <= config.total
       /\ Cardinality(queue'.leases) <= config.maxRunning
       /\ queue'.pending # <<>> => ~CanStart(queue', 1, config)]_vars

(* A request never needs more than an empty pool offers: whoever is first  *)
(* in line can start once everybody before it is gone.                     *)
HeadFitsEmptyPool ==
  queue.leases = {} /\ queue.pending # <<>> => CanStart(queue, 1, config)

(* The closed form of try_start_next_jobs starts whom the loop starts, and *)
(* leaves the same file.                                                   *)
StartsLikeTheLoop == TryStart(queue, config) = StartWhilePossible(queue, config)
===============================================================================
