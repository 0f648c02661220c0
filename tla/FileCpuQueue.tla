----------------------------- MODULE FileCpuQueue -----------------------------
(***************************************************************************)
(* The file-locked CPU queue of phonoflow_scheduler/cpu_queue_filelock.py  *)
(* as the processes that share its state directory use it: each client is  *)
(* one `phonoflow single --cpu-queue` process (cli.py), which submits its  *)
(* job, polls until it gets a lease or gives up, runs the workflow inside  *)
(* cpu_job_guard and releases the lease.  Every step below is one critical *)
(* section under flock, or one local event; between two of them any other  *)
(* process may run.  A process that dies inside a critical section loses   *)
(* the lock and leaves the old file or the new one (the file is replaced   *)
(* by a rename), which is a crash before or after the step.                *)
(***************************************************************************)
EXTENDS CpuQueueState

CONSTANTS
  Client,          \* the processes
  JobOf,           \* the job a client works for
  Requested,       \* the slots it asks for
  Config,          \* the queue policy it was started with
  UserWorkers,     \* its --force-workers, or None
  HasTimeout,      \* the clients that wait with a deadline
  AdminConfig,     \* the policy of the process that asks for a status or cancels
  MayCrash,        \* the clients that may die without clean-up
  MayOutlive,      \* the clients whose job may run longer than stale_lease_s
  Cancellable,     \* the jobs someone may cancel
  MaxLosses        \* bound on the times the state file is lost

ASSUME ClientAssumption ==
  /\ JobOf \in [Client -> Job]
  /\ Requested \in [Client -> Nat \ {0}]
  /\ Config \in [Client -> Policy]
  /\ UserWorkers \in [Client -> Nat]
  /\ AdminConfig \in Policy
  /\ MaxLosses \in Nat

VARIABLES
  queue,           \* the state file
  overdue,         \* the ids of the leases in force whose expires_at has passed
  pc,              \* where each client is
  held,            \* the lease the client was handed
  losses           \* how often the state file was lost

vars == <<queue, overdue, pc, held, losses>>

NoLease == [id |-> 0, slots |-> 0]

(* "queued": submitted, not polled yet.  "waiting": a poll found no lease; *)
(* the client sleeps, or is about to give up.                              *)
ClientStates == {"new", "queued", "waiting", "running",
                 "done", "refused", "timedOut", "crashed"}

Init ==
  /\ queue = EmptyQueue
  /\ overdue = {}
  /\ pc = [c \in Client |-> "new"]
  /\ held = [c \in Client |-> NoLease]
  /\ losses = 0

-------------------------------------------------------------------------------
(* A critical section leaves q in the file.                                *)
Write(q) ==
  /\ queue' = q
  /\ overdue' = {i \in overdue : \E l \in q.leases : l.id = i}
  /\ UNCHANGED losses

Goto(c, state) == pc' = [pc EXCEPT ![c] = state]

(* submit_request, called before the guard.                                *)
Submit(c) ==
  /\ pc[c] = "new"
  /\ Write(IF StatusOf(queue, JobOf[c]) \in {"queued", "running"} THEN queue
           ELSE Enqueue(queue, JobOf[c], Requested[c]))
  /\ Goto(c, "queued")
  /\ UNCHANGED held

(* One turn of the loop of acquire_for_job.  Leases that are overdue go;   *)
(* a job that is over already is refused; a job the queue knows nothing    *)
(* about is enqueued, and whatever can start is started.                   *)
(* (\E q \in {e} names the value of e; TLC evaluates e once.)              *)
Polling(c) == pc[c] \in {"queued", "waiting"}

Expired == ExpireStale(queue, overdue)

EnsureKnown(q, c) ==
  IF StatusOf(q, JobOf[c]) = "absent" /\ ~HasLease(q, JobOf[c])
  THEN Enqueue(q, JobOf[c], Config[c].defaultSlots) ELSE q

(* A slip: only a finished job is refused.                                 *)
IsFinished(q, job) == StatusOf(q, job) = "finished" /\ ~HasLease(q, job)

IsOver(q, job) == StatusOf(q, job) \in Terminal /\ ~HasLease(q, job)

PollRefused(c, expired) ==
  /\ IsOver(expired, JobOf[c])
  /\ Write(expired)
  /\ Goto(c, "refused")
  /\ UNCHANGED held

PollGranted(c, started) ==
  /\ HasLease(started, JobOf[c])
  /\ Write(started)
  /\ \E l \in {LeaseOf(started, JobOf[c])} :
       held' = [held EXCEPT ![c] = [id |-> l.id, slots |-> l.slots]]
  /\ Goto(c, "running")

PollWaits(c, started) ==
  /\ ~HasLease(started, JobOf[c])
  /\ Write(started)
  /\ Goto(c, "waiting")
  /\ UNCHANGED held

Poll(c) ==
  /\ Polling(c)
  /\ \E expired \in {Expired} :
       \/ PollRefused(c, expired)
       \/ /\ ~IsOver(expired, JobOf[c])
          /\ \E known \in {EnsureKnown(expired, c)} :
             \E count \in {StartCount(known, Config[c])} :
             \E started \in {StartFirst(known, count, Config[c])} :
               PollGranted(c, started) \/ PollWaits(c, started)

(* The deadline passed after a poll in vain.  The verdict is written in a  *)
(* critical section of its own, without another look at the leases.        *)
GiveUp(c) ==
  /\ pc[c] = "waiting"
  /\ c \in HasTimeout
  /\ Write(MarkTimeout(queue, JobOf[c]))
  /\ Goto(c, "timedOut")
  /\ UNCHANGED held

(* A slip: the next jobs are started, but the lease is not given back.     *)
ReleaseNothing(c) ==
  /\ pc[c] = "running"
  /\ Write(TryStart(queue, Config[c]))
  /\ Goto(c, "done")
  /\ held' = [held EXCEPT ![c] = NoLease]

(* The guard's finally clause: the workflow returned or raised.            *)
Release(c) ==
  /\ pc[c] = "running"
  /\ LET freed == ReleaseLease(queue, held[c].id)
         mine  == {l \in queue.leases : l.id = held[c].id}
     IN \E ended \in {IF mine = {} THEN freed
                      ELSE MarkDone(freed, (CHOOSE l \in mine : TRUE).job, "finished")} :
          \E started \in {TryStart(ended, Config[c])} : Write(started)
  /\ Goto(c, "done")
  /\ held' = [held EXCEPT ![c] = NoLease]

(* A slip: a running job loses its lease, but its record stays.            *)
CancelLeaseOnly(job) ==
  /\ job \in Cancellable
  /\ LET gone == IF HasLease(queue, job)
                 THEN ReleaseLease(queue, LeaseOf(queue, job).id)
                 ELSE CancelPending(queue, job)
     IN Write(TryStart(gone, AdminConfig))
  /\ UNCHANGED <<pc, held>>

(* cancel, whoever calls it.                                               *)
Cancel(job) ==
  /\ job \in Cancellable
  /\ LET gone == IF HasLease(queue, job)
                 THEN MarkDone(ReleaseLease(queue, LeaseOf(queue, job).id), job, "failed")
                 ELSE CancelPending(queue, job)
     IN Write(TryStart(gone, AdminConfig))
  /\ UNCHANGED <<pc, held>>

(* status, user_status and admin_status write as well as read.             *)
Status ==
  /\ Write(TryStart(Expired, AdminConfig))
  /\ UNCHANGED <<pc, held>>

(* The process is killed, or interrupted while it waits: nothing it put    *)
(* into the file is taken back.                                            *)
Crash(c) ==
  /\ c \in MayCrash
  /\ pc[c] \in {"queued", "waiting", "running"}
  /\ Goto(c, "crashed")
  /\ held' = [held EXCEPT ![c] = NoLease]
  /\ UNCHANGED <<queue, overdue, losses>>

(* stale_lease_s has passed since the lease was given out.                 *)
BecomeOverdue(l) ==
  /\ l \in queue.leases
  /\ l.id \notin overdue
  /\ \A c \in Client \ MayOutlive : pc[c] = "running" => held[c].id # l.id
  /\ overdue' = overdue \cup {l.id}
  /\ UNCHANGED <<queue, pc, held, losses>>

(* The file is deleted or unreadable: _read_state starts from nothing.     *)
LoseState ==
  /\ losses < MaxLosses
  /\ losses' = losses + 1
  /\ queue' = [EmptyQueue EXCEPT !.issued = queue.issued]
  /\ overdue' = {}
  /\ UNCHANGED <<pc, held>>

ClientStep(c) ==
  Submit(c) \/ Poll(c) \/ GiveUp(c) \/ Release(c) \/ Crash(c)

Next ==
  \/ \E c \in Client : ClientStep(c)
  \/ \E job \in Job : Cancel(job)
  \/ Status
  \/ \E l \in queue.leases : BecomeOverdue(l)
  \/ LoseState

Spec == Init /\ [][Next]_vars

(* A client that waits goes on polling, a workflow ends some time, and     *)
(* time passes.  Nobody has to submit, to ask for a status, to give up, to *)
(* cancel or to crash.                                                     *)
Fairness ==
  /\ \A c \in Client : WF_vars(Poll(c)) /\ WF_vars(Release(c))
  /\ WF_vars(\E l \in queue.leases : BecomeOverdue(l))

FairSpec == Spec /\ Fairness
-------------------------------------------------------------------------------
(* A slip: the user's number of workers wins over the lease.               *)
ForceWorkersAsAsked(c) ==
  IF UserWorkers[c] = None THEN held[c].slots ELSE UserWorkers[c]

(* The force workers a running client may start: what it asked for, within *)
(* what it was allocated (_run_single_workflow_with_optional_cpu_queue).   *)
ForceWorkers(c) ==
  IF UserWorkers[c] = None THEN held[c].slots
  ELSE Smaller(UserWorkers[c], held[c].slots)

Running  == {c \in Client : pc[c] = "running"}
Policies == {Config[c] : c \in Client} \cup {AdminConfig}

TypeOK ==
  /\ queue.pending \in Seq(Request)
  /\ queue.leases \subseteq Lease
  /\ IsFiniteSet(queue.leases)
  /\ queue.issued \in Nat
  /\ overdue \subseteq Nat
  /\ pc \in [Client -> ClientStates]
  /\ held \in [Client -> [id: Nat, slots: Nat]]
  /\ losses \in 0 .. MaxLosses

(* A job is in the queue once, as a waiting request or as the holder of    *)
(* one lease, and no two leases have the same id: what enqueue_request     *)
(* checks for, kept by every other path through the file.                  *)
QueueConsistent ==
  /\ \A i, k \in DOMAIN queue.pending :
       queue.pending[i].job = queue.pending[k].job => i = k
  /\ \A l, m \in queue.leases : l.job = m.job \/ l.id = m.id => l = m
  /\ \A l \in queue.leases : l.job \notin PendingJobs(queue) /\ l.id <= queue.issued

(* The leases in the file never take more slots, nor are they more, than   *)
(* the largest policy allows that any of the processes was started with.   *)
LeasesWithinPool ==
  /\ \E cfg \in Policies : Cardinality(queue.leases) <= cfg.maxRunning
  /\ \E cfg \in Policies : UsedSlots(queue.leases) <= cfg.total

(* A workflow that runs has its lease in the file: nobody else was given   *)
(* its slots while it runs.                                                *)
RunningHoldsLease ==
  \A c \in Running :
    [id |-> held[c].id, job |-> JobOf[c], slots |-> held[c].slots] \in queue.leases

(* What the queue is for: the workflows that really run, and the force     *)
(* workers they may start, are within the pool.                            *)
WorkersWithinPool ==
  /\ \E cfg \in Policies : Cardinality(Running) <= cfg.maxRunning
  /\ \E cfg \in Policies :
       Cardinality(UNION {{c} \X (1 .. ForceWorkers(c)) : c \in Running}) <= cfg.total

(* The log of recent records has records in it, no more than its limit,    *)
(* and calls a job "running" only while it has a lease: a job that is not  *)
(* running any more but is recorded so would be neither refused nor queued *)
(* again, and acquire_for_job would poll for it for ever.                  *)
RecordsBacked ==
  /\ queue.completed \in Seq(Record)
  /\ Len(queue.completed) <= RecentLimit
  /\ \A i \in DOMAIN queue.completed :
       queue.completed[i].status = "running" => HasLease(queue, queue.completed[i].job)

(* The log tells the truth about an end: "finished" is recorded only for a *)
(* job whose workflow came back, "timeout" only for one whose client gave  *)
(* up, "cancelled" only for one that may be cancelled.                     *)
RecordsHonest ==
  \A i \in DOMAIN queue.completed :
    LET r    == queue.completed[i]
        ends == {pc[c] : c \in {d \in Client : JobOf[d] = r.job}}
    IN /\ r.status = "finished"  => "done" \in ends
       /\ r.status = "timeout"   => "timedOut" \in ends
       /\ r.status = "cancelled" => r.job \in Cancellable

(* Who can still give a lease back: a lease that nobody waits for or runs  *)
(* under was left by a client that crashed, or by one that gave up in the  *)
(* moment another process started its job.                                 *)
LeasesAccountedFor ==
  \A l \in queue.leases :
    \E c \in Client :
      /\ JobOf[c] = l.job
      /\ \/ pc[c] \in {"queued", "waiting", "crashed", "timedOut"}
         \/ pc[c] = "running" /\ held[c].id = l.id

(* Lines and holders of the abstract pool.                                 *)
Pool == INSTANCE FifoSlotPool
          WITH Limits  <- Policies,
               waiting <- [i \in DOMAIN queue.pending |-> queue.pending[i].job],
               holders <- {[job |-> l.job, slots |-> l.slots] : l \in queue.leases}

(* The queue is first come, first served, without backfill, and admits     *)
(* nobody beyond the limits of the process that does it, in every step.    *)
ServesInOrder == Pool!Spec

(* Every client that waits is handed a lease, is refused or gives up,      *)
(* however many others crash before it in the line or under their leases.  *)
WaitersServed ==
  \A c \in Client : Polling(c) ~> ~Polling(c)
===============================================================================
