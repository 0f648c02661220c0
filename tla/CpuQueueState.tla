----------------------------- MODULE CpuQueueState -----------------------------
(***************************************************************************)
(* The pure transitions of phonoflow_scheduler/cpu_queue_state.py: each    *)
(* takes the value of the queue's state file and returns the next one.     *)
(*                                                                         *)
(*   pending    the queued requests, head first                            *)
(*   leases     the leases in force; ids are given out in increasing order *)
(*              and stand for the random ones of the code, so the order of *)
(*              the code's list is the order of the ids                    *)
(*   completed  completed_recent, oldest first; an entry is written when a *)
(*              job gets its lease ("running") and when it is over         *)
(*   issued     how many leases were ever given out                        *)
(*                                                                         *)
(* The counts stored in the file are left out: _recount derives them from  *)
(* the leases on every read and every change.                              *)
(***************************************************************************)
EXTENDS CpuQueueConfig, Sublists, SequencesExt

CONSTANTS Job,           \* the job identifiers
          RecentLimit    \* the length completed_recent is trimmed to

ASSUME RecentLimitAssumption == RecentLimit \in Nat \ {0}

Request == [job: Job, slots: Nat \ {0}]
Lease   == [id: Nat \ {0}, job: Job, slots: Nat \ {0}]

Terminal == {"finished", "failed", "cancelled", "timeout"}
Record   == [job: Job, status: Terminal \cup {"running"}]

EmptyQueue == [pending |-> <<>>, leases |-> {}, completed |-> <<>>, issued |-> 0]

-------------------------------------------------------------------------------
(* Lookups.                                                                *)

PendingJobs(q)  == {q.pending[i].job : i \in DOMAIN q.pending}
HasLease(q, job) == \E l \in q.leases : l.job = job
LeaseOf(q, job)  == CHOOSE l \in q.leases : l.job = job

(* _request_or_completed: the pending requests first, then the recent      *)
(* records from the oldest on; the status it finds, or "absent".           *)
StatusOf(q, job) ==
  LET at == SelectInSeq(q.completed, LAMBDA r : r.job = job)
  IN IF job \in PendingJobs(q) THEN "queued"
     ELSE IF at = 0 THEN "absent" ELSE q.completed[at].status

(* The slots a set of leases takes, counted one (lease, slot) at a time:   *)
(* the sum of their allocated_slots.                                       *)
SlotsOf(L)   == UNION {{l.id} \X (1 .. l.slots) : l \in L}
UsedSlots(L) == Cardinality(SlotsOf(L))

WithoutJobs(pending, J) ==
  KeepAt(pending, {i \in DOMAIN pending : pending[i].job \notin J})

-------------------------------------------------------------------------------
(* The log of recent records.                                              *)

TrimRecent(log) ==
  IF Len(log) <= RecentLimit THEN log
  ELSE SubSeq(log, Len(log) - RecentLimit + 1, Len(log))

(* A record added without a look at the job's earlier ones ...             *)
AddRecord(log, job, status) ==
  TrimRecent(Append(log, [job |-> job, status |-> status]))

(* ... and one that takes their place.                                     *)
OtherRecords(log, job) ==
  LET others[n \in 0 .. Len(log)] ==
        IF n = 0 THEN <<>>
        ELSE IF log[n].job = job THEN others[n - 1] ELSE Append(others[n - 1], log[n])
  IN others[Len(log)]

ReplaceRecord(log, job, status) == AddRecord(OtherRecords(log, job), job, status)

(* The log after such a record of each of the jobs, one after the other.   *)
ReplaceRecords(log, jobs, status) ==
  LET after[n \in 0 .. Len(jobs)] ==
        IF n = 0 THEN log ELSE ReplaceRecord(after[n - 1], jobs[n], status)
  IN after[Len(jobs)]

-------------------------------------------------------------------------------
(* A slip: the new request is put before the others.                       *)
EnqueueFirst(q, job, slots) ==
  IF job \in PendingJobs(q) \/ HasLease(q, job) THEN q
  ELSE [q EXCEPT !.pending = <<[job |-> job, slots |-> slots]>> \o @]

(* enqueue_request: a job waits once, and not while it holds a lease.      *)
Enqueue(q, job, slots) ==
  IF job \in PendingJobs(q) \/ HasLease(q, job) THEN q
  ELSE [q EXCEPT !.pending = Append(@, [job |-> job, slots |-> slots])]

(* try_start_next_jobs starts the head of the queue for as long as         *)
(* can_start_job says yes and stops at the first no.  The k-th start is    *)
(* allowed iff the leases in force and the first k requests together are   *)
(* within the caller's limits.                                             *)
SlotsOfFirst(q, k, cfg) ==
  UNION {{i} \X (1 .. JobSlots(q.pending[i].slots, cfg)) : i \in 1 .. k}

(* Slips: the slots the request needs itself not counted, the jobs that    *)
(* were started just before not counted.                                   *)
CanStartUncounted(q, k, cfg) ==
  /\ Cardinality(q.leases) + k <= cfg.maxRunning
  /\ UsedSlots(q.leases) + Cardinality(SlotsOfFirst(q, k - 1, cfg)) < cfg.total

CanStartStaleCount(q, k, cfg) ==
  /\ Cardinality(q.leases) < cfg.maxRunning
  /\ UsedSlots(q.leases) + Cardinality(SlotsOfFirst(q, k, cfg)) <= cfg.total

CanStart(q, k, cfg) ==
  /\ Cardinality(q.leases) + k <= cfg.maxRunning
  /\ UsedSlots(q.leases) + Cardinality(SlotsOfFirst(q, k, cfg)) <= cfg.total

StartCount(q, cfg) ==
  CHOOSE k \in 0 .. Len(q.pending) :
    /\ k > 0 => CanStart(q, k, cfg)
    /\ k < Len(q.pending) => ~CanStart(q, k + 1, cfg)

NewLeases(q, k, cfg) ==
  {[id |-> q.issued + i, job |-> q.pending[i].job,
    slots |-> JobSlots(q.pending[i].slots, cfg)] : i \in 1 .. k}

(* A slip: the requests that got their leases stay in line.                *)
StartFirstStillPending(q, k, cfg) ==
  [q EXCEPT !.leases = @ \cup NewLeases(q, k, cfg),
            !.issued = @ + k]

(* acquire_lease_for_request for the first k requests.                     *)
StartFirst(q, k, cfg) ==
  [ pending   |-> SubSeq(q.pending, k + 1, Len(q.pending)),
    leases    |-> q.leases \cup NewLeases(q, k, cfg),
    completed |-> ReplaceRecords(q.completed, [i \in 1 .. k |-> q.pending[i].job],
                                 "running"),
    issued    |-> q.issued + k ]

TryStart(q, cfg) == StartFirst(q, StartCount(q, cfg), cfg)

(* The same as the loop it is in the code, which asks can_start_job about  *)
(* the head of the line and calls acquire_lease_for_request; each turn but *)
(* the last takes a request from the line.                                 *)
HeadCanStart(q, cfg) ==
  /\ q.pending # <<>>
  /\ Cardinality(q.leases) < cfg.maxRunning
  /\ UsedSlots(q.leases) + JobSlots(Head(q.pending).slots, cfg) <= cfg.total

StartHead(q, cfg) ==
  LET request == Head(q.pending)
      lease   == [id |-> q.issued + 1, job |-> request.job,
                  slots |-> JobSlots(request.slots, cfg)]
  IN [ pending   |-> Tail(q.pending),
       leases    |-> q.leases \cup {lease},
       completed |-> ReplaceRecord(q.completed, request.job, "running"),
       issued    |-> q.issued + 1 ]

StartTurn(q, cfg) == IF HeadCanStart(q, cfg) THEN StartHead(q, cfg) ELSE q

StartWhilePossible(q, cfg) ==
  LET after[turn \in 0 .. Len(q.pending)] ==
        IF turn = 0 THEN q ELSE StartTurn(after[turn - 1], cfg)
  IN after[Len(q.pending)]

(* release_lease.                                                          *)
ReleaseLease(q, id) == [q EXCEPT !.leases = {l \in @ : l.id # id}]

(* _mark_done: the job leaves the queue and the leases, and its records    *)
(* are replaced by one.                                                    *)
MarkDone(q, job, status) ==
  [q EXCEPT !.leases    = {l \in @ : l.job # job},
            !.pending   = WithoutJobs(@, {job}),
            !.completed = ReplaceRecord(@, job, status)]

(* cancel_pending_request.                                                 *)
CancelPending(q, job) ==
  IF job \notin PendingJobs(q) THEN q
  ELSE [q EXCEPT !.pending   = WithoutJobs(@, {job}),
                 !.completed = AddRecord(@, job, "cancelled")]

(* _mark_timeout: the job's lease, if it has one by now, stays.            *)
MarkTimeout(q, job) ==
  [q EXCEPT !.pending   = WithoutJobs(@, {job}),
            !.completed = AddRecord(@, job, "timeout")]

(* The jobs of leases, in the order of the leases.                         *)
JobsInOrder(L) ==
  LET ids == {l.id : l \in L}
  IN KeepAt([id \in ids |-> (CHOOSE l \in L : l.id = id).job], ids)

(* Slips: leases expire that are not overdue; expired jobs are reported     *)
(* finished.                                                               *)
ExpireAll(q, overdue) ==
  [q EXCEPT !.leases = {}]

ExpireAsFinished(q, overdue) ==
  LET gone == {l \in q.leases : l.id \in overdue}
  IN [q EXCEPT !.leases    = @ \ gone,
               !.completed = ReplaceRecords(@, JobsInOrder(gone), "finished")]

(* expire_stale_leases: the leases whose time is over go, and then their   *)
(* jobs are marked done in the order of the leases.                        *)
ExpireStale(q, overdue) ==
  LET gone == {l \in q.leases : l.id \in overdue}
      jobs == {l.job : l \in gone}
  IN [q EXCEPT !.leases    = {l \in @ \ gone : l.job \notin jobs},
               !.pending   = WithoutJobs(@, jobs),
               !.completed = ReplaceRecords(@, JobsInOrder(gone), "failed")]
================================================================================
