-------------------------- MODULE FileCpuQueueProofs --------------------------
(***************************************************************************)
(* Theorems about the file queue, for any number of processes, jobs, slots *)
(* and policies.  The first part holds whatever happens: cancellations,    *)
(* expired leases, crashes, a lost file.  The second says what a running   *)
(* workflow can rely on as long as nothing takes its lease away.  The third*)
(* is the refinement of FifoSlotPool.                                      *)
(***************************************************************************)
EXTENDS FileCpuQueue, CpuQueueStateProofs

(* The inductive invariant: the file is sound and within the limits, and   *)
(* overdue leases are leases in force.                                     *)
Bounded(q) ==
  /\ \E cfg \in Policies : Cardinality(q.leases) <= cfg.maxRunning
  /\ \E cfg \in Policies : UsedSlots(q.leases) <= cfg.total

Fits(q) == Sound(q) /\ Bounded(q)

Ids(q) == {l.id : l \in q.leases}

IInv ==
  /\ Fits(queue)
  /\ overdue \subseteq Ids(queue)
  /\ pc \in [Client -> ClientStates]
  /\ held \in [Client -> [id: Nat, slots: Nat]]
  /\ losses \in 0 .. MaxLosses

LEMMA PoliciesAreSound == Policies \subseteq Policy /\ \A c \in Client : Config[c] \in Policies
BY ClientAssumption DEF Policies

-------------------------------------------------------------------------------
(* Each kind of transition keeps the file sound and within the limits.     *)
LEMMA FewerFit ==
  ASSUME NEW q, Fits(q), NEW r, Shrinks(q, r)
  PROVE  Fits(r)
<1>1. /\ IsFiniteSet(q.leases) /\ q.leases \subseteq Lease
      /\ r.leases \subseteq q.leases
  BY DEF Fits, Sound, Typed, Shrinks
<1>2. /\ Cardinality(r.leases) <= Cardinality(q.leases)
      /\ Cardinality(r.leases) \in Nat /\ Cardinality(q.leases) \in Nat
  BY <1>1, FS_Subset, FS_CardinalityType
<1>3. SlotsOf(r.leases) \subseteq SlotsOf(q.leases)
  BY <1>1 DEF SlotsOf
<1>4. IsFiniteSet(SlotsOf(q.leases)) /\ UsedSlots(q.leases) \in Nat
  BY <1>1, SlotsAreFinite
<1>5. UsedSlots(r.leases) <= UsedSlots(q.leases) /\ UsedSlots(r.leases) \in Nat
  BY <1>3, <1>4, FS_Subset, FS_CardinalityType DEF UsedSlots
<1>6. \A cfg \in Policies : cfg.maxRunning \in Nat /\ cfg.total \in Nat
  BY PoliciesAreSound DEF Policy
<1> QED BY <1>2, <1>4, <1>5, <1>6 DEF Fits, Bounded, Shrinks

LEMMA EnqueuedFit ==
  ASSUME NEW q, Fits(q), NEW job \in Job, NEW slots \in Nat \ {0}
  PROVE  Fits(Enqueue(q, job, slots))
BY EnqueueIsSound DEF Fits, Bounded

LEMMA StartedFit ==
  ASSUME NEW q, Fits(q), NEW cfg \in Policies
  PROVE  Fits(TryStart(q, cfg))
<1>1. cfg \in Policy
  BY PoliciesAreSound
<1> QED BY <1>1, TryStartIsSound DEF Fits, Bounded, Within

LEMMA EmptyFits ==
  ASSUME NEW n \in Nat
  PROVE  Fits([EmptyQueue EXCEPT !.issued = n])
<1> DEFINE r == [EmptyQueue EXCEPT !.issued = n]
<1>1. r = Queue(<<>>, {}, <<>>, n)
  BY DEF EmptyQueue, Queue
<1>2. /\ r.pending = <<>> /\ r.leases = {} /\ r.completed = <<>> /\ r.issued = n
  BY <1>1 DEF Queue
<1> HIDE DEF r
<1>3. Sound(r)
  <2>1. r = Queue(r.pending, r.leases, r.completed, r.issued)
    BY <1>1, <1>2
  <2>2. <<>> \in Seq(Request) /\ DOMAIN <<>> = {} /\ IsFiniteSet({})
    BY FS_EmptySet
  <2>3. Typed(r)
    BY <1>2, <2>1, <2>2 DEF Typed
  <2>4. Once(r)
    BY <1>2, <2>2 DEF Once
  <2> QED BY <2>3, <2>4 DEF Sound
<1>4. Cardinality(r.leases) = 0 /\ UsedSlots(r.leases) = 0
  <2>1. SlotsOf({}) = {}
    BY DEF SlotsOf
  <2> QED BY <1>2, <2>1, FS_EmptySet DEF UsedSlots
<1>5. AdminConfig \in Policies /\ AdminConfig.maxRunning \in Nat /\ AdminConfig.total \in Nat
  BY ClientAssumption DEF Policies, Policy
<1> QED BY <1>3, <1>4, <1>5 DEF Fits, Bounded, r

(* A critical section that leaves such a file leaves the invariant.        *)
LEMMA WriteKeeps ==
  ASSUME IInv, NEW q, Fits(q), Write(q),
         pc' \in [Client -> ClientStates], held' \in [Client -> [id: Nat, slots: Nat]]
  PROVE  IInv'
<1>1. Fits(queue)'
  BY DEF Write, Fits, Bounded, Policies, Sound, Typed, Once
<1>2. overdue' \subseteq Ids(queue)'
  BY DEF Write, Ids
<1> QED BY <1>1, <1>2 DEF IInv, Write

-------------------------------------------------------------------------------
(* One lemma per action.                                                   *)

LEMMA SubmitKeeps == ASSUME IInv, NEW c \in Client, Submit(c) PROVE IInv'
<1>1. JobOf[c] \in Job /\ Requested[c] \in Nat \ {0}
  BY ClientAssumption
<1>2. Fits(queue) /\ Fits(Enqueue(queue, JobOf[c], Requested[c]))
  BY <1>1, EnqueuedFit DEF IInv
<1>3. PICK q : Fits(q) /\ Write(q)
  BY <1>2 DEF Submit
<1>4. pc' \in [Client -> ClientStates] /\ held' = held
  BY DEF Submit, Goto, IInv, ClientStates
<1> QED BY <1>3, <1>4, WriteKeeps DEF IInv

LEMMA ExpiredFit == ASSUME IInv PROVE Fits(Expired)
BY ExpireShrinks, FewerFit DEF IInv, Fits, Expired

LEMMA KnownFit ==
  ASSUME NEW q, Fits(q), NEW c \in Client
  PROVE  /\ Fits(EnsureKnown(q, c))
         /\ EnsureKnown(q, c).leases = q.leases
         /\ EnsureKnown(q, c).issued = q.issued
<1>1. JobOf[c] \in Job /\ Config[c].defaultSlots \in Nat \ {0}
  BY ClientAssumption DEF Policy
<1>2. CASE EnsureKnown(q, c) = q
  BY <1>2
<1>3. CASE EnsureKnown(q, c) = Enqueue(q, JobOf[c], Config[c].defaultSlots)
  BY <1>1, <1>3, EnqueuedFit, EnqueueIsSound DEF Fits
<1> QED BY <1>2, <1>3 DEF EnsureKnown

LEMMA LeaseFound ==
  ASSUME NEW q, Fits(q), NEW job, HasLease(q, job)
  PROVE  /\ LeaseOf(q, job) \in q.leases /\ LeaseOf(q, job).job = job
         /\ LeaseOf(q, job) \in Lease
BY DEF LeaseOf, HasLease, Fits, Sound, Typed

LEMMA PollKeeps == ASSUME IInv, NEW c \in Client, Poll(c) PROVE IInv'
<1> DEFINE known   == EnsureKnown(Expired, c)
           started == TryStart(known, Config[c])
<1>1. Fits(Expired)
  BY ExpiredFit
<1>2. Fits(known)
  BY <1>1, KnownFit
<1>3. Config[c] \in Policies
  BY PoliciesAreSound
<1>4. Fits(started)
  <2> HIDE DEF known
  <2> QED BY <1>2, <1>3, StartedFit
<1> HIDE DEF known, started
<1>5. CASE PollRefused(c, Expired)
  <2>1. Write(Expired) /\ pc' \in [Client -> ClientStates] /\ held' = held
    BY <1>5 DEF PollRefused, Goto, IInv, ClientStates
  <2> QED BY <1>1, <2>1, WriteKeeps DEF IInv
<1>6. CASE PollGranted(c, started)
  <2>1. Write(started) /\ pc' \in [Client -> ClientStates] /\ HasLease(started, JobOf[c])
    BY <1>6 DEF PollGranted, Goto, IInv, ClientStates
  <2>2. LeaseOf(started, JobOf[c]) \in Lease
    BY <1>4, <2>1, LeaseFound
  <2>3. PICK l \in Lease : held' = [held EXCEPT ![c] = [id |-> l.id, slots |-> l.slots]]
    BY <1>6, <2>2 DEF PollGranted
  <2>4. held' \in [Client -> [id: Nat, slots: Nat]]
    BY <2>3 DEF IInv, Lease
  <2> QED BY <1>4, <2>1, <2>4, WriteKeeps
<1>7. CASE PollWaits(c, started)
  <2>1. Write(started) /\ pc' \in [Client -> ClientStates] /\ held' = held
    BY <1>7 DEF PollWaits, Goto, IInv, ClientStates
  <2> QED BY <1>4, <2>1, WriteKeeps DEF IInv
<1> QED BY <1>5, <1>6, <1>7 DEF Poll, TryStart, known, started

LEMMA GiveUpKeeps == ASSUME IInv, NEW c \in Client, GiveUp(c) PROVE IInv'
<1>1. Fits(MarkTimeout(queue, JobOf[c]))
  BY TimeoutShrinks, FewerFit DEF IInv, Fits
<1>2. Write(MarkTimeout(queue, JobOf[c])) /\ pc' \in [Client -> ClientStates] /\ held' = held
  BY DEF GiveUp, Goto, IInv, ClientStates
<1> QED BY <1>1, <1>2, WriteKeeps DEF IInv

(* What the file is after a release, before anybody is started by it.      *)
Freed(c) == ReleaseLease(queue, held[c].id)
Mine(c)  == {l \in queue.leases : l.id = held[c].id}
Ended(c) == IF Mine(c) = {} THEN Freed(c)
            ELSE MarkDone(Freed(c), (CHOOSE l \in Mine(c) : TRUE).job, "finished")

LEMMA EndedFit ==
  ASSUME IInv, NEW c \in Client
  PROVE  /\ Fits(Ended(c))
         /\ \A l \in queue.leases :
              l \in Ended(c).leases \/ l.id = held[c].id
                \/ \E m \in Mine(c) : l.job = m.job
<1>1. Fits(Freed(c)) /\ Freed(c).leases = {l \in queue.leases : l.id # held[c].id}
  BY ReleaseShrinks, FewerFit DEF IInv, Fits, Freed
<1>2. CASE Mine(c) = {}
  BY <1>1, <1>2 DEF Ended
<1>3. CASE Mine(c) # {}
  <2>1. PICK m \in Mine(c) : Ended(c) = MarkDone(Freed(c), m.job, "finished")
    BY <1>3 DEF Ended
  <2>2. Shrinks(Freed(c), Ended(c)) /\ Ended(c).leases = {l \in Freed(c).leases : l.job # m.job}
    BY <1>1, <2>1, MarkDoneShrinks DEF Fits
  <2> QED BY <1>1, <2>2, FewerFit
<1> QED BY <1>2, <1>3

LEMMA ReleaseKeeps == ASSUME IInv, NEW c \in Client, Release(c) PROVE IInv'
<1>1. Fits(TryStart(Ended(c), Config[c]))
  BY EndedFit, StartedFit, PoliciesAreSound
<1>2. Write(TryStart(Ended(c), Config[c]))
  BY DEF Release, Ended, Freed, Mine
<1>3. pc' \in [Client -> ClientStates] /\ held' \in [Client -> [id: Nat, slots: Nat]]
  BY DEF Release, Goto, IInv, ClientStates, NoLease
<1> QED BY <1>1, <1>2, <1>3, WriteKeeps

LEMMA CancelKeeps == ASSUME IInv, NEW job \in Job, Cancel(job) PROVE IInv'
<1> DEFINE freed == ReleaseLease(queue, LeaseOf(queue, job).id)
           gone  == IF HasLease(queue, job) THEN MarkDone(freed, job, "failed")
                    ELSE CancelPending(queue, job)
<1>1. Fits(queue)
  BY DEF IInv
<1>2. Fits(freed)
  BY <1>1, ReleaseShrinks, FewerFit DEF Fits
<1>3. Fits(MarkDone(freed, job, "failed"))
  <2> HIDE DEF freed
  <2> QED BY <1>2, MarkDoneShrinks, FewerFit DEF Fits
<1>4. Fits(CancelPending(queue, job))
  BY <1>1, CancelShrinks, FewerFit DEF Fits
<1>5. Fits(gone)
  BY <1>3, <1>4
<1>6. Write(TryStart(gone, AdminConfig)) /\ pc' = pc /\ held' = held
  BY DEF Cancel
<1> HIDE DEF gone
<1>7. Fits(TryStart(gone, AdminConfig))
  BY <1>5, StartedFit DEF Policies
<1> QED BY <1>6, <1>7, WriteKeeps DEF IInv

LEMMA StatusKeeps == ASSUME IInv, Status PROVE IInv'
<1>1. Fits(TryStart(Expired, AdminConfig))
  BY ExpiredFit, StartedFit DEF Policies
<1>2. Write(TryStart(Expired, AdminConfig)) /\ pc' = pc /\ held' = held
  BY DEF Status
<1> QED BY <1>1, <1>2, WriteKeeps DEF IInv

(* The steps that do not write the file under the lock.                    *)
LEMMA OthersKeep ==
  ASSUME IInv,
         \/ \E c \in Client : Crash(c)
         \/ \E l \in queue.leases : BecomeOverdue(l)
         \/ LoseState
         \/ UNCHANGED vars
  PROVE  IInv'
<1>1. CASE \E c \in Client : Crash(c)
  <2>1. PICK c \in Client : Crash(c)
    BY <1>1
  <2>2. queue' = queue /\ overdue' = overdue /\ losses' = losses
    BY <2>1 DEF Crash
  <2>3. pc' \in [Client -> ClientStates] /\ held' \in [Client -> [id: Nat, slots: Nat]]
    BY <2>1 DEF Crash, Goto, IInv, ClientStates, NoLease
  <2>4. Fits(queue)' /\ overdue' \subseteq Ids(queue)'
    BY <2>2 DEF IInv, Fits, Bounded, Policies, Sound, Typed, Once, Ids
  <2> QED BY <2>2, <2>3, <2>4 DEF IInv
<1>2. CASE \E l \in queue.leases : BecomeOverdue(l)
  <2>1. PICK l \in queue.leases : BecomeOverdue(l)
    BY <1>2
  <2>2. queue' = queue /\ overdue' = overdue \cup {l.id} /\ UNCHANGED <<pc, held, losses>>
    BY <2>1 DEF BecomeOverdue
  <2>3. Fits(queue)' /\ overdue' \subseteq Ids(queue)'
    BY <2>1, <2>2 DEF IInv, Fits, Bounded, Policies, Sound, Typed, Once, Ids
  <2> QED BY <2>2, <2>3 DEF IInv
<1>3. CASE LoseState
  <2>1. queue' = [EmptyQueue EXCEPT !.issued = queue.issued]
    BY <1>3 DEF LoseState
  <2>2. queue.issued \in Nat
    BY DEF IInv, Fits, Sound, Typed
  <2>3. Fits(queue')
    BY <2>1, <2>2, EmptyFits
  <2>4. overdue' = {} /\ pc' = pc /\ held' = held /\ losses' \in 0 .. MaxLosses
    BY <1>3, ClientAssumption DEF LoseState, IInv
  <2> QED BY <2>3, <2>4 DEF IInv, Ids
<1>4. CASE UNCHANGED vars
  BY <1>4 DEF vars, IInv, Fits, Bounded, Policies, Sound, Typed, Once, Ids
<1> QED BY <1>1, <1>2, <1>3, <1>4

-------------------------------------------------------------------------------
THEOREM Invariance == Spec => []IInv
<1>1. ASSUME Init PROVE IInv
  <2>1. queue = EmptyQueue /\ EmptyQueue = [EmptyQueue EXCEPT !.issued = 0]
    BY <1>1 DEF Init, EmptyQueue
  <2>2. Fits(queue)
    BY <2>1, EmptyFits
  <2>3. losses \in 0 .. MaxLosses /\ overdue \subseteq Ids(queue)
    BY <1>1, ClientAssumption DEF Init
  <2>4. pc \in [Client -> ClientStates] /\ held \in [Client -> [id: Nat, slots: Nat]]
    BY <1>1 DEF Init, ClientStates, NoLease
  <2> QED BY <2>2, <2>3, <2>4 DEF IInv
<1>2. ASSUME IInv, [Next]_vars PROVE IInv'
  <2>1. CASE \E c \in Client : ClientStep(c)
    <3>1. PICK c \in Client : ClientStep(c)
      BY <2>1
    <3>2. CASE Submit(c)
      BY <1>2, <3>2, SubmitKeeps
    <3>3. CASE Poll(c)
      BY <1>2, <3>3, PollKeeps
    <3>4. CASE GiveUp(c)
      BY <1>2, <3>4, GiveUpKeeps
    <3>5. CASE Release(c)
      BY <1>2, <3>5, ReleaseKeeps
    <3>6. CASE Crash(c)
      BY <1>2, <3>6, OthersKeep
    <3> QED BY <3>1, <3>2, <3>3, <3>4, <3>5, <3>6 DEF ClientStep
  <2>2. CASE \E job \in Job : Cancel(job)
    BY <1>2, <2>2, CancelKeeps
  <2>3. CASE Status
    BY <1>2, <2>3, StatusKeeps
  <2>4. CASE \/ \E l \in queue.leases : BecomeOverdue(l)
             \/ LoseState
             \/ UNCHANGED vars
    BY <1>2, <2>4, OthersKeep
  <2> QED BY <1>2, <2>1, <2>2, <2>3, <2>4 DEF Next
<1> QED BY <1>1, <1>2, PTL DEF Spec

(* The variables keep their types; of the file, everything but the log.    *)
THEOREM TypeCorrect == Spec => []TypeOK
<1>1. IInv => TypeOK
  <2> SUFFICES ASSUME IInv PROVE TypeOK
    OBVIOUS
  <2>1. overdue \subseteq Nat
    BY DEF IInv, Ids, Fits, Sound, Typed, Lease
  <2> QED BY <2>1 DEF IInv, TypeOK, Fits, Sound, Typed
<1> QED BY <1>1, Invariance, PTL

(* No path through the file, not even a timeout that comes too late, a     *)
(* cancellation, an expired lease or a lost file, puts a job into it twice.*)
THEOREM EachJobOnce == Spec => []QueueConsistent
<1>1. IInv => QueueConsistent
  BY DEF IInv, QueueConsistent, Fits, Sound, Once
<1> QED BY <1>1, Invariance, PTL

(* The leases in the file stay within the pool, whichever processes with   *)
(* whichever policies gave them out, and in whichever order.               *)
THEOREM PoolNeverExceeded == Spec => []LeasesWithinPool
<1>1. IInv => LeasesWithinPool
  BY DEF IInv, LeasesWithinPool, Fits, Bounded
<1> QED BY <1>1, Invariance, PTL

-------------------------------------------------------------------------------
(* Who can still give a lease back.  A request in line has a client that   *)
(* waits, gave up or crashed; its job's lease has such a client or the one *)
(* that runs under it.  Stated of any file and any states of the clients,  *)
(* since a critical section does several things one after the other.       *)
Patient == {"queued", "waiting", "crashed", "timedOut"}

CaredFor(q, p, h) ==
  /\ \A job \in PendingJobs(q) : \E c \in Client : JobOf[c] = job /\ p[c] \in Patient
  /\ \A l \in q.leases : \E c \in Client :
       /\ JobOf[c] = l.job
       /\ p[c] \in Patient \/ (p[c] = "running" /\ h[c].id = l.id)

OInv == IInv /\ CaredFor(queue, pc, held)

LEMMA FewerCaredFor ==
  ASSUME NEW p, NEW h, NEW q, CaredFor(q, p, h), NEW r, Shrinks(q, r)
  PROVE  CaredFor(r, p, h)
BY DEF CaredFor, Shrinks

LEMMA EnqueuedCaredFor ==
  ASSUME NEW p, NEW h, NEW q, Sound(q), CaredFor(q, p, h), NEW c \in Client, p[c] \in Patient,
         NEW slots
  PROVE  CaredFor(Enqueue(q, JobOf[c], slots), p, h)
<1> DEFINE e == [job |-> JobOf[c], slots |-> slots]
           r == [q EXCEPT !.pending = Append(@, e)]
<1>1. q = Queue(q.pending, q.leases, q.completed, q.issued) /\ q.pending \in Seq(Request)
  BY DEF Sound, Typed
<1>2. r.pending = Append(q.pending, e) /\ r.leases = q.leases
  BY <1>1 DEF Queue
<1>3. PendingJobs(r) \subseteq PendingJobs(q) \cup {JobOf[c]}
  <2>1. \A i \in DOMAIN r.pending :
          (i \in DOMAIN q.pending /\ r.pending[i] = q.pending[i]) \/ r.pending[i] = e
    <3> HIDE DEF e, r
    <3> QED BY <1>1, <1>2
  <2> HIDE DEF r
  <2> QED BY <2>1 DEF PendingJobs
<1>4. CaredFor(r, p, h)
  <2> HIDE DEF r
  <2> QED BY <1>2, <1>3 DEF CaredFor
<1> QED BY <1>4 DEF Enqueue

(* A lease that is given out goes to a job that was in line.               *)
LEMMA StartsFromLine ==
  ASSUME NEW q, Sound(q), NEW cfg \in Policy
  PROVE  /\ PendingJobs(TryStart(q, cfg)) \subseteq PendingJobs(q)
         /\ \A l \in TryStart(q, cfg).leases : l \in q.leases \/ l.job \in PendingJobs(q)
<1> DEFINE k == StartCount(q, cfg)
           r == StartFirst(q, k, cfg)
<1>1. k \in 0 .. Len(q.pending)
  BY StartCountStops
<1>2. q.pending \in Seq(Request) /\ Len(q.pending) \in Nat /\ DOMAIN q.pending = 1 .. Len(q.pending)
  BY DEF Sound, Typed
<1>3. /\ r.pending = SubSeq(q.pending, k + 1, Len(q.pending))
      /\ r.leases = q.leases \cup NewLeases(q, k, cfg)
      /\ TryStart(q, cfg) = r
  BY DEF StartFirst, TryStart
<1> HIDE DEF k, r
<1>4. PendingJobs(r) \subseteq PendingJobs(q)
  <2>1. \A i \in DOMAIN r.pending :
          k + i \in DOMAIN q.pending /\ r.pending[i] = q.pending[k + i]
    BY <1>1, <1>2, <1>3
  <2> QED BY <2>1 DEF PendingJobs
<1>5. \A l \in NewLeases(q, k, cfg) : l.job \in PendingJobs(q)
  BY <1>1, <1>2 DEF NewLeases, PendingJobs
<1> QED BY <1>3, <1>4, <1>5

LEMMA StartedCaredFor ==
  ASSUME NEW p, NEW h, NEW q, Sound(q), CaredFor(q, p, h), NEW cfg \in Policies
  PROVE  CaredFor(TryStart(q, cfg), p, h)
<1>1. cfg \in Policy
  BY PoliciesAreSound
<1>2. /\ PendingJobs(TryStart(q, cfg)) \subseteq PendingJobs(q)
      /\ \A l \in TryStart(q, cfg).leases : l \in q.leases \/ l.job \in PendingJobs(q)
  BY <1>1, StartsFromLine
<1> QED BY <1>2 DEF CaredFor

(* A client moves on: nothing is left uncared for if it goes on caring, or *)
(* if nothing was left for it to care for.                                 *)
LEMMA MovedOn ==
  ASSUME NEW p, NEW h, NEW q, CaredFor(q, p, h), NEW c \in Client, NEW r, NEW g,
         \A d \in Client \ {c} : r[d] = p[d] /\ g[d] = h[d],
         \/ p[c] \notin Patient \cup {"running"}
         \/ r[c] \in Patient
         \/ p[c] = "running" /\ \A l \in q.leases : l.id # h[c].id
         \/ /\ JobOf[c] \notin PendingJobs(q)
            /\ \A l \in q.leases : l.job = JobOf[c] => r[c] = "running" /\ g[c].id = l.id
  PROVE  CaredFor(q, r, g)
<1>1. ASSUME NEW job \in PendingJobs(q)
      PROVE  \E d \in Client : JobOf[d] = job /\ r[d] \in Patient
  <2>1. PICK d \in Client : JobOf[d] = job /\ p[d] \in Patient
    BY DEF CaredFor
  <2> QED BY <2>1 DEF Patient
<1>2. ASSUME NEW l \in q.leases
      PROVE  \E d \in Client :
               /\ JobOf[d] = l.job
               /\ r[d] \in Patient \/ (r[d] = "running" /\ g[d].id = l.id)
  <2>1. PICK d \in Client : /\ JobOf[d] = l.job
                            /\ p[d] \in Patient \/ (p[d] = "running" /\ h[d].id = l.id)
    BY DEF CaredFor
  <2>2. CASE d # c
    BY <2>1, <2>2
  <2>3. CASE d = c
    BY <2>1, <2>3 DEF Patient
  <2> QED BY <2>2, <2>3
<1> QED BY <1>1, <1>2 DEF CaredFor

(* Cared(q) of the next state follows from a file and moves.               *)
LEMMA GotoMoves ==
  ASSUME IInv, NEW c \in Client, NEW state, Goto(c, state),
         held' = held \/ \E x : held' = [held EXCEPT ![c] = x]
  PROVE  /\ pc'[c] = state
         /\ \A d \in Client \ {c} : pc'[d] = pc[d] /\ held'[d] = held[d]
BY DEF IInv, Goto

LEMMA SubmitCares == ASSUME OInv, NEW c \in Client, Submit(c) PROVE CaredFor(queue, pc, held)'
<1>1. IInv /\ Sound(queue) /\ CaredFor(queue, pc, held)
  BY DEF OInv, IInv, Fits
<1>2. /\ pc'[c] = "queued"
      /\ \A d \in Client \ {c} : pc'[d] = pc[d] /\ held'[d] = held[d]
  BY <1>1, GotoMoves DEF Submit
<1>3. CaredFor(queue, pc', held')
  BY <1>1, <1>2, MovedOn DEF Patient
<1>4. CaredFor(Enqueue(queue, JobOf[c], Requested[c]), pc', held')
  BY <1>1, <1>2, <1>3, EnqueuedCaredFor DEF Patient
<1>5. queue' = queue \/ queue' = Enqueue(queue, JobOf[c], Requested[c])
  BY DEF Submit, Write
<1> QED BY <1>3, <1>4, <1>5

LEMMA PollCares == ASSUME OInv, NEW c \in Client, Poll(c) PROVE CaredFor(queue, pc, held)'
<1> DEFINE known   == EnsureKnown(Expired, c)
           started == TryStart(known, Config[c])
<1>1. IInv /\ Sound(queue) /\ CaredFor(queue, pc, held) /\ pc[c] \in Patient
  BY DEF OInv, IInv, Fits, Poll, Polling, Patient
<1>2. Sound(Expired) /\ CaredFor(Expired, pc, held)
  BY <1>1, ExpireShrinks, FewerCaredFor DEF Expired, Shrinks
<1>3. Sound(known)
  BY <1>1, ExpiredFit, KnownFit DEF Fits
<1>4. CaredFor(known, pc, held)
  BY <1>1, <1>2, EnqueuedCaredFor DEF EnsureKnown
<1>5. Sound(started) /\ CaredFor(started, pc, held)
  <2>1. Config[c] \in Policies /\ Config[c] \in Policy
    BY PoliciesAreSound
  <2> HIDE DEF known
  <2> QED BY <1>3, <1>4, <2>1, StartedCaredFor, TryStartIsSound
<1> HIDE DEF known, started
<1>6. CASE PollRefused(c, Expired)
  <2>1. /\ queue' = Expired
        /\ \A d \in Client \ {c} : pc'[d] = pc[d] /\ held'[d] = held[d]
    BY <1>1, <1>6, GotoMoves DEF PollRefused, Write
  <2>2. /\ JobOf[c] \notin PendingJobs(Expired)
        /\ \A l \in Expired.leases : l.job # JobOf[c]
    <3>1. StatusOf(Expired, JobOf[c]) \in Terminal /\ ~HasLease(Expired, JobOf[c])
      BY <1>6 DEF PollRefused, IsOver
    <3>2. StatusOf(Expired, JobOf[c]) # "queued"
      BY <3>1 DEF Terminal
    <3> QED BY <3>1, <3>2 DEF StatusOf, HasLease
  <2>3. CaredFor(Expired, pc', held')
    BY <1>2, <2>1, <2>2, MovedOn
  <2> QED BY <2>1, <2>3
<1>7. CASE PollGranted(c, started)
  <2>1. /\ queue' = started /\ pc'[c] = "running" /\ HasLease(started, JobOf[c])
        /\ \E x : held' = [held EXCEPT ![c] = x]
    BY <1>7 DEF PollGranted, Write, IInv, OInv, Goto
  <2>2. \A d \in Client \ {c} : pc'[d] = pc[d] /\ held'[d] = held[d]
    BY <1>1, <1>7, <2>1, GotoMoves DEF PollGranted
  <2> DEFINE m == LeaseOf(started, JobOf[c])
  <2>3. m \in started.leases /\ m.job = JobOf[c] /\ held'[c].id = m.id
    <3>1. m \in started.leases /\ m.job = JobOf[c]
      BY <2>1 DEF LeaseOf, HasLease
    <3>2. held' = [held EXCEPT ![c] = [id |-> m.id, slots |-> m.slots]]
      BY <1>7 DEF PollGranted
    <3> HIDE DEF m
    <3> QED BY <1>1, <3>1, <3>2 DEF IInv
  <2> HIDE DEF m
  <2>4. /\ JobOf[c] \notin PendingJobs(started)
        /\ \A l \in started.leases : l.job = JobOf[c] => pc'[c] = "running" /\ held'[c].id = l.id
    BY <1>5, <2>1, <2>3 DEF Sound, Once
  <2>5. CaredFor(started, pc', held')
    BY <1>5, <2>2, <2>4, MovedOn
  <2> QED BY <2>1, <2>5
<1>8. CASE PollWaits(c, started)
  <2>1. /\ queue' = started /\ pc'[c] = "waiting"
        /\ \A d \in Client \ {c} : pc'[d] = pc[d] /\ held'[d] = held[d]
    BY <1>1, <1>8, GotoMoves DEF PollWaits, Write
  <2>2. CaredFor(started, pc', held')
    BY <1>5, <2>1, MovedOn DEF Patient
  <2> QED BY <2>1, <2>2
<1> QED BY <1>6, <1>7, <1>8 DEF Poll, TryStart, known, started

LEMMA ReleaseCares == ASSUME OInv, NEW c \in Client, Release(c) PROVE CaredFor(queue, pc, held)'
<1>1. IInv /\ Sound(queue) /\ CaredFor(queue, pc, held) /\ pc[c] = "running"
  BY DEF OInv, IInv, Fits, Release
<1>2. /\ Shrinks(queue, Freed(c))
      /\ Freed(c).leases = {l \in queue.leases : l.id # held[c].id}
  BY <1>1, ReleaseShrinks DEF Freed
<1>3. Shrinks(Freed(c), Ended(c))
  <2>1. CASE Ended(c) = Freed(c)
    BY <1>2, <2>1 DEF Shrinks
  <2>2. CASE \E job : Ended(c) = MarkDone(Freed(c), job, "finished")
    BY <1>2, <2>2, MarkDoneShrinks DEF Shrinks
  <2> QED BY <2>1, <2>2 DEF Ended
<1>4. CaredFor(Ended(c), pc, held) /\ Sound(Ended(c))
  BY <1>1, <1>2, <1>3, FewerCaredFor DEF Shrinks
<1>5. \A l \in Ended(c).leases : l.id # held[c].id
  BY <1>2, <1>3 DEF Shrinks
<1>6. \A d \in Client \ {c} : pc'[d] = pc[d] /\ held'[d] = held[d]
  BY <1>1, GotoMoves DEF Release
<1>7. CaredFor(Ended(c), pc', held')
  BY <1>1, <1>4, <1>5, <1>6, MovedOn
<1>8. CaredFor(TryStart(Ended(c), Config[c]), pc', held')
  BY <1>4, <1>7, StartedCaredFor, PoliciesAreSound
<1>9. queue' = TryStart(Ended(c), Config[c])
  BY DEF Release, Write, Ended, Freed, Mine
<1> QED BY <1>8, <1>9

LEMMA OthersCare ==
  ASSUME OInv,
         \/ \E c \in Client : GiveUp(c) \/ Crash(c)
         \/ \E job \in Job : Cancel(job)
         \/ Status \/ LoseState
         \/ \E l \in queue.leases : BecomeOverdue(l)
         \/ UNCHANGED vars
  PROVE  CaredFor(queue, pc, held)'
<1>0. IInv /\ Sound(queue) /\ CaredFor(queue, pc, held) /\ AdminConfig \in Policies
  BY DEF OInv, IInv, Fits, Policies
<1>1. ASSUME NEW c \in Client, GiveUp(c) PROVE CaredFor(queue, pc, held)'
  <2>1. /\ queue' = MarkTimeout(queue, JobOf[c]) /\ pc'[c] = "timedOut"
        /\ \A d \in Client \ {c} : pc'[d] = pc[d] /\ held'[d] = held[d]
    BY <1>0, <1>1, GotoMoves DEF GiveUp, Write
  <2>2. CaredFor(queue, pc', held')
    BY <1>0, <2>1, MovedOn DEF Patient
  <2>3. Shrinks(queue, MarkTimeout(queue, JobOf[c]))
    BY <1>0, TimeoutShrinks
  <2> QED BY <2>1, <2>2, <2>3, FewerCaredFor
<1>2. ASSUME NEW c \in Client, Crash(c) PROVE CaredFor(queue, pc, held)'
  <2>1. /\ queue' = queue /\ pc'[c] = "crashed"
        /\ \A d \in Client \ {c} : pc'[d] = pc[d] /\ held'[d] = held[d]
    BY <1>0, <1>2, GotoMoves DEF Crash
  <2>2. CaredFor(queue, pc', held')
    BY <1>0, <2>1, MovedOn DEF Patient
  <2> QED BY <2>1, <2>2
<1>3. ASSUME NEW job \in Job, Cancel(job) PROVE CaredFor(queue, pc, held)'
  <2> DEFINE freed == ReleaseLease(queue, LeaseOf(queue, job).id)
             gone  == IF HasLease(queue, job) THEN MarkDone(freed, job, "failed")
                      ELSE CancelPending(queue, job)
  <2>1. Shrinks(queue, freed) /\ Sound(freed)
    BY <1>0, ReleaseShrinks DEF Shrinks
  <2>2. Shrinks(queue, MarkDone(freed, job, "failed"))
    <3> HIDE DEF freed
    <3>1. Shrinks(freed, MarkDone(freed, job, "failed"))
      BY <2>1, MarkDoneShrinks
    <3> QED BY <2>1, <3>1 DEF Shrinks
  <2>3. Shrinks(queue, CancelPending(queue, job))
    BY <1>0, CancelShrinks
  <2>4. Shrinks(queue, gone)
    BY <2>2, <2>3
  <2>5. queue' = TryStart(gone, AdminConfig) /\ UNCHANGED <<pc, held>>
    BY <1>3 DEF Cancel, Write
  <2> HIDE DEF gone
  <2>6. CaredFor(gone, pc, held) /\ Sound(gone)
    BY <1>0, <2>4, FewerCaredFor DEF Shrinks
  <2>7. CaredFor(TryStart(gone, AdminConfig), pc, held)
    BY <1>0, <2>6, StartedCaredFor
  <2> QED BY <2>5, <2>7
<1>4. ASSUME Status PROVE CaredFor(queue, pc, held)'
  <2>1. queue' = TryStart(Expired, AdminConfig) /\ UNCHANGED <<pc, held>>
    BY <1>4 DEF Status, Write
  <2>2. CaredFor(Expired, pc, held) /\ Sound(Expired)
    BY <1>0, ExpireShrinks, FewerCaredFor DEF Expired, Shrinks
  <2>3. CaredFor(TryStart(Expired, AdminConfig), pc, held)
    BY <1>0, <2>2, StartedCaredFor
  <2> QED BY <2>1, <2>3
<1>5. ASSUME LoseState PROVE CaredFor(queue, pc, held)'
  <2>1. queue'.pending = <<>> /\ queue'.leases = {}
    BY <1>5 DEF LoseState, EmptyQueue
  <2> QED BY <2>1 DEF CaredFor, PendingJobs
<1>6. CASE UNCHANGED <<queue, pc, held>>
  BY <1>0, <1>6
<1> QED BY <1>1, <1>2, <1>3, <1>4, <1>5, <1>6 DEF BecomeOverdue, vars

(* A lease has somebody who can give it back, or whose crash or giving up  *)
(* in the wrong moment explains why it has nobody: the stale leases that   *)
(* expire_stale_leases is for come about in no other way.                  *)
THEOREM NoLeaseForgotten == Spec => []LeasesAccountedFor
<1>1. ASSUME Init PROVE CaredFor(queue, pc, held)
  <2>1. queue.pending = <<>> /\ queue.leases = {}
    BY <1>1 DEF Init, EmptyQueue
  <2> QED BY <2>1 DEF CaredFor, PendingJobs
<1>2. ASSUME IInv, CaredFor(queue, pc, held), [Next]_vars PROVE CaredFor(queue, pc, held)'
  <2>1. OInv
    BY <1>2 DEF OInv
  <2> QED BY <1>2, <2>1, SubmitCares, PollCares, ReleaseCares, OthersCare DEF Next, ClientStep
<1>3. CaredFor(queue, pc, held) => LeasesAccountedFor
  BY DEF CaredFor, LeasesAccountedFor, Patient
<1> DEFINE C == CaredFor(queue, pc, held)
<1>4. /\ Init => C
      /\ IInv /\ C /\ [Next]_vars => C'
      /\ C => LeasesAccountedFor
  BY <1>1, <1>2, <1>3
<1> HIDE DEF C
<1> QED BY <1>4, Invariance, PTL DEF Spec

-------------------------------------------------------------------------------
(* What the log says.  A record is explained by what the clients of its    *)
(* job have done, and by the lease of a job that is said to run.  That the *)
(* file is released for the right job rests on ids: a lease with the id a  *)
(* running client holds is a lease of its job (HeldFor), since ids are     *)
(* never given out again, not even after the file was lost.                *)
Explained(r, p) ==
  /\ r.status = "finished"  => \E c \in Client : JobOf[c] = r.job /\ p[c] = "done"
  /\ r.status = "timeout"   => \E c \in Client : JobOf[c] = r.job /\ p[c] = "timedOut"
  /\ r.status = "cancelled" => r.job \in Cancellable

Recorded(q, p) ==
  /\ LogTyped(q.completed)
  /\ \A r \in Range(q.completed) :
       (r.status = "running" => HasLease(q, r.job)) /\ Explained(r, p)

HeldFor(q, p, h) ==
  \A c \in Client : p[c] = "running" =>
    /\ h[c].id <= q.issued
    /\ \A l \in q.leases : l.id = h[c].id => l.job = JobOf[c]

LogInv == IInv /\ Recorded(queue, pc) /\ HeldFor(queue, pc, held)

(* An end that was recorded is an end for good.                            *)
LEMMA EndsStay ==
  ASSUME NEW q, NEW p, Recorded(q, p), NEW r,
         \A c \in Client : p[c] \in {"done", "timedOut"} => r[c] = p[c]
  PROVE  Recorded(q, r)
BY DEF Recorded, Explained

LEMMA EnqueuedRecorded ==
  ASSUME NEW p, NEW q, Sound(q), Recorded(q, p), NEW job \in Job, NEW slots \in Nat \ {0}
  PROVE  Recorded(Enqueue(q, job, slots), p)
<1>1. Enqueue(q, job, slots).leases = q.leases
  BY EnqueueIsSound
<1>2. Enqueue(q, job, slots).completed = q.completed
  BY LogsOfTransitions DEF Recorded
<1> QED BY <1>1, <1>2 DEF Recorded, HasLease

LEMMA StartedRecorded ==
  ASSUME NEW p, NEW q, Sound(q), Recorded(q, p), NEW cfg \in Policies
  PROVE  Recorded(TryStart(q, cfg), p)
<1> DEFINE r == TryStart(q, cfg)
<1>1. cfg \in Policy /\ LogTyped(q.completed)
  BY PoliciesAreSound DEF Recorded
<1>2. q.leases \subseteq r.leases
  BY <1>1, TryStartIsSound
<1>3. PICK J \in SUBSET Job : /\ LogTyped(r.completed)
                              /\ Range(r.completed) \subseteq Replaced(q.completed, J, "running")
                              /\ \A job \in J : HasLease(r, job)
  BY <1>1, LogAfterStart
<1> HIDE DEF r
<1>4. ASSUME NEW x \in Range(r.completed)
      PROVE  (x.status = "running" => HasLease(r, x.job)) /\ Explained(x, p)
  <2>1. CASE x \in Range(q.completed)
    BY <1>2, <2>1 DEF Recorded, HasLease
  <2>2. CASE \E job \in J : x = [job |-> job, status |-> "running"]
    BY <1>3, <2>2 DEF Explained
  <2> QED BY <1>3, <2>1, <2>2 DEF Replaced
<1> QED BY <1>3, <1>4 DEF Recorded, r

(* Leases are taken away, and the jobs they were of are recorded anew.     *)
LEMMA ReplacedRecorded ==
  ASSUME NEW p, NEW q, Recorded(q, p), NEW r, LogTyped(r.completed), NEW J,
         NEW status \in Terminal,
         Range(r.completed) \subseteq Replaced(q.completed, J, status),
         \A l \in q.leases : l \in r.leases \/ l.job \in J,
         \A job \in J : Explained([job |-> job, status |-> status], p)
  PROVE  Recorded(r, p)
<1> SUFFICES ASSUME NEW x \in Range(r.completed)
             PROVE  (x.status = "running" => HasLease(r, x.job)) /\ Explained(x, p)
  BY DEF Recorded
<1>1. CASE x \in Range(q.completed) /\ x.job \notin J
  BY <1>1 DEF Recorded, HasLease
<1>2. CASE \E job \in J : x = [job |-> job, status |-> status]
  BY <1>2 DEF Terminal
<1> QED BY <1>1, <1>2 DEF Replaced

LEMMA ExpiredRecorded ==
  ASSUME NEW p, NEW q, Sound(q), Recorded(q, p), NEW old
  PROVE  Recorded(ExpireStale(q, old), p)
<1> DEFINE r == ExpireStale(q, old)
           J == {l.job : l \in {m \in q.leases : m.id \in old}}
<1>1. /\ LogTyped(r.completed)
      /\ Range(r.completed) \subseteq Replaced(q.completed, J, "failed")
  BY LogAfterExpiry DEF Recorded
<1>2. r.leases = {l \in q.leases : l.id \notin old}
  BY ExpireShrinks
<1> HIDE DEF r
<1>3. \A l \in q.leases : l \in r.leases \/ l.job \in J
  BY <1>2
<1> HIDE DEF J
<1>4. "failed" \in Terminal /\ \A job \in J : Explained([job |-> job, status |-> "failed"], p)
  BY DEF Terminal, Explained
<1> QED BY <1>1, <1>3, <1>4, ReplacedRecorded DEF r

(* The lease that is released is the job's, or there is none.              *)
LEMMA DoneRecorded ==
  ASSUME NEW p, NEW q, Sound(q), Recorded(q, p), NEW job \in Job, NEW id,
         \A l \in q.leases : l.id = id => l.job = job,
         NEW status \in {"finished", "failed"},
         Explained([job |-> job, status |-> status], p)
  PROVE  Recorded(MarkDone(ReleaseLease(q, id), job, status), p)
<1> DEFINE freed == ReleaseLease(q, id)
           r == MarkDone(freed, job, status)
<1>1. /\ Sound(freed) /\ freed.leases = {l \in q.leases : l.id # id}
      /\ freed.completed = q.completed
  <2>1. Shrinks(q, freed) /\ freed.leases = {l \in q.leases : l.id # id}
    BY ReleaseShrinks
  <2>2. freed.completed = q.completed
    BY DEF ReleaseLease, Sound, Typed, Queue
  <2> QED BY <2>1, <2>2 DEF Shrinks
<1>2. status \in Terminal /\ LogTyped(q.completed)
  BY DEF Terminal, Recorded
<1> HIDE DEF freed
<1>3. r.leases = {l \in freed.leases : l.job # job}
  BY <1>1, MarkDoneShrinks
<1>4. /\ LogTyped(r.completed)
      /\ Range(r.completed) \subseteq Replaced(q.completed, {job}, status)
  BY <1>1, <1>2, LogsOfTransitions
<1> HIDE DEF r
<1>5. \A l \in q.leases : l \in r.leases \/ l.job \in {job}
  BY <1>1, <1>3
<1> QED BY <1>2, <1>4, <1>5, ReplacedRecorded DEF r, freed

LEMMA FreedRecorded ==
  ASSUME NEW p, NEW q, Sound(q), Recorded(q, p), NEW job \in Job, NEW id,
         \A l \in q.leases : l.id # id
  PROVE  Recorded(ReleaseLease(q, id), p)
<1>1. ReleaseLease(q, id).leases = q.leases
  <2>1. ReleaseLease(q, id).leases = {l \in q.leases : l.id # id}
    BY ReleaseShrinks
  <2> QED BY <2>1
<1>2. ReleaseLease(q, id).completed = q.completed
  BY DEF ReleaseLease, Sound, Typed, Queue
<1> QED BY <1>1, <1>2 DEF Recorded, HasLease

(* A record is added; whoever has a lease keeps it.                        *)
LEMMA AddedRecorded ==
  ASSUME NEW p, NEW q, Recorded(q, p), NEW r, LogTyped(r.completed), NEW x,
         Range(r.completed) \subseteq Range(q.completed) \cup {x},
         x.status # "running", Explained(x, p), r.leases = q.leases
  PROVE  Recorded(r, p)
<1> SUFFICES ASSUME NEW y \in Range(r.completed)
             PROVE  (y.status = "running" => HasLease(r, y.job)) /\ Explained(y, p)
  BY DEF Recorded
<1>1. CASE y \in Range(q.completed)
  BY <1>1 DEF Recorded, HasLease
<1>2. CASE y = x
  BY <1>2
<1> QED BY <1>1, <1>2

LEMMA CancelledRecorded ==
  ASSUME NEW p, NEW q, Sound(q), Recorded(q, p), NEW job \in Job, job \in Cancellable
  PROVE  Recorded(CancelPending(q, job), p)
<1> DEFINE r == CancelPending(q, job)
<1>1. /\ LogTyped(r.completed)
      /\ Range(r.completed)
           \subseteq Range(q.completed) \cup {[job |-> job, status |-> "cancelled"]}
  BY LogsOfTransitions DEF Recorded
<1>2. r.leases = q.leases
  BY CancelShrinks
<1> HIDE DEF r
<1>3. PICK x : x = [job |-> job, status |-> "cancelled"]
  OBVIOUS
<1>4. x.status # "running" /\ Explained(x, p)
  BY <1>3 DEF Explained
<1>5. Recorded(r, p)
  BY <1>1, <1>2, <1>3, <1>4, AddedRecorded
<1> QED BY <1>5 DEF r

LEMMA TimedOutRecorded ==
  ASSUME NEW p, NEW q, Sound(q), Recorded(q, p), NEW c \in Client, p[c] = "timedOut"
  PROVE  Recorded(MarkTimeout(q, JobOf[c]), p)
<1> DEFINE job == JobOf[c]
           r == MarkTimeout(q, job)
<1>0. job \in Job
  BY ClientAssumption
<1> HIDE DEF job
<1>1. /\ LogTyped(r.completed)
      /\ Range(r.completed)
           \subseteq Range(q.completed) \cup {[job |-> job, status |-> "timeout"]}
  BY <1>0, LogsOfTransitions DEF Recorded
<1>2. r.leases = q.leases
  BY TimeoutShrinks
<1> HIDE DEF r
<1>3. PICK x : x = [job |-> job, status |-> "timeout"]
  OBVIOUS
<1>4. x.status # "running" /\ Explained(x, p)
  BY <1>3 DEF Explained, job
<1>5. Recorded(r, p)
  BY <1>1, <1>2, <1>3, <1>4, AddedRecorded
<1> QED BY <1>5 DEF r, job

(* Leases that were not there before have ids of their own.                *)
Grows(q, r) ==
  /\ r.issued \in Nat /\ q.issued <= r.issued
  /\ \A l \in r.leases : l \in q.leases \/ l.id > q.issued

LEMMA FewerGrow ==
  ASSUME NEW q, NEW r, Shrinks(q, r)
  PROVE  Grows(q, r)
BY DEF Shrinks, Grows, Sound, Typed

LEMMA StartedGrows ==
  ASSUME NEW q, NEW a, q.issued \in Nat, Grows(q, a), Sound(a), NEW cfg \in Policies
  PROVE  Grows(q, TryStart(a, cfg))
<1> DEFINE r == TryStart(a, cfg)
<1>1. cfg \in Policy
  BY PoliciesAreSound
<1>2. /\ \A l \in r.leases : l \in a.leases \/ l.id > a.issued
      /\ r.issued \in Nat /\ r.leases \subseteq Lease
  BY <1>1, TryStartIsSound DEF Sound, Typed
<1>3. a.issued <= r.issued
  <2>1. StartCount(a, cfg) \in 0 .. Len(a.pending)
    BY StartCountStops
  <2>2. r.issued = a.issued + StartCount(a, cfg)
    BY DEF TryStart, StartFirst
  <2>3. a.issued \in Nat /\ Len(a.pending) \in Nat
    BY DEF Sound, Typed
  <2> HIDE DEF r
  <2> QED BY <2>1, <2>2, <2>3
<1> HIDE DEF r
<1>4. \A l \in r.leases : l.id \in Nat
  BY <1>2 DEF Lease
<1> QED BY <1>2, <1>3, <1>4 DEF Grows, Sound, Typed, r

(* What a critical section that leaves q in the file owes: the log is in   *)
(* order, no id is given out again, and a client that runs has run before  *)
(* or was handed the lease of its job.                                     *)
LEMMA WriteRecords ==
  ASSUME LogInv, NEW q, Sound(q), Write(q), Recorded(q, pc'), Grows(queue, q),
         \A d \in Client : pc'[d] = "running" =>
           \/ pc[d] = "running" /\ held'[d] = held[d]
           \/ \E l \in q.leases : l.job = JobOf[d] /\ l.id = held'[d].id
  PROVE  Recorded(queue', pc') /\ HeldFor(queue', pc', held')
<1>1. queue' = q
  BY DEF Write
<1>2. ASSUME NEW d \in Client, pc'[d] = "running"
      PROVE  /\ held'[d].id <= q.issued
             /\ \A l \in q.leases : l.id = held'[d].id => l.job = JobOf[d]
  <2>1. CASE pc[d] = "running" /\ held'[d] = held[d]
    <3>1. /\ held[d].id <= queue.issued
          /\ \A l \in queue.leases : l.id = held[d].id => l.job = JobOf[d]
      BY <2>1 DEF LogInv, HeldFor
    <3>2. held[d].id \in Nat /\ queue.issued \in Nat
      BY DEF LogInv, IInv, Fits, Sound, Typed
    <3>3. \A l \in q.leases : l \in queue.leases \/ l.id # held[d].id
      BY <3>1, <3>2 DEF Grows, Sound, Typed, Lease
    <3> QED BY <2>1, <3>1, <3>2, <3>3 DEF Grows
  <2>2. CASE \E l \in q.leases : l.job = JobOf[d] /\ l.id = held'[d].id
    BY <2>2 DEF Sound, Once
  <2> QED BY <1>2, <2>1, <2>2
<1>3. HeldFor(q, pc', held')
  BY <1>2 DEF HeldFor
<1> QED BY <1>1, <1>3

(* A client moves on; an end it had come to is its end.                    *)
LEMMA EndsStayOnMove ==
  ASSUME LogInv, NEW q, Recorded(q, pc), NEW c \in Client, pc[c] \notin {"done", "timedOut"},
         \A d \in Client \ {c} : pc'[d] = pc[d]
  PROVE  Recorded(q, pc')
<1>1. \A d \in Client : pc[d] \in {"done", "timedOut"} => pc'[d] = pc[d]
  OBVIOUS
<1> QED BY <1>1, EndsStay

LEMMA SubmitRecords ==
  ASSUME LogInv, NEW c \in Client, Submit(c)
  PROVE  Recorded(queue', pc') /\ HeldFor(queue', pc', held')
<1>1. IInv /\ Sound(queue) /\ Recorded(queue, pc) /\ queue.issued \in Nat
  BY DEF LogInv, IInv, Fits, Sound, Typed
<1>2. /\ pc'[c] = "queued" /\ pc[c] = "new"
      /\ \A d \in Client \ {c} : pc'[d] = pc[d] /\ held'[d] = held[d]
  BY <1>1, GotoMoves DEF Submit
<1>3. Recorded(queue, pc')
  BY <1>1, <1>2, EndsStayOnMove
<1>4. JobOf[c] \in Job /\ Requested[c] \in Nat \ {0}
  BY ClientAssumption
<1> DEFINE asked == Enqueue(queue, JobOf[c], Requested[c])
<1>5. Sound(asked) /\ asked.leases = queue.leases /\ asked.issued = queue.issued
  BY <1>1, <1>4, EnqueueIsSound
<1>6. Recorded(asked, pc')
  BY <1>1, <1>3, <1>4, EnqueuedRecorded
<1>7. Write(queue) \/ Write(asked)
  BY DEF Submit
<1> HIDE DEF asked
<1>8. Grows(queue, queue) /\ Grows(queue, asked)
  BY <1>1, <1>5 DEF Grows
<1> QED BY <1>1, <1>2, <1>3, <1>5, <1>6, <1>7, <1>8, WriteRecords

LEMMA PollRecords ==
  ASSUME LogInv, NEW c \in Client, Poll(c)
  PROVE  Recorded(queue', pc') /\ HeldFor(queue', pc', held')
<1> DEFINE known   == EnsureKnown(Expired, c)
           started == TryStart(known, Config[c])
<1>1. /\ IInv /\ Sound(queue) /\ Recorded(queue, pc) /\ queue.issued \in Nat
      /\ pc[c] \in {"queued", "waiting"}
  BY DEF LogInv, IInv, Fits, Sound, Typed, Poll, Polling
<1>2. Sound(Expired) /\ Recorded(Expired, pc) /\ Grows(queue, Expired)
  BY <1>1, ExpireShrinks, ExpiredRecorded, FewerGrow DEF Expired, Shrinks
<1>3. /\ Sound(known)
      /\ known.leases = Expired.leases /\ known.issued = Expired.issued
  BY <1>1, ExpiredFit, KnownFit DEF Fits
<1>4. Recorded(known, pc)
  <2>1. JobOf[c] \in Job /\ Config[c].defaultSlots \in Nat \ {0}
    BY ClientAssumption DEF Policy
  <2>2. Recorded(Enqueue(Expired, JobOf[c], Config[c].defaultSlots), pc)
    BY <1>2, <2>1, EnqueuedRecorded
  <2> QED BY <1>2, <2>2 DEF EnsureKnown
<1>5. Grows(queue, known)
  BY <1>2, <1>3 DEF Grows
<1>6. /\ Sound(started) /\ Recorded(started, pc) /\ Grows(queue, started)
  <2>1. Config[c] \in Policies /\ Config[c] \in Policy
    BY PoliciesAreSound
  <2> HIDE DEF known
  <2> QED BY <1>1, <1>3, <1>4, <1>5, <2>1, StartedRecorded, StartedGrows, TryStartIsSound
<1> HIDE DEF known, started
<1>7. CASE PollRefused(c, Expired)
  <2>1. /\ Write(Expired) /\ pc'[c] = "refused"
        /\ \A d \in Client \ {c} : pc'[d] = pc[d] /\ held'[d] = held[d]
    BY <1>1, <1>7, GotoMoves DEF PollRefused
  <2>2. Recorded(Expired, pc')
    BY <1>1, <1>2, <2>1, EndsStayOnMove
  <2> QED BY <1>2, <2>1, <2>2, WriteRecords
<1>8. CASE PollGranted(c, started)
  <2>1. /\ Write(started) /\ HasLease(started, JobOf[c])
        /\ \E x : held' = [held EXCEPT ![c] = x]
    BY <1>8 DEF PollGranted
  <2>2. \A d \in Client \ {c} : pc'[d] = pc[d] /\ held'[d] = held[d]
    BY <1>1, <1>8, <2>1, GotoMoves DEF PollGranted
  <2>3. Recorded(started, pc')
    BY <1>1, <1>6, <2>2, EndsStayOnMove
  <2>4. \E l \in started.leases : l.job = JobOf[c] /\ l.id = held'[c].id
    <3> DEFINE m == LeaseOf(started, JobOf[c])
    <3>1. m \in started.leases /\ m.job = JobOf[c]
      BY <2>1 DEF LeaseOf, HasLease
    <3>2. held' = [held EXCEPT ![c] = [id |-> m.id, slots |-> m.slots]]
      BY <1>8 DEF PollGranted
    <3> HIDE DEF m
    <3> QED BY <1>1, <3>1, <3>2 DEF IInv
  <2> QED BY <1>6, <2>1, <2>2, <2>3, <2>4, WriteRecords
<1>9. CASE PollWaits(c, started)
  <2>1. /\ Write(started) /\ pc'[c] = "waiting"
        /\ \A d \in Client \ {c} : pc'[d] = pc[d] /\ held'[d] = held[d]
    BY <1>1, <1>9, GotoMoves DEF PollWaits
  <2>2. Recorded(started, pc')
    BY <1>1, <1>6, <2>1, EndsStayOnMove
  <2> QED BY <1>6, <2>1, <2>2, WriteRecords
<1> QED BY <1>7, <1>8, <1>9 DEF Poll, TryStart, known, started

(* The verdict of a client is its own: by then it has given up.            *)
LEMMA GiveUpRecords ==
  ASSUME LogInv, NEW c \in Client, GiveUp(c)
  PROVE  Recorded(queue', pc') /\ HeldFor(queue', pc', held')
<1>1. IInv /\ Sound(queue) /\ Recorded(queue, pc)
  BY DEF LogInv, IInv, Fits
<1>2. /\ Write(MarkTimeout(queue, JobOf[c])) /\ pc'[c] = "timedOut" /\ pc[c] = "waiting"
      /\ \A d \in Client \ {c} : pc'[d] = pc[d] /\ held'[d] = held[d]
  BY <1>1, GotoMoves DEF GiveUp
<1>3. Recorded(queue, pc')
  BY <1>1, <1>2, EndsStayOnMove
<1>4. Recorded(MarkTimeout(queue, JobOf[c]), pc')
  BY <1>1, <1>2, <1>3, TimedOutRecorded
<1>5. Sound(MarkTimeout(queue, JobOf[c])) /\ Grows(queue, MarkTimeout(queue, JobOf[c]))
  BY <1>1, TimeoutShrinks, FewerGrow DEF Shrinks
<1> QED BY <1>2, <1>4, <1>5, WriteRecords

(* The job that is called finished is the one of the client that returned: *)
(* the lease with the id it holds is a lease of its job.                   *)
LEMMA EndedRecorded ==
  ASSUME LogInv, NEW c \in Client, pc[c] = "running", Recorded(queue, pc'), pc'[c] = "done"
  PROVE  Sound(Ended(c)) /\ Recorded(Ended(c), pc') /\ Grows(queue, Ended(c))
<1>1. Sound(queue) /\ queue.issued \in Nat
  BY DEF LogInv, IInv, Fits, Sound, Typed
<1>2. /\ Shrinks(queue, Freed(c)) /\ Sound(Freed(c))
      /\ Freed(c) = ReleaseLease(queue, held[c].id)
  BY <1>1, ReleaseShrinks DEF Freed, Shrinks
<1>3. JobOf[c] \in Job /\ \A l \in queue.leases : l.id = held[c].id => l.job = JobOf[c]
  BY ClientAssumption DEF LogInv, HeldFor
<1>4. CASE Mine(c) = {}
  <2>1. Ended(c) = Freed(c) /\ \A l \in queue.leases : l.id # held[c].id
    BY <1>4 DEF Ended, Mine
  <2>2. Recorded(Freed(c), pc')
    BY <1>1, <1>2, <1>3, <2>1, FreedRecorded
  <2> QED BY <1>2, <2>1, <2>2, FewerGrow
<1>5. CASE Mine(c) # {}
  <2>1. Ended(c) = MarkDone(Freed(c), JobOf[c], "finished")
    BY <1>3, <1>5 DEF Ended, Mine
  <2>2. Explained([job |-> JobOf[c], status |-> "finished"], pc')
    BY DEF Explained
  <2>3. Recorded(Ended(c), pc')
    BY <1>1, <1>2, <1>3, <2>1, <2>2, DoneRecorded
  <2>4. Shrinks(Freed(c), Ended(c))
    BY <1>2, <2>1, MarkDoneShrinks
  <2>5. Shrinks(queue, Ended(c))
    BY <1>2, <2>4 DEF Shrinks
  <2> QED BY <2>3, <2>5, FewerGrow DEF Shrinks
<1> QED BY <1>4, <1>5

LEMMA ReleaseRecords ==
  ASSUME LogInv, NEW c \in Client, Release(c)
  PROVE  Recorded(queue', pc') /\ HeldFor(queue', pc', held')
<1>1. IInv /\ Recorded(queue, pc) /\ pc[c] = "running" /\ queue.issued \in Nat
  BY DEF LogInv, IInv, Fits, Sound, Typed, Release
<1>2. /\ pc'[c] = "done"
      /\ \A d \in Client \ {c} : pc'[d] = pc[d] /\ held'[d] = held[d]
  BY <1>1, GotoMoves DEF Release
<1>3. Recorded(queue, pc')
  BY <1>1, <1>2, EndsStayOnMove
<1>4. Sound(Ended(c)) /\ Recorded(Ended(c), pc') /\ Grows(queue, Ended(c))
  BY <1>1, <1>2, <1>3, EndedRecorded
<1> DEFINE started == TryStart(Ended(c), Config[c])
<1>5. Sound(started) /\ Recorded(started, pc') /\ Grows(queue, started)
  <2>1. Config[c] \in Policies /\ Config[c] \in Policy
    BY PoliciesAreSound
  <2> QED BY <1>1, <1>4, <2>1, StartedRecorded, StartedGrows, TryStartIsSound
<1>6. Write(started)
  BY DEF Release, Ended, Freed, Mine
<1> HIDE DEF started
<1> QED BY <1>2, <1>5, <1>6, WriteRecords

LEMMA CancelRecords ==
  ASSUME LogInv, NEW job \in Job, Cancel(job)
  PROVE  Recorded(queue', pc') /\ HeldFor(queue', pc', held')
<1> DEFINE id    == LeaseOf(queue, job).id
           freed == ReleaseLease(queue, id)
           gone  == IF HasLease(queue, job) THEN MarkDone(freed, job, "failed")
                    ELSE CancelPending(queue, job)
<1>1. /\ Sound(queue) /\ Recorded(queue, pc) /\ queue.issued \in Nat
      /\ AdminConfig \in Policies /\ AdminConfig \in Policy
  BY ClientAssumption DEF LogInv, IInv, Fits, Sound, Typed, Policies
<1>2. ASSUME HasLease(queue, job)
      PROVE  /\ Recorded(MarkDone(freed, job, "failed"), pc)
             /\ Shrinks(queue, MarkDone(freed, job, "failed"))
  <2>1. \A l \in queue.leases : l.id = id => l.job = job
    <3>1. LeaseOf(queue, job) \in queue.leases /\ LeaseOf(queue, job).job = job
      BY <1>2 DEF HasLease, LeaseOf
    <3> QED BY <1>1, <3>1 DEF Sound, Once
  <2> HIDE DEF id
  <2>2. Explained([job |-> job, status |-> "failed"], pc)
    BY DEF Explained
  <2>3. Recorded(MarkDone(freed, job, "failed"), pc)
    BY <1>1, <2>1, <2>2, DoneRecorded
  <2>4. Shrinks(queue, freed)
    BY <1>1, ReleaseShrinks
  <2> HIDE DEF freed
  <2>5. Shrinks(freed, MarkDone(freed, job, "failed"))
    BY <2>4, MarkDoneShrinks DEF Shrinks
  <2>6. Shrinks(queue, MarkDone(freed, job, "failed"))
    BY <2>4, <2>5 DEF Shrinks
  <2> QED BY <2>3, <2>6
<1>3. /\ Recorded(CancelPending(queue, job), pc)
      /\ Shrinks(queue, CancelPending(queue, job))
  BY <1>1, CancelledRecorded, CancelShrinks DEF Cancel
<1>4. Recorded(gone, pc) /\ Shrinks(queue, gone)
  BY <1>2, <1>3
<1>5. Write(TryStart(gone, AdminConfig)) /\ pc' = pc /\ held' = held
  BY DEF Cancel
<1> HIDE DEF gone
<1>6. Sound(gone) /\ Grows(queue, gone)
  BY <1>4, FewerGrow DEF Shrinks
<1>7. /\ Sound(TryStart(gone, AdminConfig)) /\ Recorded(TryStart(gone, AdminConfig), pc)
      /\ Grows(queue, TryStart(gone, AdminConfig))
  BY <1>1, <1>4, <1>6, StartedRecorded, StartedGrows, TryStartIsSound
<1> QED BY <1>5, <1>7, WriteRecords

LEMMA StatusRecords ==
  ASSUME LogInv, Status
  PROVE  Recorded(queue', pc') /\ HeldFor(queue', pc', held')
<1>1. /\ Sound(queue) /\ Recorded(queue, pc) /\ queue.issued \in Nat
      /\ AdminConfig \in Policies /\ AdminConfig \in Policy
  BY ClientAssumption DEF LogInv, IInv, Fits, Sound, Typed, Policies
<1>2. Sound(Expired) /\ Recorded(Expired, pc) /\ Grows(queue, Expired)
  BY <1>1, ExpireShrinks, ExpiredRecorded, FewerGrow DEF Expired, Shrinks
<1>3. /\ Sound(TryStart(Expired, AdminConfig)) /\ Recorded(TryStart(Expired, AdminConfig), pc)
      /\ Grows(queue, TryStart(Expired, AdminConfig))
  BY <1>1, <1>2, StartedRecorded, StartedGrows, TryStartIsSound
<1>4. Write(TryStart(Expired, AdminConfig)) /\ pc' = pc /\ held' = held
  BY DEF Status
<1> QED BY <1>3, <1>4, WriteRecords

(* The steps that do not write the file under the lock.  When the file is  *)
(* lost the log is, too, and the leases; the ids that were given out stay  *)
(* given out.                                                              *)
LEMMA OthersRecord ==
  ASSUME LogInv,
         \/ \E c \in Client : Crash(c)
         \/ \E l \in queue.leases : BecomeOverdue(l)
         \/ LoseState
         \/ UNCHANGED vars
  PROVE  Recorded(queue', pc') /\ HeldFor(queue', pc', held')
<1>1. IInv /\ Recorded(queue, pc) /\ HeldFor(queue, pc, held)
  BY DEF LogInv
<1>2. ASSUME NEW c \in Client, Crash(c)
      PROVE  Recorded(queue', pc') /\ HeldFor(queue', pc', held')
  <2>1. /\ pc'[c] = "crashed" /\ pc[c] \in {"queued", "waiting", "running"}
        /\ \A d \in Client \ {c} : pc'[d] = pc[d] /\ held'[d] = held[d]
        /\ queue' = queue
    BY <1>1, <1>2, GotoMoves DEF Crash
  <2>2. Recorded(queue, pc')
    BY <1>1, <2>1, EndsStayOnMove
  <2>3. HeldFor(queue, pc', held')
    BY <1>1, <2>1 DEF HeldFor
  <2> QED BY <2>1, <2>2, <2>3
<1>3. ASSUME LoseState
      PROVE  Recorded(queue', pc') /\ HeldFor(queue', pc', held')
  <2>1. /\ queue'.completed = <<>> /\ queue'.leases = {} /\ queue'.issued = queue.issued
        /\ pc' = pc /\ held' = held
    BY <1>3 DEF LoseState, EmptyQueue
  <2>2. LogTyped(<<>>) /\ Range(<<>>) = {}
    BY RecentLimitAssumption DEF LogTyped, Range
  <2>3. Recorded(queue', pc')
    BY <2>1, <2>2 DEF Recorded
  <2>4. HeldFor(queue', pc', held')
    BY <1>1, <2>1 DEF HeldFor
  <2> QED BY <2>3, <2>4
<1>4. CASE UNCHANGED <<queue, pc, held>>
  BY <1>1, <1>4
<1> QED BY <1>2, <1>3, <1>4 DEF BecomeOverdue, vars

LEMMA LogKept == ASSUME LogInv, [Next]_vars PROVE Recorded(queue', pc') /\ HeldFor(queue', pc', held')
<1>1. ASSUME NEW c \in Client, ClientStep(c)
      PROVE  Recorded(queue', pc') /\ HeldFor(queue', pc', held')
  <2>1. CASE Submit(c)
    BY <2>1, SubmitRecords
  <2>2. CASE Poll(c)
    BY <2>2, PollRecords
  <2>3. CASE GiveUp(c)
    BY <2>3, GiveUpRecords
  <2>4. CASE Release(c)
    BY <2>4, ReleaseRecords
  <2>5. CASE Crash(c)
    BY <2>5, OthersRecord
  <2> QED BY <1>1, <2>1, <2>2, <2>3, <2>4, <2>5 DEF ClientStep
<1>2. ASSUME NEW job \in Job, Cancel(job)
      PROVE  Recorded(queue', pc') /\ HeldFor(queue', pc', held')
  BY <1>2, CancelRecords
<1>3. CASE Status
  BY <1>3, StatusRecords
<1>4. CASE \/ \E l \in queue.leases : BecomeOverdue(l)
           \/ LoseState
           \/ UNCHANGED vars
  BY <1>4, OthersRecord
<1> QED BY <1>1, <1>2, <1>3, <1>4 DEF Next

(* IInv, the log and the ids that are held are an invariant together.      *)
THEOREM LogInvariance == Spec => []LogInv
<1> DEFINE L == Recorded(queue, pc) /\ HeldFor(queue, pc, held)
<1>1. ASSUME Init PROVE L
  <2>1. queue.completed = <<>> /\ queue.leases = {} /\ \A c \in Client : pc[c] = "new"
    BY <1>1 DEF Init, EmptyQueue
  <2>2. LogTyped(<<>>) /\ Range(<<>>) = {}
    BY RecentLimitAssumption DEF LogTyped, Range
  <2> QED BY <2>1, <2>2 DEF Recorded, HeldFor
<1>2. ASSUME IInv, L, [Next]_vars PROVE L'
  <2>1. LogInv
    BY <1>2 DEF LogInv
  <2> QED BY <1>2, <2>1, LogKept
<1>3. IInv /\ L => LogInv
  BY DEF LogInv
<1>4. /\ Init => L
      /\ IInv /\ L /\ [Next]_vars => L'
      /\ IInv /\ L => LogInv
  BY <1>1, <1>2, <1>3
<1> HIDE DEF L
<1> QED BY <1>4, Invariance, PTL DEF Spec

(* A job that is recorded as running has a lease, after every one of the   *)
(* paths through the file (_mark_done, acquire_lease_for_request and the   *)
(* others that write a record): a poll for it ends with a lease, or once   *)
(* the lease is overdue.  The log stays within its limit.                  *)
THEOREM RunningRecordsHaveLeases == Spec => []RecordsBacked
<1>1. LogInv => RecordsBacked
  BY DEF LogInv, RecordsBacked, Recorded, LogTyped, Range
<1> QED BY <1>1, LogInvariance, PTL

(* Nobody's job is recorded as finished, timed out or cancelled on account *)
(* of what happened to another's, though a release goes by the lease's id  *)
(* and the file may have been lost and filled again meanwhile.             *)
THEOREM RecordedEndsAreTrue == Spec => []RecordsHonest
<1>1. ASSUME LogInv PROVE RecordsHonest
  <2> SUFFICES ASSUME NEW i \in DOMAIN queue.completed, NEW r, r = queue.completed[i]
               PROVE  LET ends == {pc[c] : c \in {d \in Client : JobOf[d] = r.job}}
                      IN /\ r.status = "finished"  => "done" \in ends
                         /\ r.status = "timeout"   => "timedOut" \in ends
                         /\ r.status = "cancelled" => r.job \in Cancellable
    BY DEF RecordsHonest
  <2>1. Explained(r, pc)
    BY <1>1 DEF LogInv, Recorded, Range
  <2> QED BY <2>1 DEF Explained
<1>2. LogInv => RecordsHonest
  BY <1>1
<1> QED BY <1>2, LogInvariance, PTL

-------------------------------------------------------------------------------
(* What a running workflow can rely on.  Its lease goes only if somebody   *)
(* takes it away: another process that works for the same job, the age     *)
(* limit, a cancellation or the loss of the file.  cli.py gives every      *)
(* process a job of its own and never cancels; the other two are assumed   *)
(* away here, and the runs show what they break.                           *)
Undisturbed ==
  /\ \A c, d \in Client : JobOf[c] = JobOf[d] => c = d
  /\ MayOutlive = {}
  /\ Cancellable = {}
  /\ MaxLosses = 0

LeaseHeld(c) == [id |-> held[c].id, job |-> JobOf[c], slots |-> held[c].slots]

(* The inductive invariant: the lease is there, and it is not overdue, so  *)
(* that no poll will expire it.                                            *)
Holds(c) == LeaseHeld(c) \in queue.leases /\ held[c].id \notin overdue

RInv == IInv /\ \A c \in Running : Holds(c)

(* Whoever runs on keeps its lease in a file that still has it.            *)
LEMMA RunsOn ==
  ASSUME RInv, NEW q, Write(q), NEW c \in Running,
         held'[c] = held[c], LeaseHeld(c) \in q.leases
  PROVE  Holds(c)'
BY DEF RInv, Holds, LeaseHeld, Write

LEMMA RunningSurvives ==
  ASSUME RInv, NEW c \in Running
  PROVE  LeaseHeld(c) \in Expired.leases
<1>1. Expired.leases = {l \in queue.leases : l.id \notin overdue}
  BY ExpireShrinks DEF RInv, IInv, Fits, Expired
<1> QED BY <1>1 DEF RInv, Holds, LeaseHeld

LEMMA PollHolds ==
  ASSUME Undisturbed, RInv, NEW d \in Client, Poll(d), NEW c \in Running'
  PROVE  Holds(c)'
<1> DEFINE known   == EnsureKnown(Expired, d)
           started == TryStart(known, Config[d])
<1>1. /\ Fits(Expired) /\ Expired.issued = queue.issued
      /\ Expired.leases = {l \in queue.leases : l.id \notin overdue}
  BY ExpiredFit, ExpireShrinks DEF RInv, IInv, Fits, Expired, Shrinks
<1>2. /\ Fits(known) /\ known.leases = Expired.leases /\ known.issued = queue.issued
  BY <1>1, KnownFit
<1>3. Config[d] \in Policies /\ Config[d] \in Policy
  BY PoliciesAreSound
<1>4. /\ Fits(started) /\ known.leases \subseteq started.leases
      /\ \A l \in started.leases : l \in known.leases \/ l.id > queue.issued
  <2> HIDE DEF known
  <2> QED BY <1>2, <1>3, StartedFit, TryStartIsSound DEF Fits
<1> HIDE DEF known, started
<1>5. CASE c \in Running /\ held'[c] = held[c]
  <2>1. LeaseHeld(c) \in Expired.leases /\ LeaseHeld(c) \in started.leases
    BY <1>2, <1>4, <1>5, RunningSurvives
  <2>2. Write(Expired) \/ Write(started)
    BY DEF Poll, PollRefused, PollGranted, PollWaits, TryStart, known, started
  <2> QED BY <1>5, <2>1, <2>2, RunsOn
<1>6. CASE c = d /\ PollGranted(d, started)
  <2>1. Write(started) /\ HasLease(started, JobOf[d])
    BY <1>6 DEF PollGranted
  <2> DEFINE l == LeaseOf(started, JobOf[d])
  <2>2. l \in started.leases /\ l.job = JobOf[d] /\ l \in Lease
    BY <1>4, <2>1, LeaseFound
  <2>3. held' = [held EXCEPT ![d] = [id |-> l.id, slots |-> l.slots]]
    BY <1>6 DEF PollGranted
  <2> HIDE DEF l
  <2>4. held'[d].id = l.id /\ held'[d].slots = l.slots
    BY <2>3 DEF RInv, IInv
  <2>5. LeaseHeld(c)' = l
    BY <1>6, <2>2, <2>4 DEF LeaseHeld, Lease
  <2>6. l.id \notin overdue
    <3>1. \A i \in overdue : i <= queue.issued
      BY DEF RInv, IInv, Ids, Fits, Sound, Once
    <3>2. queue.issued \in Nat /\ l.id \in Nat
      BY <2>2 DEF RInv, IInv, Fits, Sound, Typed, Lease
    <3>3. CASE l \in known.leases
      BY <1>1, <1>2, <3>3
    <3>4. CASE l.id > queue.issued
      BY <3>1, <3>2, <3>4
    <3> QED BY <1>4, <2>2, <3>3, <3>4
  <2>7. queue' = started /\ overdue' \subseteq overdue
    BY <2>1 DEF Write
  <2>8. LeaseHeld(c)' \in queue'.leases /\ held'[c].id \notin overdue'
    BY <1>6, <2>2, <2>4, <2>5, <2>6, <2>7
  <2> QED BY <2>8 DEF Holds
<1>7. \/ c \in Running /\ held'[c] = held[c]
      \/ c = d /\ PollGranted(d, started)
  <2>1. CASE PollGranted(d, started)
    <3>1. c # d => c \in Running /\ held'[c] = held[c]
      BY <2>1 DEF PollGranted, Running, Goto, RInv, IInv
    <3> QED BY <2>1, <3>1
  <2>2. CASE PollRefused(d, Expired) \/ PollWaits(d, started)
    BY <2>2 DEF PollRefused, PollWaits, Running, Goto, RInv, IInv
  <2> QED BY <2>1, <2>2 DEF Poll, TryStart, known, started
<1> QED BY <1>5, <1>6, <1>7

LEMMA ReleaseHolds ==
  ASSUME Undisturbed, RInv, NEW d \in Client, Release(d), NEW c \in Running'
  PROVE  Holds(c)'
<1>1. c \in Running /\ d \in Running /\ c # d /\ held'[c] = held[c]
  BY DEF Release, Goto, Running, RInv, IInv
<1>2. LeaseHeld(c) \in queue.leases /\ LeaseHeld(d) \in queue.leases
  BY <1>1 DEF RInv, Holds
<1>3. JobOf[c] # JobOf[d]
  BY <1>1 DEF Undisturbed, Running
<1>4. \A m \in Mine(d) : m = LeaseHeld(d)
  BY <1>2 DEF Mine, LeaseHeld, RInv, IInv, Fits, Sound, Once
<1>5. held[c].id # held[d].id
  BY <1>2, <1>3 DEF LeaseHeld, RInv, IInv, Fits, Sound, Once
<1>6. LeaseHeld(c) \in Ended(d).leases
  <2>1. LeaseHeld(c).id = held[c].id /\ LeaseHeld(c).job = JobOf[c] /\ LeaseHeld(d).job = JobOf[d]
    BY DEF LeaseHeld
  <2> QED BY <1>2, <1>3, <1>4, <1>5, <2>1, EndedFit DEF RInv
<1>7. Ended(d).leases \subseteq TryStart(Ended(d), Config[d]).leases
  BY EndedFit, TryStartIsSound, PoliciesAreSound DEF RInv, Fits
<1>8. Write(TryStart(Ended(d), Config[d]))
  BY DEF Release, Ended, Freed, Mine
<1> QED BY <1>1, <1>6, <1>7, <1>8, RunsOn

LEMMA OtherStepsHold ==
  ASSUME Undisturbed, RInv, [Next]_vars,
         ~ (\E d \in Client : Poll(d) \/ Release(d)),
         NEW c \in Running'
  PROVE  Holds(c)'
<1>0. IInv /\ Fits(queue)
  BY DEF RInv, IInv
<1>1. ASSUME NEW d \in Client, Submit(d)
      PROVE  Holds(c)'
  <2>1. c \in Running /\ held'[c] = held[c]
    BY <1>1 DEF Submit, Goto, Running, IInv, RInv
  <2>2. JobOf[d] \in Job /\ Requested[d] \in Nat \ {0}
    BY ClientAssumption
  <2>3. PICK q : Write(q) /\ q.leases = queue.leases
    BY <1>0, <1>1, <2>2, EnqueueIsSound DEF Submit, Fits
  <2> QED BY <2>1, <2>3, RunsOn DEF RInv, Holds
<1>2. ASSUME NEW d \in Client, GiveUp(d)
      PROVE  Holds(c)'
  <2>1. c \in Running /\ held'[c] = held[c]
    BY <1>2 DEF GiveUp, Goto, Running, IInv, RInv
  <2>2. Write(MarkTimeout(queue, JobOf[d]))
    BY <1>2 DEF GiveUp
  <2>3. MarkTimeout(queue, JobOf[d]).leases = queue.leases
    BY <1>0, TimeoutShrinks DEF Fits
  <2> QED BY <2>1, <2>2, <2>3, RunsOn DEF RInv, Holds
<1>3. ASSUME NEW d \in Client, Crash(d)
      PROVE  Holds(c)'
  <2>1. c \in Running /\ held'[c] = held[c] /\ UNCHANGED <<queue, overdue>>
    BY <1>3 DEF Crash, Goto, Running, IInv, RInv
  <2> QED BY <2>1 DEF RInv, Holds, LeaseHeld
<1>4. ASSUME Status
      PROVE  Holds(c)'
  <2>1. c \in Running /\ held'[c] = held[c] /\ Write(TryStart(Expired, AdminConfig))
    BY <1>4 DEF Status, Running
  <2>2. Expired.leases \subseteq TryStart(Expired, AdminConfig).leases
    BY <1>0, ExpiredFit, TryStartIsSound, ClientAssumption DEF Fits
  <2> QED BY <2>1, <2>2, RunningSurvives, RunsOn
<1>5. ASSUME NEW l \in queue.leases, BecomeOverdue(l)
      PROVE  Holds(c)'
  <2>1. /\ c \in Running /\ held' = held /\ queue' = queue
        /\ overdue' = overdue \cup {l.id}
    BY <1>5 DEF BecomeOverdue, Running
  <2>2. held[c].id # l.id
    BY <1>5, <2>1 DEF BecomeOverdue, Running, Undisturbed
  <2> QED BY <2>1, <2>2 DEF RInv, Holds, LeaseHeld
<1>6. ASSUME UNCHANGED vars
      PROVE  Holds(c)'
  BY <1>6 DEF vars, RInv, Holds, LeaseHeld, Running
<1>7. ~ LoseState /\ \A job \in Job : ~ Cancel(job)
  BY <1>0 DEF LoseState, Cancel, Undisturbed, IInv
<1> QED BY <1>1, <1>2, <1>3, <1>4, <1>5, <1>6, <1>7 DEF Next, ClientStep

LEMMA HoldingInvariance == ASSUME Undisturbed PROVE Spec => []RInv
<1>1. ASSUME Init PROVE \A c \in Running : Holds(c)
  BY <1>1 DEF Init, Running
<1>2. ASSUME RInv, [Next]_vars PROVE \A c \in Running' : Holds(c)'
  <2> TAKE c \in Running'
  <2>1. CASE \E d \in Client : Poll(d)
    BY <1>2, <2>1, PollHolds
  <2>2. CASE \E d \in Client : Release(d)
    BY <1>2, <2>2, ReleaseHolds
  <2>3. CASE ~ (\E d \in Client : Poll(d) \/ Release(d))
    BY <1>2, <2>3, OtherStepsHold
  <2> QED BY <2>1, <2>2, <2>3
<1> DEFINE AllHold == \A c \in Running : Holds(c)
<1>3. Init => AllHold
  BY <1>1
<1>4. IInv /\ AllHold /\ [Next]_vars => AllHold'
  BY <1>2 DEF RInv
<1>5. RInv <=> IInv /\ AllHold
  BY DEF RInv
<1> HIDE DEF AllHold
<1> QED BY <1>3, <1>4, <1>5, Invariance, PTL DEF Spec

(* A workflow that runs has its lease in the file all the time, however    *)
(* many others poll, give up or crash meanwhile.                           *)
THEOREM RunningIsBacked == ASSUME Undisturbed PROVE Spec => []RunningHoldsLease
<1>1. RInv => RunningHoldsLease
  BY DEF RInv, RunningHoldsLease, Holds, LeaseHeld
<1> QED BY <1>1, HoldingInvariance, PTL

(* What the queue is for: the workflows that run at the same time, and the *)
(* force workers they may start, are within the pool, because each stands  *)
(* for a lease of its own and each worker for one of its slots.            *)
THEOREM WorkersFit == ASSUME Undisturbed PROVE Spec => []WorkersWithinPool
<1> DEFINE Workers == UNION {{c} \X (1 .. ForceWorkers(c)) : c \in Running}
           lease == [c \in Running |-> LeaseHeld(c)]
           slot  == [w \in Workers |-> <<held[w[1]].id, w[2]>>]
<1>1. ASSUME RInv PROVE WorkersWithinPool
  <2>1. IsFiniteSet(queue.leases) /\ queue.leases \subseteq Lease
    BY <1>1 DEF RInv, IInv, Fits, Sound, Typed
  <2>2. \A c \in Running : LeaseHeld(c) \in queue.leases
    BY <1>1 DEF RInv, Holds
  <2>3. \A c, d \in Running : held[c].id = held[d].id => c = d
    <3> SUFFICES ASSUME NEW c \in Running, NEW d \in Running, held[c].id = held[d].id
                 PROVE  c = d
      OBVIOUS
    <3>1. LeaseHeld(c) = LeaseHeld(d)
      BY <1>1, <2>2 DEF LeaseHeld, RInv, IInv, Fits, Sound, Once
    <3>2. JobOf[c] = JobOf[d]
      BY <3>1 DEF LeaseHeld
    <3> QED BY <3>2 DEF Undisturbed, Running
  <2>4. lease \in Injection(Running, queue.leases)
    <3>1. lease \in [Running -> queue.leases]
      BY <2>2
    <3>2. \A c, d \in Running : lease[c] = lease[d] => c = d
      BY <2>3 DEF LeaseHeld
    <3> HIDE DEF lease
    <3> QED BY <3>1, <3>2 DEF Injection, IsInjective
  <2>5. IsFiniteSet(Running) /\ Cardinality(Running) <= Cardinality(queue.leases)
    <3> HIDE DEF lease
    <3> QED BY <2>1, <2>4, FS_Injection
  <2>6. \A c \in Running : ForceWorkers(c) \in Nat /\ ForceWorkers(c) <= held[c].slots
    BY <1>1, ClientAssumption DEF ForceWorkers, Smaller, None, RInv, IInv, Running
  <2>7. slot \in [Workers -> SlotsOf(queue.leases)]
    <3> SUFFICES ASSUME NEW w \in Workers
                 PROVE  <<held[w[1]].id, w[2]>> \in SlotsOf(queue.leases)
      OBVIOUS
    <3>1. PICK c \in Running : w \in {c} \X (1 .. ForceWorkers(c))
      OBVIOUS
    <3>2. <<held[c].id, w[2]>> \in {LeaseHeld(c).id} \X (1 .. LeaseHeld(c).slots)
      <4>1. w[1] = c /\ w[2] \in 1 .. ForceWorkers(c) /\ held[c].slots \in Nat
        BY <1>1, <3>1 DEF RInv, IInv, Running
      <4>2. w[2] \in 1 .. held[c].slots
        BY <2>6, <4>1
      <4> QED BY <4>2 DEF LeaseHeld
    <3>3. w[1] = c
      BY <3>1
    <3> QED BY <2>2, <3>2, <3>3 DEF SlotsOf
  <2>8. \A v, w \in Workers : slot[v] = slot[w] => v = w
    <3> SUFFICES ASSUME NEW v \in Workers, NEW w \in Workers,
                        <<held[v[1]].id, v[2]>> = <<held[w[1]].id, w[2]>>
                 PROVE  v = w
      OBVIOUS
    <3>1. PICK c \in Running : v \in {c} \X (1 .. ForceWorkers(c))
      OBVIOUS
    <3>2. PICK d \in Running : w \in {d} \X (1 .. ForceWorkers(d))
      OBVIOUS
    <3>3. v = <<c, v[2]>> /\ w = <<d, w[2]>>
      BY <3>1, <3>2
    <3>4. held[c].id = held[d].id /\ v[2] = w[2]
      BY <3>3
    <3> QED BY <2>3, <3>3, <3>4
  <2>9. IsFiniteSet(SlotsOf(queue.leases)) /\ UsedSlots(queue.leases) \in Nat
    BY <2>1, SlotsAreFinite
  <2>10. IsFiniteSet(Workers) /\ Cardinality(Workers) <= UsedSlots(queue.leases)
    <3> HIDE DEF slot, Workers
    <3>1. slot \in Injection(Workers, SlotsOf(queue.leases))
      BY <2>7, <2>8 DEF Injection, IsInjective
    <3> QED BY <2>9, <3>1, FS_Injection DEF UsedSlots
  <2>11. Cardinality(Running) \in Nat /\ Cardinality(Workers) \in Nat
         /\ Cardinality(queue.leases) \in Nat
    BY <2>1, <2>5, <2>10, FS_CardinalityType
  <2>12. \A cfg \in Policies : cfg.maxRunning \in Nat /\ cfg.total \in Nat
    BY PoliciesAreSound DEF Policy
  <2> HIDE DEF Workers
  <2>13. \E cfg \in Policies : Cardinality(Running) <= cfg.maxRunning
    BY <1>1, <2>5, <2>11, <2>12 DEF RInv, IInv, Fits, Bounded
  <2>14. \E cfg \in Policies : Cardinality(Workers) <= cfg.total
    BY <1>1, <2>9, <2>10, <2>11, <2>12 DEF RInv, IInv, Fits, Bounded
  <2> QED BY <2>13, <2>14 DEF WorkersWithinPool, Workers
<1>2. RInv => WorkersWithinPool
  BY <1>1
<1> QED BY <1>2, HoldingInvariance, PTL

-------------------------------------------------------------------------------
(* The file queue implements FifoSlotPool: the order of service and the    *)
(* limits hold in every step of any number of processes, jobs and policies,*)
(* with cancellations, expiry, crashes and losses of the file.             *)

(* What the abstract pool sees of a file.                                  *)
Line(q)       == [i \in DOMAIN q.pending |-> q.pending[i].job]
Handed(L)     == {[job |-> l.job, slots |-> l.slots] : l \in L}
JobsIn(line)  == {line[i] : i \in DOMAIN line}
JobsOf(H)     == {h.job : h \in H}
Kept(line, J) == KeepAt(line, {i \in DOMAIN line : line[i] \notin J})

-------------------------------------------------------------------------------
(* Lists.                                                                  *)
LEMMA LinesAreLists ==
  ASSUME NEW q, Sound(q)
  PROVE  /\ q.pending \in Seq(Request) /\ Line(q) \in Seq(Job)
         /\ Len(Line(q)) = Len(q.pending) /\ Len(q.pending) \in Nat
         /\ DOMAIN Line(q) = 1 .. Len(q.pending) /\ DOMAIN q.pending = 1 .. Len(q.pending)
         /\ \A i \in 1 .. Len(q.pending) : Line(q)[i] = q.pending[i].job
         /\ JobsIn(Line(q)) = PendingJobs(q)
<1>1. q.pending \in Seq(Request) /\ Len(q.pending) \in Nat /\ DOMAIN q.pending = 1 .. Len(q.pending)
  BY DEF Sound, Typed
<1>2. \A i \in 1 .. Len(q.pending) : q.pending[i].job \in Job
  <2>1. \A i \in 1 .. Len(q.pending) : q.pending[i] \in Request
    BY <1>1
  <2> QED BY <2>1 DEF Request
<1>3. Line(q) \in Seq(Job) /\ Len(Line(q)) = Len(q.pending)
  BY <1>1, <1>2 DEF Line
<1> QED BY <1>1, <1>3 DEF Line, JobsIn, PendingJobs

(* A filter that everything passes.                                        *)
LEMMA KeepsAll ==
  ASSUME NEW S, NEW s \in Seq(S)
  PROVE  KeepAt(s, DOMAIN s) = s
<1> DEFINE n == Len(s)
<1>1. n \in Nat /\ DOMAIN s = 1 .. n
  OBVIOUS
<1>2. ASSUME NEW i \in 1 .. n PROVE Rank(1 .. n, i) = i
  <2>1. {k \in 1 .. n : k <= i} = 1 .. i
    BY <1>1
  <2>2. i \in Nat /\ 1 <= i /\ Cardinality(1 .. i) = i
    BY <1>1, FS_Interval
  <2> QED BY <2>1, <2>2 DEF Rank
<1>3. Cardinality(1 .. n) = n
  BY <1>1, FS_Interval
<1>4. /\ KeepAt(s, 1 .. n) \in Seq(S) /\ Len(KeepAt(s, 1 .. n)) = n
      /\ \A m \in 1 .. n : /\ Place(1 .. n, m) \in 1 .. n
                           /\ Rank(1 .. n, Place(1 .. n, m)) = m
                           /\ KeepAt(s, 1 .. n)[m] = s[Place(1 .. n, m)]
  BY <1>3, KeepAtEntries
<1>5. \A m \in 1 .. n : KeepAt(s, 1 .. n)[m] = s[m]
  BY <1>2, <1>4
<1> HIDE DEF n
<1> QED BY <1>1, <1>4, <1>5

LEMMA KeptIsShorter ==
  ASSUME NEW line \in Seq(Job), NEW J
  PROVE  Kept(line, J) \in Seq(Job) /\ Len(Kept(line, J)) <= Len(line) /\ Kept(line, {}) = line
<1> DEFINE K == {i \in DOMAIN line : line[i] \notin J}
<1>1. \A k \in K : k \in 1 .. Len(line)
  OBVIOUS
<1>2. Cardinality(K) <= Len(line)
  <2>1. K \subseteq 1 .. Len(line) /\ Len(line) \in Nat
    OBVIOUS
  <2>2. IsFiniteSet(1 .. Len(line)) /\ Cardinality(1 .. Len(line)) = Len(line)
    BY <2>1, FS_Interval
  <2> HIDE DEF K
  <2> QED BY <2>1, <2>2, FS_Subset
<1>3. {i \in DOMAIN line : line[i] \notin {}} = DOMAIN line
  OBVIOUS
<1>4. Kept(line, {}) = line
  BY <1>3, KeepsAll DEF Kept
<1>5. KeepAt(line, K) \in Seq(Job) /\ Len(KeepAt(line, K)) = Cardinality(K)
  <2> HIDE DEF K
  <2> QED BY <1>1, KeepAtEntries
<1> QED BY <1>2, <1>4, <1>5 DEF Kept

(* Filtering the requests filters their jobs.                              *)
LEMMA LineOfKept ==
  ASSUME NEW q, Sound(q), NEW J, NEW r, Sound(r), r.pending = WithoutJobs(q.pending, J)
  PROVE  Line(r) = Kept(Line(q), J \cap PendingJobs(q))
<1> DEFINE K == {i \in DOMAIN q.pending : q.pending[i].job \notin J}
<1>1. \A k \in K : k \in 1 .. Len(q.pending)
  BY LinesAreLists
<1>2. {i \in DOMAIN Line(q) : Line(q)[i] \notin J \cap PendingJobs(q)} = K
  BY LinesAreLists DEF JobsIn
<1>3. r.pending = KeepAt(q.pending, K)
  BY DEF WithoutJobs
<1> HIDE DEF K
<1>4. /\ Cardinality(K) \in Nat /\ KeepAt(q.pending, K) \in Seq(Request)
      /\ Len(KeepAt(q.pending, K)) = Cardinality(K)
      /\ \A n \in 1 .. Cardinality(K) : Place(K, n) \in K /\ KeepAt(q.pending, K)[n] = q.pending[Place(K, n)]
  BY <1>1, LinesAreLists, KeepAtEntries
<1>5. /\ KeepAt(Line(q), K) \in Seq(Job) /\ Len(KeepAt(Line(q), K)) = Cardinality(K)
      /\ \A n \in 1 .. Cardinality(K) : KeepAt(Line(q), K)[n] = Line(q)[Place(K, n)]
  BY <1>1, LinesAreLists, KeepAtEntries
<1>6. Line(r) \in Seq(Job) /\ Len(Line(r)) = Cardinality(K)
  BY <1>3, <1>4, LinesAreLists
<1>7. \A n \in 1 .. Cardinality(K) : Line(r)[n] = KeepAt(Line(q), K)[n]
  BY <1>1, <1>3, <1>4, <1>5, LinesAreLists
<1>8. Line(r) = KeepAt(Line(q), K)
  BY <1>4, <1>5, <1>6, <1>7
<1> QED BY <1>2, <1>8 DEF Kept

-------------------------------------------------------------------------------
(* Some leave: what the transitions do that take something away.           *)
Leave(q, r) ==
  /\ Shrinks(q, r)
  /\ \E gone \in SUBSET PendingJobs(q) : Line(r) = Kept(Line(q), gone)

LEMMA FewerLeave ==
  ASSUME NEW q, Sound(q), NEW r, Shrinks(q, r), NEW J,
         r.pending = q.pending \/ r.pending = WithoutJobs(q.pending, J)
  PROVE  Leave(q, r)
<1>1. Sound(r)
  BY DEF Shrinks
<1>2. CASE r.pending = q.pending
  <2>1. Line(r) = Line(q)
    BY <1>2 DEF Line
  <2>2. Line(r) = Kept(Line(q), {})
    BY <2>1, LinesAreLists, KeptIsShorter
  <2> QED BY <2>2 DEF Leave
<1>3. CASE r.pending = WithoutJobs(q.pending, J)
  <2>1. Line(r) = Kept(Line(q), J \cap PendingJobs(q))
    BY <1>1, <1>3, LineOfKept
  <2> QED BY <2>1 DEF Leave
<1> QED BY <1>2, <1>3

LEMMA WhoIsLeft ==
  ASSUME NEW q, Sound(q), NEW job, NEW id, NEW status
  PROVE  /\ ReleaseLease(q, id).pending = q.pending
         /\ MarkDone(q, job, status).pending = WithoutJobs(q.pending, {job})
         /\ MarkTimeout(q, job).pending = WithoutJobs(q.pending, {job})
         /\ \/ CancelPending(q, job).pending = q.pending
            \/ CancelPending(q, job).pending = WithoutJobs(q.pending, {job})
<1> DEFINE kept == WithoutJobs(q.pending, {job})
<1>1. ReleaseLease(q, id).pending = q.pending
  <2> DEFINE L == {l \in q.leases : l.id # id}
  <2>1. ReleaseLease(q, id) = [q EXCEPT !.leases = L]
    BY DEF ReleaseLease
  <2> HIDE DEF L
  <2>2. ReleaseLease(q, id) = Queue(q.pending, L, q.completed, q.issued)
    BY <2>1, Updates DEF Sound
  <2> QED BY <2>2 DEF Queue
<1>2. MarkDone(q, job, status).pending = kept
  <2> DEFINE L   == {l \in q.leases : l.job # job}
             log == ReplaceRecord(q.completed, job, status)
  <2>1. MarkDone(q, job, status) = [q EXCEPT !.leases = L, !.pending = kept, !.completed = log]
    BY DEF MarkDone
  <2> HIDE DEF L, log, kept
  <2>2. MarkDone(q, job, status) = Queue(kept, L, log, q.issued)
    BY <2>1, Updates DEF Sound
  <2> QED BY <2>2 DEF Queue
<1>3. ASSUME NEW log PROVE [q EXCEPT !.pending = kept, !.completed = log].pending = kept
  <2> HIDE DEF kept
  <2>1. [q EXCEPT !.pending = kept, !.completed = log] = Queue(kept, q.leases, log, q.issued)
    BY Updates DEF Sound
  <2> QED BY <2>1 DEF Queue
<1>4. MarkTimeout(q, job).pending = kept
  BY <1>3 DEF MarkTimeout
<1>5. CancelPending(q, job).pending = q.pending \/ CancelPending(q, job).pending = kept
  BY <1>3 DEF CancelPending
<1> QED BY <1>1, <1>2, <1>4, <1>5

(* The jobs of expired leases do not wait, so that the line stays.         *)
LEMMA ExpiryKeepsLine ==
  ASSUME NEW q, Sound(q), NEW old
  PROVE  Line(ExpireStale(q, old)) = Line(q) /\ Leave(q, ExpireStale(q, old))
<1> DEFINE gone == {l \in q.leases : l.id \in old}
           jobs == {l.job : l \in gone}
           L    == {l \in q.leases \ gone : l.job \notin jobs}
           r    == ExpireStale(q, old)
<1>1. PICK log : ExpireStale(q, old) = [q EXCEPT !.leases = L, !.pending = WithoutJobs(q.pending, jobs), !.completed = log]
  BY Zenon DEF ExpireStale
<1>2. r.pending = WithoutJobs(q.pending, jobs)
  <2> HIDE DEF L, jobs
  <2>1. ExpireStale(q, old) = Queue(WithoutJobs(q.pending, jobs), L, log, q.issued)
    BY <1>1, Updates DEF Sound
  <2> QED BY <2>1 DEF Queue
<1>3. jobs \cap PendingJobs(q) = {}
  BY DEF Sound, Once
<1>4. Shrinks(q, r) /\ Sound(r)
  BY ExpireShrinks DEF Shrinks
<1> HIDE DEF jobs, r
<1>5. Line(r) = Kept(Line(q), jobs \cap PendingJobs(q)) /\ Leave(q, r)
  BY <1>2, <1>4, LineOfKept, FewerLeave
<1>6. Line(r) = Line(q)
  BY <1>3, <1>5, LinesAreLists, KeptIsShorter
<1> QED BY <1>5, <1>6 DEF r

LEMMA AnyoneMayLeave ==
  ASSUME NEW q, Sound(q), NEW job, q = queue
  PROVE  /\ Leave(q, q)
         /\ Leave(q, MarkTimeout(q, job))
         /\ Leave(q, CancelPending(q, job))
         /\ \A c \in Client : Leave(q, Ended(c))
         /\ \A id : Leave(q, MarkDone(ReleaseLease(q, id), job, "failed"))
<1>1. Leave(q, q)
  BY FewerLeave DEF Shrinks
<1>2. Leave(q, MarkTimeout(q, job))
  <2>1. Shrinks(q, MarkTimeout(q, job))
    BY TimeoutShrinks
  <2>2. MarkTimeout(q, job).pending = WithoutJobs(q.pending, {job})
    BY WhoIsLeft
  <2> QED BY <2>1, <2>2, FewerLeave
<1>3. Leave(q, CancelPending(q, job))
  <2>1. Shrinks(q, CancelPending(q, job))
    BY CancelShrinks
  <2>2. \/ CancelPending(q, job).pending = q.pending
        \/ CancelPending(q, job).pending = WithoutJobs(q.pending, {job})
    BY WhoIsLeft
  <2> QED BY <2>1, <2>2, FewerLeave
<1>4. ASSUME NEW id, NEW any, NEW status
      PROVE  Leave(q, MarkDone(ReleaseLease(q, id), any, status)) /\ Leave(q, ReleaseLease(q, id))
  <2> DEFINE freed == ReleaseLease(q, id)
  <2>1. Shrinks(q, freed) /\ freed.pending = q.pending /\ Sound(freed)
    BY ReleaseShrinks, WhoIsLeft DEF Shrinks
  <2> HIDE DEF freed
  <2>2. /\ Shrinks(freed, MarkDone(freed, any, status))
        /\ MarkDone(freed, any, status).pending = WithoutJobs(q.pending, {any})
    <3>1. Shrinks(freed, MarkDone(freed, any, status))
      BY <2>1, MarkDoneShrinks
    <3>2. MarkDone(freed, any, status).pending = WithoutJobs(freed.pending, {any})
      BY <2>1, WhoIsLeft
    <3> QED BY <2>1, <3>1, <3>2
  <2>3. Shrinks(q, MarkDone(freed, any, status))
    BY <2>1, <2>2 DEF Shrinks
  <2> QED BY <2>1, <2>2, <2>3, FewerLeave DEF freed
<1>5. ASSUME NEW c \in Client PROVE Leave(q, Ended(c))
  BY <1>4 DEF Ended, Freed
<1> QED BY <1>1, <1>2, <1>3, <1>4, <1>5

(* The loss of the file takes everybody.                                   *)
LEMMA AllMayLeave ==
  ASSUME NEW q, Sound(q)
  PROVE  Leave(q, [EmptyQueue EXCEPT !.issued = q.issued])
<1> DEFINE r == [EmptyQueue EXCEPT !.issued = q.issued]
<1>1. r.pending = <<>> /\ r.leases = {} /\ r.issued = q.issued
  BY DEF EmptyQueue
<1>2. Sound(r)
  BY EmptyFits DEF Fits, Sound, Typed
<1> HIDE DEF r
<1>3. Kept(Line(q), PendingJobs(q)) = <<>>
  <2>1. {i \in DOMAIN Line(q) : Line(q)[i] \notin PendingJobs(q)} = {}
    BY LinesAreLists DEF JobsIn
  <2>2. KeepAt(Line(q), {}) \in Seq(Job) /\ Len(KeepAt(Line(q), {})) = 0
    BY LinesAreLists, KeepAtEntries, FS_EmptySet
  <2> QED BY <2>1, <2>2 DEF Kept
<1>4. Line(r) = <<>>
  BY <1>1, <1>2, LinesAreLists
<1>5. PendingJobs(r) = {}
  BY <1>1 DEF PendingJobs
<1> QED BY <1>1, <1>2, <1>3, <1>4, <1>5 DEF Leave, Shrinks, r

-------------------------------------------------------------------------------
(* Some are admitted: the first k of the line, within the limits.          *)
Starts(b, r) ==
  \E k \in 0 .. Len(Line(b)) :
    LET new == Handed(r.leases) \ Handed(b.leases) IN
    /\ Line(r) = SubSeq(Line(b), k + 1, Len(Line(b)))
    /\ Handed(b.leases) \subseteq Handed(r.leases)
    /\ Cardinality(new) = k
    /\ JobsOf(new) = JobsIn(SubSeq(Line(b), 1, k))
    /\ k > 0 => \E cfg \in Policies : Pool!Within(Handed(r.leases), cfg)

LEMMA NobodyStarts ==
  ASSUME NEW b, Sound(b)
  PROVE  Starts(b, b)
<1>1. Line(b) \in Seq(Job) /\ Len(Line(b)) \in Nat
  BY LinesAreLists
<1>2. SubSeq(Line(b), 1, Len(Line(b))) = Line(b)
  BY <1>1
<1>3. SubSeq(Line(b), 1, 0) = <<>> /\ JobsIn(<<>>) = {}
  BY <1>1 DEF JobsIn
<1>4. /\ Handed(b.leases) \ Handed(b.leases) = {} /\ JobsOf({}) = {}
      /\ Cardinality({}) = 0
  BY FS_EmptySet DEF JobsOf
<1>5. 0 \in 0 .. Len(Line(b)) /\ 0 + 1 = 1 /\ ~(0 > 0)
  BY <1>1
<1> HIDE DEF Starts
<1> QED BY <1>1, <1>2, <1>3, <1>4, <1>5 DEF Starts


(* The pool counts and filters as the file does.                           *)
LEMMA SameCardinality == \A S : Pool!Cardinality(S) = Cardinality(S)
BY DEF Pool!Cardinality, Cardinality

LEMMA SameKeepAt == \A s, K : Pool!KeepAt(s, K) = KeepAt(s, K)
BY DEF Pool!KeepAt, Pool!Rank, KeepAt, Rank, Pool!Cardinality, Cardinality

(* What the pool counts by jobs the file counts by leases.                 *)
LEMMA HandedWithin ==
  ASSUME NEW q, Sound(q), NEW cfg \in Policy, Within(q.leases, cfg)
  PROVE  Pool!Within(Handed(q.leases), cfg)
<1> DEFINE L == q.leases
           H == Handed(L)
           Taken == UNION {{h.job} \X (1 .. h.slots) : h \in H}
           f == [l \in L |-> [job |-> l.job, slots |-> l.slots]]
           g == [p \in SlotsOf(L) |-> <<(CHOOSE l \in L : l.id = p[1]).job, p[2]>>]
<1>1. /\ IsFiniteSet(L) /\ L \subseteq Lease
      /\ \A l, m \in L : l.job = m.job \/ l.id = m.id => l = m
  BY DEF Sound, Typed, Once
<1>2. Cardinality(H) <= Cardinality(L)
  <2>1. f \in Surjection(L, H)
    BY DEF Surjection, Handed
  <2> HIDE DEF f, H, L
  <2> QED BY <1>1, <2>1, FS_Surjection
<1>3. \A l \in L : \A s \in 1 .. l.slots : <<l.id, s>> \in SlotsOf(L) /\ g[<<l.id, s>>] = <<l.job, s>>
  <2> TAKE l \in L
  <2> TAKE s \in 1 .. l.slots
  <2>1. <<l.id, s>> \in SlotsOf(L)
    BY DEF SlotsOf
  <2>2. (CHOOSE m \in L : m.id = l.id) = l
    BY <1>1
  <2> QED BY <2>1, <2>2
<1>4. \A p \in SlotsOf(L) : \E l \in L : \E s \in 1 .. l.slots : p = <<l.id, s>>
  BY DEF SlotsOf
<1>5. \A t \in Taken : \E l \in L : \E s \in 1 .. l.slots : t = <<l.job, s>>
  BY DEF Handed
<1>6. \A l \in L : \A s \in 1 .. l.slots : <<l.job, s>> \in Taken
  <2> TAKE l \in L
  <2> TAKE s \in 1 .. l.slots
  <2>1. [job |-> l.job, slots |-> l.slots] \in H
    BY DEF Handed
  <2> QED BY <2>1
<1>7. Cardinality(Taken) <= UsedSlots(L)
  <2> HIDE DEF Taken, L
  <2>1. g \in [SlotsOf(L) -> Taken]
    <3>1. ASSUME NEW p \in SlotsOf(L) PROVE g[p] \in Taken
      <4> HIDE DEF g
      <4>1. PICK l \in L : \E s \in 1 .. l.slots : p = <<l.id, s>>
        BY <1>4
      <4>2. PICK s \in 1 .. l.slots : p = <<l.id, s>>
        BY <4>1
      <4> QED BY <1>3, <1>6, <4>2
    <3> QED BY <3>1
  <2>2. ASSUME NEW t \in Taken PROVE \E p \in SlotsOf(L) : g[p] = t
    <3> HIDE DEF g
    <3>1. PICK l \in L : \E s \in 1 .. l.slots : t = <<l.job, s>>
      BY <1>5
    <3>2. PICK s \in 1 .. l.slots : t = <<l.job, s>>
      BY <3>1
    <3> QED BY <1>3, <3>2
  <2> HIDE DEF g
  <2>5. g \in Surjection(SlotsOf(L), Taken)
    BY <2>1, <2>2 DEF Surjection
  <2>6. IsFiniteSet(SlotsOf(L))
    BY <1>1, SlotsAreFinite
  <2> QED BY <2>5, <2>6, FS_Surjection DEF UsedSlots
<1>8. /\ Cardinality(L) \in Nat /\ UsedSlots(L) \in Nat
      /\ Cardinality(H) \in Nat /\ Cardinality(Taken) \in Nat
  <2>1. IsFiniteSet(H)
    <3>1. f \in Surjection(L, H)
      BY DEF Surjection, Handed
    <3> HIDE DEF f, H, L
    <3> QED BY <1>1, <3>1, FS_Surjection
  <2>2. IsFiniteSet(Taken)
    <3>1. \A h \in H : IsFiniteSet({h.job} \X (1 .. h.slots))
      <4> TAKE h \in H
      <4>1. h.slots \in Int
        BY <1>1 DEF Handed, Lease
      <4>2. IsFiniteSet(1 .. h.slots)
        BY <4>1, FS_Interval
      <4>3. IsFiniteSet({h.job})
        BY FS_Singleton
      <4> QED BY <4>2, <4>3, FS_Product
    <3> DEFINE T == {{h.job} \X (1 .. h.slots) : h \in H}
               e == [h \in H |-> {h.job} \X (1 .. h.slots)]
    <3>2. e \in Surjection(H, T)
      BY DEF Surjection
    <3>3. \A t \in T : IsFiniteSet(t)
      BY <3>1
    <3> HIDE DEF e, T, H
    <3>4. IsFiniteSet(T)
      BY <2>1, <3>2, FS_Surjection
    <3>5. IsFiniteSet(UNION T)
      BY <3>3, <3>4, FS_UNION
    <3> QED BY <3>5 DEF T
  <2> HIDE DEF H, Taken
  <2> QED BY <1>1, <2>1, <2>2, SlotsAreFinite, FS_CardinalityType
<1>9. cfg.maxRunning \in Nat /\ cfg.total \in Nat
  BY DEF Policy
<1>10. Cardinality(L) <= cfg.maxRunning /\ UsedSlots(L) <= cfg.total
  BY DEF Within
<1> HIDE DEF L, H
<1>11. Cardinality(H) <= cfg.maxRunning /\ Cardinality(Taken) <= cfg.total
  <2> HIDE DEF Taken
  <2> QED BY <1>2, <1>7, <1>8, <1>9, <1>10
<1>12. Cardinality(H) <= cfg.maxRunning /\ Pool!Taken(H) <= cfg.total
  BY <1>11, SameCardinality DEF Pool!Taken
<1>13. Pool!Within(H, cfg)
  BY <1>12, SameCardinality DEF Pool!Within
<1> QED BY <1>13 DEF H, L

(* try_start_next_jobs serves the front of the line.                       *)
LEMMA SomeStart ==
  ASSUME NEW q, Sound(q), NEW cfg \in Policies
  PROVE  Starts(q, TryStart(q, cfg)) /\ Sound(TryStart(q, cfg))
<1> DEFINE k   == StartCount(q, cfg)
           r   == TryStart(q, cfg)
           New == NewLeases(q, k, cfg)
           f   == [i \in 1 .. k |-> [job |-> q.pending[i].job,
                                     slots |-> JobSlots(q.pending[i].slots, cfg)]]
<1>1. cfg \in Policy
  BY PoliciesAreSound
<1>2. k \in 0 .. Len(q.pending) /\ (k > 0 => CanStart(q, k, cfg))
  BY StartCountStops
<1>3. r = StartFirst(q, k, cfg)
  BY DEF TryStart
<1> HIDE DEF k, r
<1>4. r.pending = SubSeq(q.pending, k + 1, Len(q.pending))
  BY <1>3 DEF StartFirst
<1>5. Sound(r) /\ r.leases = q.leases \cup New
  BY <1>1, <1>2, <1>3, StartIsSound
<1>6. /\ q.pending \in Seq(Request) /\ Line(q) \in Seq(Job)
      /\ Len(Line(q)) = Len(q.pending) /\ Len(q.pending) \in Nat
      /\ \A i \in 1 .. Len(q.pending) : Line(q)[i] = q.pending[i].job
  BY LinesAreLists
<1>7. Line(r) = SubSeq(Line(q), k + 1, Len(Line(q)))
  <2>1. /\ Line(r) \in Seq(Job) /\ Len(Line(r)) = Len(q.pending) - k
        /\ \A i \in 1 .. Len(q.pending) - k : Line(r)[i] = q.pending[k + i].job
    <3>1. /\ Len(r.pending) = Len(q.pending) - k
          /\ \A i \in 1 .. Len(q.pending) - k : r.pending[i] = q.pending[k + i]
      BY <1>2, <1>4, <1>6
    <3>2. /\ Line(r) \in Seq(Job) /\ Len(Line(r)) = Len(r.pending)
          /\ \A i \in 1 .. Len(r.pending) : Line(r)[i] = r.pending[i].job
      BY <1>5, LinesAreLists
    <3> QED BY <3>1, <3>2
  <2> DEFINE rest == SubSeq(Line(q), k + 1, Len(Line(q)))
  <2>2. /\ rest \in Seq(Job) /\ Len(rest) = Len(q.pending) - k
        /\ \A i \in 1 .. Len(q.pending) - k : rest[i] = Line(q)[k + i]
    BY <1>2, <1>6
  <2>3. \A i \in 1 .. Len(q.pending) - k : k + i \in 1 .. Len(q.pending)
    BY <1>2, <1>6
  <2> HIDE DEF rest
  <2>4. \A i \in 1 .. Len(q.pending) - k : Line(r)[i] = rest[i]
    BY <1>6, <2>1, <2>2, <2>3
  <2>5. Line(r) = rest
    BY <2>1, <2>2, <2>4
  <2> QED BY <2>5 DEF rest
<1>8. \A i, j \in 1 .. Len(q.pending) : q.pending[i].job = q.pending[j].job => i = j
  BY <1>6 DEF Sound, Once
<1>9. Handed(New) = {f[i] : i \in 1 .. k}
  <2>1. \A l \in New : \E i \in 1 .. k : [job |-> l.job, slots |-> l.slots] = f[i]
    BY DEF NewLeases
  <2>2. ASSUME NEW i \in 1 .. k PROVE f[i] \in Handed(New)
    <3> DEFINE l == [id |-> q.issued + i, job |-> q.pending[i].job,
                     slots |-> JobSlots(q.pending[i].slots, cfg)]
    <3>1. l \in New
      BY DEF NewLeases
    <3>2. [job |-> l.job, slots |-> l.slots] = f[i]
      OBVIOUS
    <3> HIDE DEF l, New, f
    <3> QED BY <3>1, <3>2 DEF Handed
  <2>3. ASSUME NEW h \in Handed(New) PROVE h \in {f[i] : i \in 1 .. k}
    <3>1. PICK l \in New : h = [job |-> l.job, slots |-> l.slots]
      BY DEF Handed
    <3> HIDE DEF New, f
    <3> QED BY <2>1, <3>1
  <2> HIDE DEF New, f
  <2> QED BY <2>2, <2>3
<1>10. /\ Handed(r.leases) = Handed(q.leases) \cup Handed(New)
       /\ Handed(q.leases) \cap Handed(New) = {}
  <2>1. Handed(r.leases) = Handed(q.leases) \cup Handed(New)
    BY <1>5 DEF Handed
  <2>2. \A l \in q.leases : \A i \in 1 .. Len(q.pending) : l.job # q.pending[i].job
    BY <1>6 DEF Sound, Once, PendingJobs
  <2>3. \A h \in Handed(q.leases) : \A i \in 1 .. k : h.job # f[i].job
    BY <1>2, <1>6, <2>2 DEF Handed
  <2> HIDE DEF f, New
  <2> QED BY <1>9, <2>1, <2>3
<1>11. Handed(r.leases) \ Handed(q.leases) = Handed(New) /\ Handed(q.leases) \subseteq Handed(r.leases)
  BY <1>10
<1>12. Cardinality(Handed(New)) = k
  <2>1. \A i, j \in 1 .. k : f[i] = f[j] => i = j
    <3> TAKE i, j \in 1 .. k
    <3>1. f[i].job = q.pending[i].job /\ f[j].job = q.pending[j].job
      OBVIOUS
    <3>2. i \in 1 .. Len(q.pending) /\ j \in 1 .. Len(q.pending)
      BY <1>2, <1>6
    <3> HIDE DEF f
    <3> QED BY <1>8, <3>1, <3>2
  <2>2. \A i \in 1 .. k : f[i] \in Handed(New)
    BY <1>9
  <2>3. f \in [1 .. k -> Handed(New)]
    BY <2>2
  <2> HIDE DEF f, New
  <2>4. f \in Bijection(1 .. k, Handed(New))
    <3>1. \A h \in Handed(New) : \E i \in 1 .. k : f[i] = h
      BY <1>9
    <3> QED BY <2>1, <2>3, <3>1 DEF Bijection, Injection, Surjection, IsInjective
  <2>5. k \in Nat /\ IsFiniteSet(1 .. k) /\ Cardinality(1 .. k) = k
    BY <1>2, FS_Interval
  <2>6. ExistsBijection(1 .. k, Handed(New))
    BY <2>4 DEF ExistsBijection
  <2> QED BY <2>5, <2>6, FS_Bijection
<1>13. JobsOf(Handed(New)) = JobsIn(SubSeq(Line(q), 1, k))
  <2>1. JobsOf(Handed(New)) = {f[i].job : i \in 1 .. k}
    <3> HIDE DEF f, New
    <3> QED BY <1>9 DEF JobsOf
  <2>2. \A i \in 1 .. k : f[i].job = Line(q)[i]
    BY <1>2, <1>6
  <2> DEFINE head == SubSeq(Line(q), 1, k)
  <2>3. DOMAIN head = 1 .. k /\ \A i \in 1 .. k : head[i] = Line(q)[i]
    BY <1>2, <1>6
  <2> HIDE DEF f, New, head
  <2>4. JobsIn(head) = {Line(q)[i] : i \in 1 .. k}
    BY <2>3 DEF JobsIn
  <2> QED BY <2>1, <2>2, <2>4 DEF head
<1>14. ASSUME k > 0 PROVE Pool!Within(Handed(r.leases), cfg)
  <2>1. k \in 1 .. Len(q.pending)
    BY <1>2, <1>6, <1>14
  <2>2. Within(StartFirst(q, k, cfg).leases, cfg)
    BY <1>1, <1>2, <1>14, <2>1, StartIsWithin
  <2> QED BY <1>1, <1>3, <1>5, <2>2, HandedWithin
<1>15. k \in 0 .. Len(Line(q))
  BY <1>2, <1>6
<1> HIDE DEF New, f
<1>16. Starts(q, r)
  BY <1>7, <1>11, <1>12, <1>13, <1>14, <1>15 DEF Starts
<1> QED BY <1>5, <1>16 DEF r

-------------------------------------------------------------------------------
(* Some leave, perhaps one joins, some start: a step of the pool.          *)
JoinLists == {<<>>} \cup {<<j>> : j \in Job}

LEMMA PoolMoves ==
  ASSUME Sound(queue), NEW a, Leave(queue, a),
         NEW joining \in JoinLists,
         JobsIn(joining) \cap (PendingJobs(queue) \cup JobsOf(Handed(a.leases))) = {},
         NEW b, Sound(b), b.leases = a.leases, Line(b) = Line(a) \o joining,
         Starts(b, queue')
  PROVE  Pool!Next
<1> DEFINE stayed == Handed(a.leases)
           before == Handed(queue.leases)
           ended  == before \ stayed
<1>1. PICK gone \in SUBSET PendingJobs(queue) : Line(a) = Kept(Line(queue), gone)
  BY DEF Leave
<1>2. PICK k \in 0 .. Len(Line(b)) :
        LET new == Handed(queue'.leases) \ stayed IN
        /\ Line(queue') = SubSeq(Line(b), k + 1, Len(Line(b)))
        /\ stayed \subseteq Handed(queue'.leases)
        /\ Cardinality(new) = k
        /\ JobsOf(new) = JobsIn(SubSeq(Line(b), 1, k))
        /\ k > 0 => \E cfg \in Policies : Pool!Within(Handed(queue'.leases), cfg)
  BY DEF Starts
<1>3. stayed \subseteq before /\ before \ ended = stayed
  BY DEF Leave, Shrinks, Handed
<1>4. Pool!JobsIn(Line(queue)) = PendingJobs(queue)
  BY LinesAreLists DEF Pool!JobsIn, JobsIn
<1>5. Pool!KeepAt(Line(queue), {i \in DOMAIN Line(queue) : Line(queue)[i] \notin gone}) \o joining
        = Line(b)
  BY <1>1, SameKeepAt DEF Kept
<1>6. Pool!JobsIn(joining) \cap (Pool!JobsIn(Line(queue)) \cup Pool!JobsOf(before \ ended)) = {}
  BY <1>3, <1>4 DEF Pool!JobsIn, Pool!JobsOf, JobsIn, JobsOf
<1> HIDE DEF stayed, before, ended
<1>7. /\ Line(queue') = SubSeq(Line(b), k + 1, Len(Line(b)))
      /\ before \ ended \subseteq Handed(queue'.leases)
      /\ Pool!Cardinality(Handed(queue'.leases) \ (before \ ended)) = k
      /\ Pool!JobsOf(Handed(queue'.leases) \ (before \ ended)) = Pool!JobsIn(SubSeq(Line(b), 1, k))
      /\ k > 0 => \E limit \in Policies : Pool!Within(Handed(queue'.leases), limit)
  BY <1>2, <1>3, SameCardinality DEF Pool!JobsIn, Pool!JobsOf, JobsIn, JobsOf
<1>8. k <= Len(Line(b)) /\ k \in 0 .. Len(Line(queue)) + 1
  <2>1. Line(queue) \in Seq(Job) /\ Line(b) \in Seq(Job)
    BY LinesAreLists
  <2>2. Line(a) \in Seq(Job) /\ Len(Line(a)) <= Len(Line(queue))
    BY <1>1, <2>1, KeptIsShorter
  <2>3. joining \in Seq(Job) /\ Len(joining) <= 1
    <3>1. CASE joining = <<>>
      BY <3>1
    <3>2. ASSUME NEW j \in Job, joining = <<j>> PROVE joining \in Seq(Job) /\ Len(joining) <= 1
      BY <3>2
    <3> QED BY <3>1, <3>2 DEF JoinLists
  <2>4. Len(Line(b)) = Len(Line(a)) + Len(joining)
    BY <2>2, <2>3
  <2> QED BY <2>1, <2>2, <2>3, <2>4
<1>9. Pool!Move(gone, ended, joining, k)
  <2>1. Pool!Admit(Line(b), k, before \ ended)
    BY <1>7 DEF Pool!Admit, Line, Handed
  <2> QED BY <1>5, <1>6, <1>8, <2>1 DEF Pool!Move, Line, before, Handed
<1>10. /\ gone \in SUBSET Pool!JobsIn(Line(queue)) /\ ended \in SUBSET before
       /\ joining \in {<<>>} \cup {<<j>> : j \in Job}
  BY <1>1, <1>4 DEF ended, JoinLists
<1> QED BY <1>8, <1>9, <1>10 DEF Pool!Next, Line, before, Handed

LEMMA LeaversMove ==
  ASSUME Sound(queue), NEW a, Leave(queue, a), Starts(a, queue')
  PROVE  Pool!Next
<1>1. Sound(a)
  BY DEF Leave, Shrinks
<1>2. Line(a) \in Seq(Job)
  BY <1>1, LinesAreLists
<1>3. Line(a) = Line(a) \o <<>>
  BY <1>2
<1>4. <<>> \in JoinLists /\ JobsIn(<<>>) = {}
  BY DEF JoinLists, JobsIn
<1> QED BY <1>1, <1>3, <1>4, PoolMoves

(* enqueue_request puts nobody in line who is there or was handed a lease. *)
LEMMA SomeoneJoins ==
  ASSUME NEW q, Sound(q), NEW job \in Job, NEW slots \in Nat \ {0}
  PROVE  \E joining \in JoinLists :
           /\ Line(Enqueue(q, job, slots)) = Line(q) \o joining
           /\ JobsIn(joining) \cap (PendingJobs(q) \cup JobsOf(Handed(q.leases))) = {}
<1> DEFINE r == Enqueue(q, job, slots)
           e == [job |-> job, slots |-> slots]
<1>1. Line(q) \in Seq(Job) /\ q.pending \in Seq(Request) /\ Len(Line(q)) = Len(q.pending)
  BY LinesAreLists
<1>2. CASE job \in PendingJobs(q) \/ HasLease(q, job)
  <2>1. Line(r) = Line(q) \o <<>>
    BY <1>1, <1>2 DEF Enqueue
  <2>2. <<>> \in JoinLists /\ JobsIn(<<>>) = {}
    BY DEF JoinLists, JobsIn
  <2> QED BY <2>1, <2>2
<1>3. CASE ~ (job \in PendingJobs(q) \/ HasLease(q, job))
  <2> DEFINE longer == Append(q.pending, e)
  <2>1. r.pending = longer
    <3>1. r = [q EXCEPT !.pending = longer]
      BY <1>3 DEF Enqueue
    <3>2. q = Queue(q.pending, q.leases, q.completed, q.issued)
      BY DEF Sound, Typed
    <3> HIDE DEF longer, r
    <3> QED BY <3>1, <3>2 DEF Queue
  <2>2. /\ Len(longer) = Len(q.pending) + 1 /\ longer[Len(q.pending) + 1] = e
        /\ \A i \in 1 .. Len(q.pending) : longer[i] = q.pending[i]
    <3>1. e \in Request
      BY DEF Request
    <3> HIDE DEF e
    <3> QED BY <1>1, <3>1
  <2>3. Sound(r)
    BY EnqueueIsSound
  <2> HIDE DEF r, longer
  <2>4. /\ Line(r) \in Seq(Job) /\ Len(Line(r)) = Len(Line(q)) + 1
        /\ \A i \in 1 .. Len(Line(q)) + 1 : Line(r)[i] = longer[i].job
    BY <1>1, <2>1, <2>2, <2>3, LinesAreLists
  <2>5. \A i \in 1 .. Len(Line(q)) : Line(r)[i] = Line(q)[i]
    <3> TAKE i \in 1 .. Len(Line(q))
    <3>1. Line(q)[i] = q.pending[i].job /\ i \in 1 .. Len(q.pending)
      BY <1>1, LinesAreLists
    <3> QED BY <1>1, <2>2, <2>4, <3>1
  <2>6. Line(r)[Len(Line(q)) + 1] = job
    BY <1>1, <2>2, <2>4
  <2>7. Line(r) = Line(q) \o <<job>>
    <3> DEFINE both == Line(q) \o <<job>>
    <3>1. /\ both \in Seq(Job) /\ Len(both) = Len(Line(q)) + 1
          /\ \A i \in 1 .. Len(Line(q)) : both[i] = Line(q)[i]
          /\ both[Len(Line(q)) + 1] = job
      BY <1>1
    <3> HIDE DEF both
    <3>2. \A i \in 1 .. Len(both) : Line(r)[i] = both[i]
      BY <1>1, <2>5, <2>6, <3>1
    <3>3. Line(r) = both
      BY <2>4, <3>1, <3>2
    <3> QED BY <3>3 DEF both
  <2>8. JobsIn(<<job>>) = {job} /\ <<job>> \in JoinLists
    BY DEF JobsIn, JoinLists
  <2>9. job \notin JobsOf(Handed(q.leases))
    BY <1>3 DEF HasLease, JobsOf, Handed
  <2> QED BY <1>3, <2>7, <2>8, <2>9 DEF r
<1> QED BY <1>2, <1>3

-------------------------------------------------------------------------------
(* Every step of the queue is a step of the pool or leaves it alone.       *)
PoolStep == Pool!Next \/ UNCHANGED queue

LEMMA SubmitIsAPoolStep == ASSUME IInv, NEW c \in Client, Submit(c) PROVE PoolStep
<1> DEFINE b == Enqueue(queue, JobOf[c], Requested[c])
<1>1. queue' = queue \/ queue' = b
  BY DEF Submit, Write
<1>2. CASE queue' = b
  <2>1. JobOf[c] \in Job /\ Requested[c] \in Nat \ {0} /\ Sound(queue)
    BY ClientAssumption DEF IInv, Fits
  <2>2. Sound(b) /\ b.leases = queue.leases
    BY <2>1, EnqueueIsSound
  <2>3. PICK joining \in JoinLists :
          /\ Line(b) = Line(queue) \o joining
          /\ JobsIn(joining) \cap (PendingJobs(queue) \cup JobsOf(Handed(queue.leases))) = {}
    BY <2>1, SomeoneJoins
  <2>4. Leave(queue, queue)
    BY <2>1, AnyoneMayLeave
  <2> HIDE DEF b
  <2>5. Starts(b, queue')
    BY <1>2, <2>2, NobodyStarts
  <2>6. Pool!Next
    BY <2>1, <2>2, <2>3, <2>4, <2>5, PoolMoves
  <2> QED BY <2>6 DEF PoolStep
<1> QED BY <1>1, <1>2 DEF PoolStep

LEMMA PollIsAPoolStep == ASSUME IInv, NEW c \in Client, Poll(c) PROVE PoolStep
<1> DEFINE a == Expired
           b == EnsureKnown(a, c)
<1>1. queue' = Expired \/ queue' = TryStart(EnsureKnown(Expired, c), Config[c])
  BY DEF Poll, PollRefused, PollGranted, PollWaits, Write, TryStart
<1>2. Sound(queue) /\ Sound(a) /\ Sound(b) /\ b.leases = a.leases
  BY ExpiredFit, KnownFit DEF IInv, Fits
<1>3. Leave(queue, a) /\ Line(a) = Line(queue)
  BY <1>2, ExpiryKeepsLine DEF Expired
<1>4. PendingJobs(a) = PendingJobs(queue)
  BY <1>2, <1>3, LinesAreLists
<1>5. \E joining \in JoinLists :
        /\ Line(b) = Line(a) \o joining
        /\ JobsIn(joining) \cap (PendingJobs(a) \cup JobsOf(Handed(a.leases))) = {}
  <2>1. JobOf[c] \in Job /\ Config[c].defaultSlots \in Nat \ {0}
    BY ClientAssumption DEF Policy
  <2>2. CASE b = Enqueue(a, JobOf[c], Config[c].defaultSlots)
    <3> HIDE DEF a, b
    <3> QED BY <1>2, <2>1, <2>2, SomeoneJoins
  <2>3. CASE b = a
    <3>1. Line(a) \in Seq(Job)
      BY <1>2, LinesAreLists
    <3>2. Line(b) = Line(a) \o <<>>
      BY <2>3, <3>1
    <3>3. <<>> \in JoinLists /\ JobsIn(<<>>) = {}
      BY DEF JoinLists, JobsIn
    <3> QED BY <3>2, <3>3
  <2> QED BY <2>2, <2>3 DEF EnsureKnown
<1> HIDE DEF a, b
<1>6. CASE queue' = a
  <2>1. Starts(a, queue')
    BY <1>2, <1>6, NobodyStarts
  <2> QED BY <1>2, <1>3, <2>1, LeaversMove DEF PoolStep
<1>7. CASE queue' = TryStart(b, Config[c])
  <2>1. Starts(b, queue')
    BY <1>2, <1>7, SomeStart, PoliciesAreSound
  <2>2. PICK joining \in JoinLists :
        /\ Line(b) = Line(a) \o joining
        /\ JobsIn(joining) \cap (PendingJobs(queue) \cup JobsOf(Handed(a.leases))) = {}
    BY <1>4, <1>5
  <2> QED BY <1>2, <1>3, <2>1, <2>2, PoolMoves DEF PoolStep
<1> QED BY <1>1, <1>6, <1>7 DEF a, b

LEMMA LeavingIsAPoolStep ==
  ASSUME IInv, NEW a, Leave(queue, a), NEW cfg \in Policies,
         queue' = a \/ queue' = TryStart(a, cfg)
  PROVE  PoolStep
<1>1. Sound(queue) /\ Sound(a)
  BY DEF IInv, Fits, Leave, Shrinks
<1>2. Starts(a, queue')
  BY <1>1, NobodyStarts, SomeStart
<1> QED BY <1>1, <1>2, LeaversMove DEF PoolStep

LEMMA OtherPoolSteps ==
  ASSUME IInv, [Next]_vars, ~ (\E c \in Client : Submit(c) \/ Poll(c))
  PROVE  PoolStep
<1>1. Sound(queue) /\ AdminConfig \in Policies
  BY DEF IInv, Fits, Policies
<1>2. ASSUME NEW c \in Client, GiveUp(c) PROVE PoolStep
  <2>1. queue' = MarkTimeout(queue, JobOf[c])
    BY <1>2 DEF GiveUp, Write
  <2>2. Leave(queue, MarkTimeout(queue, JobOf[c]))
    BY <1>1, AnyoneMayLeave
  <2> QED BY <1>1, <2>1, <2>2, LeavingIsAPoolStep
<1>3. ASSUME NEW c \in Client, Release(c) PROVE PoolStep
  <2>1. queue' = TryStart(Ended(c), Config[c])
    BY <1>3 DEF Release, Write, Ended, Freed, Mine
  <2>2. Leave(queue, Ended(c)) /\ Config[c] \in Policies
    BY <1>1, AnyoneMayLeave, PoliciesAreSound
  <2> QED BY <2>1, <2>2, LeavingIsAPoolStep
<1>4. ASSUME NEW job \in Job, Cancel(job) PROVE PoolStep
  <2>1. CASE HasLease(queue, job)
    <3> DEFINE a == MarkDone(ReleaseLease(queue, LeaseOf(queue, job).id), job, "failed")
    <3>1. queue' = TryStart(a, AdminConfig)
      BY <1>4, <2>1 DEF Cancel, Write
    <3>2. Leave(queue, a)
      BY <1>1, AnyoneMayLeave
    <3> QED BY <1>1, <3>1, <3>2, LeavingIsAPoolStep
  <2>2. CASE ~HasLease(queue, job)
    <3>1. queue' = TryStart(CancelPending(queue, job), AdminConfig)
      BY <1>4, <2>2 DEF Cancel, Write
    <3>2. Leave(queue, CancelPending(queue, job))
      BY <1>1, AnyoneMayLeave
    <3> QED BY <1>1, <3>1, <3>2, LeavingIsAPoolStep
  <2> QED BY <2>1, <2>2
<1>5. ASSUME Status PROVE PoolStep
  <2>1. queue' = TryStart(Expired, AdminConfig)
    BY <1>5 DEF Status, Write
  <2>2. Leave(queue, Expired)
    BY <1>1, ExpiryKeepsLine DEF Expired
  <2> QED BY <1>1, <2>1, <2>2, LeavingIsAPoolStep
<1>6. ASSUME LoseState PROVE PoolStep
  <2>1. queue' = [EmptyQueue EXCEPT !.issued = queue.issued]
    BY <1>6 DEF LoseState
  <2>2. Leave(queue, [EmptyQueue EXCEPT !.issued = queue.issued])
    BY <1>1, AllMayLeave
  <2> QED BY <1>1, <2>1, <2>2, LeavingIsAPoolStep
<1>7. ASSUME \/ \E c \in Client : Crash(c)
             \/ \E l \in queue.leases : BecomeOverdue(l)
             \/ UNCHANGED vars
      PROVE  PoolStep
  BY <1>7 DEF Crash, BecomeOverdue, vars, PoolStep
<1> QED BY <1>2, <1>3, <1>4, <1>5, <1>6, <1>7 DEF Next, ClientStep

(* The file queue keeps the promise of FifoSlotPool, whatever the          *)
(* processes do and however they are interleaved: jobs are admitted from   *)
(* the front of the line only, nobody overtakes, a job joins once and at   *)
(* the end, and whoever admits a job does it within its own limits.        *)
THEOREM ServedInOrder == Spec => ServesInOrder
<1>1. ASSUME Init PROVE Pool!Init
  <2>1. queue.pending = <<>> /\ queue.leases = {}
    BY <1>1 DEF Init, EmptyQueue
  <2> QED BY <2>1 DEF Pool!Init
<1>2. ASSUME IInv, [Next]_vars PROVE [Pool!Next]_Pool!vars
  <2>1. PoolStep
    BY <1>2, SubmitIsAPoolStep, PollIsAPoolStep, OtherPoolSteps
  <2> QED BY <2>1 DEF PoolStep, Pool!vars
<1> QED BY <1>1, <1>2, Invariance, PTL DEF Spec, ServesInOrder, Pool!Spec
===============================================================================
