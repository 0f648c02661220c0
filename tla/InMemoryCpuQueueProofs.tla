------------------------ MODULE InMemoryCpuQueueProofs ------------------------
(***************************************************************************)
(* InMemoryCpuQueue, for any raw options and any calls: its state stays    *)
(* sound, every lease is as large as the policy wants it, all leases       *)
(* together stay within the policy, no call that changes the leases leaves *)
(* somebody in front of slots it fits into, and jobs are started as by the *)
(* loop of the code.                                                       *)
(***************************************************************************)
EXTENDS InMemoryCpuQueue, CpuQueueStateProofs

(* The policy came from from_values: it grants nobody less than its        *)
(* minimum, unless the pool is smaller.                                    *)
Granting(cfg) ==
  /\ cfg \in Policy
  /\ \A slots \in Int : JobSlots(slots, cfg) >= Smaller(cfg.minSlots, cfg.total)

IInv ==
  /\ Granting(config)
  /\ Sound(queue)
  /\ Within(queue.leases, config)
  /\ AllocationsFit

(* AllocationsFit for any leases and policy.                               *)
Fit(l, cfg) ==
  /\ l.slots <= cfg.total
  /\ cfg.maxSlots # None => l.slots <= cfg.maxSlots
  /\ l.slots >= Smaller(cfg.minSlots, cfg.total)

-------------------------------------------------------------------------------
(* Fewer leases take fewer slots.                                          *)
LEMMA FewerStayWithin ==
  ASSUME NEW q, Sound(q), NEW cfg \in Policy, Within(q.leases, cfg),
         NEW L, L \subseteq q.leases
  PROVE  Within(L, cfg)
<1>1. /\ IsFiniteSet(q.leases) /\ q.leases \subseteq Lease
      /\ cfg.total \in Nat /\ cfg.maxRunning \in Nat
  BY DEF Sound, Typed, Policy
<1>2. /\ IsFiniteSet(L) /\ Cardinality(L) <= Cardinality(q.leases)
      /\ Cardinality(L) \in Nat /\ Cardinality(q.leases) \in Nat
  BY <1>1, FS_Subset, FS_CardinalityType
<1>3. IsFiniteSet(SlotsOf(q.leases)) /\ UsedSlots(q.leases) \in Nat
  BY <1>1, SlotsAreFinite
<1>4. SlotsOf(L) \subseteq SlotsOf(q.leases)
  BY DEF SlotsOf
<1>5. UsedSlots(L) <= UsedSlots(q.leases) /\ UsedSlots(L) \in Nat
  BY <1>3, <1>4, FS_Subset, FS_CardinalityType DEF UsedSlots
<1> QED BY <1>1, <1>2, <1>3, <1>5 DEF Within

(* The leases try_start_next_jobs adds fit the policy.                     *)
LEMMA NewLeasesFit ==
  ASSUME NEW q, Sound(q), NEW cfg, Granting(cfg),
         \A l \in q.leases : Fit(l, cfg)
  PROVE  \A l \in TryStart(q, cfg).leases : Fit(l, cfg)
<1> DEFINE k == StartCount(q, cfg)
<1>1. k \in 0 .. Len(q.pending) /\ cfg \in Policy
  BY StartCountStops DEF Granting
<1>2. TryStart(q, cfg).leases = q.leases \cup NewLeases(q, k, cfg)
  BY <1>1, StartIsSound DEF TryStart
<1> HIDE DEF k
<1>3. ASSUME NEW l \in NewLeases(q, k, cfg) PROVE Fit(l, cfg)
  <2>1. PICK i \in 1 .. k : l.slots = JobSlots(q.pending[i].slots, cfg)
    BY DEF NewLeases
  <2>2. q.pending[i] \in Request
    BY <1>1 DEF Sound, Typed
  <2>3. q.pending[i].slots \in Int
    BY <2>2 DEF Request
  <2> DEFINE granted == JobSlots(q.pending[i].slots, cfg)
  <2>4. /\ granted <= cfg.total
        /\ cfg.maxSlots # None => granted <= cfg.maxSlots
    BY <1>1, <2>3, SlotsWithinPolicy
  <2>5. granted >= Smaller(cfg.minSlots, cfg.total)
    BY <2>3 DEF Granting
  <2> HIDE DEF granted
  <2> QED BY <2>1, <2>4, <2>5 DEF Fit, granted
<1> QED BY <1>2, <1>3

(* What acquire_for_job and release end with.                              *)
LEMMA StartKeepsIInv ==
  ASSUME IInv, NEW q, Shrinks(queue, q), queue' = TryStart(q, config), UNCHANGED config
  PROVE  /\ IInv'
         /\ queue'.pending # <<>> => ~CanStart(queue', 1, config)
<1>1. /\ Sound(q) /\ q.leases \subseteq queue.leases /\ config \in Policy
      /\ Granting(config) /\ config' = config
  BY DEF IInv, Shrinks, Granting
<1>2. Within(q.leases, config)
  BY <1>1, FewerStayWithin DEF IInv
<1>3. /\ Sound(TryStart(q, config))
      /\ TryStart(q, config).leases = q.leases \/ Within(TryStart(q, config).leases, config)
  BY <1>1, TryStartIsSound
<1>4. Within(queue'.leases, config)
  BY <1>2, <1>3
<1>5. \A l \in queue'.leases : Fit(l, config)
  <2>1. \A l \in q.leases : Fit(l, config)
    BY <1>1 DEF IInv, AllocationsFit, Fit
  <2> QED BY <1>1, <2>1, NewLeasesFit
<1>6. IInv'
  <2>1. AllocationsFit'
    BY <1>1, <1>5 DEF AllocationsFit, Fit
  <2>2. Granting(config')
    BY <1>1
  <2> QED BY <1>1, <1>3, <1>4, <2>1, <2>2 DEF IInv
<1>7. queue'.pending # <<>> => ~CanStart(queue', 1, config)
  BY <1>1, NobodyWaitsForFreeSlots
<1> QED BY <1>6, <1>7

(* submit_request and cancel leave the leases alone.                       *)
LEMMA SameLeasesKeepIInv ==
  ASSUME IInv, Sound(queue'), queue'.leases = queue.leases, UNCHANGED config
  PROVE  IInv'
BY DEF IInv, AllocationsFit, Granting

-------------------------------------------------------------------------------
LEMMA InitIsSound == Init => IInv
<1> SUFFICES ASSUME Init PROVE IInv
  OBVIOUS
<1>1. PICK o \in RawOptions :
        config = FromValues(o.total, o.maxRunning, o.default, o.min, o.max)
  BY DEF Init
<1>2. /\ o.total \in Int /\ o.maxRunning \in Int /\ o.default \in Int
      /\ o.min \in Int /\ o.max \in Int
  BY OptionsAssumption
<1>3. config \in Policy
  BY <1>1, <1>2, AnyNumbersMakeAPolicy
<1>4. ASSUME NEW slots \in Int
      PROVE  JobSlots(slots, config) >= Smaller(config.minSlots, config.total)
  BY <1>1, <1>2, AnyNumbersMakeAPolicy
<1>5. queue = EmptyQueue
  BY DEF Init
<1>6. Sound(queue)
  <2>1. queue.leases = {} /\ queue.pending = <<>> /\ queue.issued = 0
    BY <1>5 DEF EmptyQueue
  <2>2. queue = Queue(queue.pending, queue.leases, queue.completed, queue.issued)
    BY <1>5 DEF EmptyQueue, Queue
  <2>3. IsFiniteSet(queue.leases)
    BY <2>1, FS_EmptySet
  <2> QED BY <2>1, <2>2, <2>3 DEF Sound, Typed, Once
<1>7. Cardinality(queue.leases) = 0 /\ UsedSlots(queue.leases) = 0
  <2>1. queue.leases = {} /\ SlotsOf(queue.leases) = {}
    BY <1>5 DEF EmptyQueue, SlotsOf
  <2> QED BY <2>1, FS_EmptySet DEF UsedSlots
<1>8. Within(queue.leases, config)
  BY <1>3, <1>7 DEF Within, Policy
<1>9. AllocationsFit
  BY <1>5 DEF AllocationsFit, EmptyQueue
<1> QED BY <1>3, <1>4, <1>6, <1>8, <1>9 DEF IInv, Granting

(* Each call keeps the invariant; the calls that change the leases end     *)
(* with nobody in front of slots it fits into.                             *)
LEMMA SubmitStep ==
  ASSUME IInv, NEW job \in Job, NEW slots \in Asks, Submit(job, slots)
  PROVE  IInv' /\ queue'.leases = queue.leases
<1> DEFINE asked == CleanPositiveInt(IF slots = None THEN config.defaultSlots ELSE slots)
<1>1. asked \in Nat \ {0}
  <2>1. slots \in Int /\ config.defaultSlots \in Int
    BY OptionsAssumption DEF IInv, Granting, Policy
  <2> QED BY <2>1 DEF CleanPositiveInt, Larger
<1>2. queue' = Enqueue(queue, job, asked) /\ UNCHANGED config
  BY DEF Submit
<1> HIDE DEF asked
<1>3. Sound(queue') /\ queue'.leases = queue.leases
  BY <1>1, <1>2, EnqueueIsSound DEF IInv
<1> QED BY <1>2, <1>3, SameLeasesKeepIInv

LEMMA AcquireStep ==
  ASSUME IInv, Acquire
  PROVE  IInv' /\ (queue'.pending # <<>> => ~CanStart(queue', 1, config))
<1>1. Shrinks(queue, queue)
  BY DEF IInv, Shrinks
<1> QED BY <1>1, StartKeepsIInv DEF Acquire

LEMMA ReleaseStep ==
  ASSUME IInv, NEW id, Release(id)
  PROVE  IInv' /\ (queue'.pending # <<>> => ~CanStart(queue', 1, config))
<1> DEFINE freed == ReleaseLease(queue, id)
           mine  == {l \in queue.leases : l.id = id}
           done  == MarkDone(freed, (CHOOSE l \in mine : TRUE).job, "finished")
<1>1. Shrinks(queue, freed)
  BY ReleaseShrinks DEF IInv
<1>2. Sound(freed)
  BY <1>1 DEF Shrinks
<1>3. Shrinks(freed, done)
  <2> HIDE DEF freed, mine
  <2> QED BY <1>2, MarkDoneShrinks
<1>4. Shrinks(queue, done)
  BY <1>1, <1>3 DEF Shrinks
<1>5. queue' = TryStart(IF mine = {} THEN freed ELSE done, config) /\ UNCHANGED config
  BY DEF Release
<1> HIDE DEF freed, done, mine
<1> QED BY <1>1, <1>4, <1>5, StartKeepsIInv

LEMMA CancelStep ==
  ASSUME IInv, NEW job, Cancel(job)
  PROVE  IInv' /\ queue'.leases = queue.leases
<1>1. Sound(queue') /\ queue'.leases = queue.leases
  BY CancelShrinks DEF Cancel, IInv, Shrinks
<1> QED BY <1>1, SameLeasesKeepIInv DEF Cancel

LEMMA NextStep ==
  ASSUME IInv, [Next]_vars
  PROVE  /\ IInv'
         /\ queue'.leases # queue.leases =>
              (queue'.pending # <<>> => ~CanStart(queue', 1, config))
<1>1. CASE \E job \in Job, slots \in Asks : Submit(job, slots)
  BY <1>1, SubmitStep
<1>2. CASE Acquire
  BY <1>2, AcquireStep
<1>3. CASE \E id \in 1 .. MaxIssued : Release(id)
  BY <1>3, ReleaseStep
<1>4. CASE \E job \in Job : Cancel(job)
  BY <1>4, CancelStep
<1>5. CASE UNCHANGED vars
  BY <1>5 DEF vars, IInv, AllocationsFit, Granting
<1> QED BY <1>1, <1>2, <1>3, <1>4, <1>5 DEF Next

LEMMA Inductive == Spec => []IInv
<1>1. Init => IInv
  BY InitIsSound
<1>2. IInv /\ [Next]_vars => IInv'
  BY NextStep
<1> QED BY <1>1, <1>2, PTL DEF Spec

-------------------------------------------------------------------------------
(* Every lease is as large as the policy wants leases to be, for every     *)
(* combination of numbers the policy was made of and everything that was   *)
(* asked for.                                                              *)
THEOREM LeasesFitThePolicy == Spec => []AllocationsFit
<1>1. IInv => AllocationsFit
  BY DEF IInv
<1> QED BY <1>1, Inductive, PTL

(* Whoever is first in line fits into an empty pool: no request can block  *)
(* the line for ever.                                                      *)
THEOREM NoRequestIsTooLarge == Spec => []HeadFitsEmptyPool
<1>1. IInv => HeadFitsEmptyPool
  <2> SUFFICES ASSUME IInv, queue.leases = {}, queue.pending # <<>>
               PROVE  CanStart(queue, 1, config)
    BY DEF HeadFitsEmptyPool
  <2>1. /\ queue.pending \in Seq(Request) /\ Sound(queue) /\ config \in Policy
        /\ config.total \in Nat /\ config.maxRunning \in Nat \ {0}
    BY DEF IInv, Granting, Sound, Typed, Policy
  <2>2. 0 < Len(queue.pending) /\ queue.pending[1] \in Request
    BY <2>1
  <2>3. Cardinality(SlotsOfFirst(queue, 1, config)) = JobSlots(queue.pending[1].slots, config)
    BY <2>1, <2>2, FirstRequest
  <2>4. /\ JobSlots(queue.pending[1].slots, config) \in Nat
        /\ JobSlots(queue.pending[1].slots, config) <= config.total
    BY <2>1, <2>2, SlotsWithinPolicy DEF Request
  <2>5. Cardinality(queue.leases) = 0 /\ UsedSlots(queue.leases) = 0
    <3>1. SlotsOf(queue.leases) = {}
      BY DEF SlotsOf
    <3> QED BY <3>1, FS_EmptySet DEF UsedSlots
  <2> QED BY <2>1, <2>3, <2>4, <2>5 DEF CanStart
<1> QED BY <1>1, Inductive, PTL

(* A call that changes the leases leaves them within the limits and nobody *)
(* first in line who could start.                                          *)
THEOREM NoSlotsAreLeftUnused == Spec => FreeSlotsAreUsed
<1>1. IInv /\ IInv' /\ [Next]_vars =>
        [queue'.leases # queue.leases =>
           /\ UsedSlots(queue'.leases) <= config.total
           /\ Cardinality(queue'.leases) <= config.maxRunning
           /\ queue'.pending # <<>> => ~CanStart(queue', 1, config)]_vars
  <2> SUFFICES ASSUME IInv, IInv', [Next]_vars, queue'.leases # queue.leases
               PROVE  /\ UsedSlots(queue'.leases) <= config.total
                      /\ Cardinality(queue'.leases) <= config.maxRunning
                      /\ queue'.pending # <<>> => ~CanStart(queue', 1, config)
    OBVIOUS
  <2>1. config' = config
    BY DEF Next, vars, Submit, Acquire, Release, Cancel
  <2>2. Within(queue'.leases, config)
    BY <2>1 DEF IInv
  <2>3. queue'.pending # <<>> => ~CanStart(queue', 1, config)
    BY NextStep
  <2> QED BY <2>2, <2>3 DEF Within
<1> QED BY <1>1, Inductive, PTL DEF Spec, FreeSlotsAreUsed

-------------------------------------------------------------------------------
(* The log of recent records, for the loop of try_start_next_jobs.         *)
LEMMA LogStaysTyped ==
  ASSUME IInv, LogTyped(queue.completed), [Next]_vars
  PROVE  LogTyped(queue'.completed)
<1>1. Sound(queue) /\ config \in Policy
  BY DEF IInv, Granting
<1>2. CASE \E job \in Job, slots \in Asks : Submit(job, slots)
  <2>1. PICK job \in Job, slots \in Asks : Submit(job, slots)
    BY <1>2
  <2>2. PICK asked : queue' = Enqueue(queue, job, asked)
    BY <2>1 DEF Submit
  <2> QED BY <1>1, <2>2, LogsOfTransitions
<1>3. CASE Acquire
  BY <1>1, <1>3, LogAfterStart DEF Acquire
<1>4. ASSUME NEW id, Release(id) PROVE LogTyped(queue'.completed)
  <2> DEFINE freed == ReleaseLease(queue, id)
             mine  == {l \in queue.leases : l.id = id}
             job   == (CHOOSE l \in mine : TRUE).job
             done  == MarkDone(freed, job, "finished")
  <2>1. queue' = TryStart(IF mine = {} THEN freed ELSE done, config)
    BY <1>4 DEF Release
  <2>2. Shrinks(queue, freed) /\ Sound(freed)
    BY <1>1, ReleaseShrinks DEF Shrinks
  <2>3. freed.completed = queue.completed
    BY <1>1 DEF ReleaseLease, Sound, Typed, Queue
  <2>4. mine # {} => job \in Job
    BY <1>1 DEF Sound, Typed, Lease
  <2> HIDE DEF freed, mine, job
  <2>5. Shrinks(freed, done)
    BY <2>2, MarkDoneShrinks
  <2>6. mine # {} => LogTyped(done.completed)
    <3>1. "finished" \in Terminal
      BY DEF Terminal
    <3> QED BY <2>2, <2>3, <2>4, <3>1, LogsOfTransitions
  <2> HIDE DEF done
  <2>7. PICK q : q = IF mine = {} THEN freed ELSE done
    OBVIOUS
  <2>8. Sound(q) /\ LogTyped(q.completed)
    BY <2>2, <2>3, <2>5, <2>6, <2>7 DEF Shrinks
  <2> QED BY <1>1, <2>1, <2>7, <2>8, LogAfterStart
<1>5. CASE \E job \in Job : Cancel(job)
  BY <1>1, <1>5, LogsOfTransitions DEF Cancel
<1>6. CASE UNCHANGED vars
  BY <1>6 DEF vars
<1> QED BY <1>2, <1>3, <1>4, <1>5, <1>6 DEF Next

(* The closed form of try_start_next_jobs, which the model starts jobs by, *)
(* leaves the file that the loop of the code leaves, in every state.       *)
THEOREM StartsAreTheLoops == Spec => []StartsLikeTheLoop
<1>1. Init => LogTyped(queue.completed)
  BY RecentLimitAssumption DEF Init, EmptyQueue, LogTyped
<1>2. IInv /\ LogTyped(queue.completed) /\ [Next]_vars => LogTyped(queue.completed)'
  BY LogStaysTyped
<1>3. IInv /\ LogTyped(queue.completed) => StartsLikeTheLoop
  BY ClosedFormIsTheLoop DEF IInv, Granting, StartsLikeTheLoop
<1> QED BY <1>1, <1>2, <1>3, Inductive, PTL DEF Spec
===============================================================================
