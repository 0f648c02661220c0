-------------------------- MODULE CpuQueueStateProofs --------------------------
(***************************************************************************)
(* What the transitions of CpuQueueState preserve, whoever applies them:   *)
(* the shape of the file, that a job is in it once, and that the leases    *)
(* only ever grow within the limits of the policy that starts them.        *)
(***************************************************************************)
EXTENDS CpuQueueState, FiniteSetTheorems, WellFoundedInduction, TLAPS

-------------------------------------------------------------------------------
(* What KeepAt returns: the entries at the chosen positions, each exactly  *)
(* once, in their order.  By counting positions, without induction over    *)
(* the list.                                                               *)

(* The sizes of two finite sets add up when nothing is in both.            *)
LEMMA DisjointSizesAdd ==
  ASSUME NEW S, IsFiniteSet(S), NEW T, IsFiniteSet(T), S \cap T = {}
  PROVE  /\ IsFiniteSet(S \cup T)
         /\ Cardinality(S \cup T) = Cardinality(S) + Cardinality(T)
<1>1. /\ IsFiniteSet(S \cup T)
      /\ Cardinality(S \cup T) =
           Cardinality(S) + Cardinality(T) - Cardinality(S \cap T)
  BY FS_Union
<1>2. Cardinality(S \cap T) = 0
  BY FS_EmptySet
<1>3. Cardinality(S) \in Nat /\ Cardinality(T) \in Nat
  BY FS_CardinalityType
<1> QED BY <1>1, <1>2, <1>3

(* A nonempty set of naturals has a least element.                         *)
LEMMA LeastElement ==
  ASSUME NEW T \in SUBSET Nat, T # {}
  PROVE  \E x \in T : \A y \in T : x <= y
<1>1. PICK x \in T : \A y \in T : ~ (<<y, x>> \in OpToRel(<, Nat))
  BY NatLessThanWellFounded, WFMin
<1>2. \A y \in T : ~ (y < x)
  BY <1>1 DEF OpToRel
<1> QED BY <1>2

(* Ranks grow by one at each position of K and stand still in between.     *)
LEMMA RankSteps ==
  ASSUME NEW m \in Nat, NEW K, \A k \in K : k \in 1 .. m
  PROVE  /\ IsFiniteSet(K)
         /\ Cardinality(K) \in Nat
         /\ \A i \in Nat : Rank(K, i) \in Nat
         /\ Rank(K, 0) = 0
         /\ Rank(K, m) = Cardinality(K)
         /\ \A i \in 1 .. m :
              Rank(K, i) = Rank(K, i - 1) + (IF i \in K THEN 1 ELSE 0)
<1> DEFINE Up(i) == {k \in K : k <= i}
<1>1. IsFiniteSet(K)
  <2>1. IsFiniteSet(1 .. m)
    BY FS_Interval
  <2>2. K \in SUBSET (1 .. m)
    OBVIOUS
  <2> QED BY <2>1, <2>2, FS_Subset
<1>2. \A i \in Nat : IsFiniteSet(Up(i))
  <2> TAKE i \in Nat
  <2>1. Up(i) \in SUBSET K
    OBVIOUS
  <2> QED BY <1>1, <2>1, FS_Subset
<1>3. \A i \in Nat : Rank(K, i) \in Nat
  BY <1>2, FS_CardinalityType DEF Rank
<1>4. Rank(K, 0) = 0
  <2>1. Up(0) = {}
    OBVIOUS
  <2> QED BY <2>1, FS_EmptySet DEF Rank
<1>5. Rank(K, m) = Cardinality(K)
  <2>1. Up(m) = K
    OBVIOUS
  <2> QED BY <2>1 DEF Rank
<1>6. ASSUME NEW i \in 1 .. m
      PROVE  Rank(K, i) = Rank(K, i - 1) + (IF i \in K THEN 1 ELSE 0)
  <2>1. i - 1 \in Nat /\ i \notin Up(i - 1)
    OBVIOUS
  <2>2. CASE i \in K
    <3>1. \A k \in K : k <= i <=> k <= i - 1 \/ k = i
      OBVIOUS
    <3>2. i \in K
      BY <2>2
    <3>3. Up(i) = Up(i - 1) \cup {i}
      BY <3>1, <3>2, Zenon
    <3>4. Cardinality(Up(i - 1) \cup {i}) = Cardinality(Up(i - 1)) + 1
      BY <1>2, <2>1, FS_AddElement
    <3> QED BY <2>2, <3>3, <3>4 DEF Rank
  <2>3. CASE i \notin K
    <3>1. Up(i) = Up(i - 1)
      BY <2>3
    <3> QED BY <2>1, <2>3, <3>1, <1>3 DEF Rank
  <2> QED BY <2>2, <2>3
<1> QED BY <1>1, <1>3, <1>4, <1>5, <1>6, FS_CardinalityType

(* Every rank up to the size of K is the rank of a position of K.          *)
LEMMA RankReached ==
  ASSUME NEW m \in Nat, NEW K, \A k \in K : k \in 1 .. m, NEW n \in 1 .. Cardinality(K)
  PROVE  \E i \in K : Rank(K, i) = n
<1> DEFINE T == {i \in 0 .. m : Rank(K, i) >= n}
<1>1. T \in SUBSET Nat /\ m \in T
  BY RankSteps
<1>2. PICK i \in T : \A j \in T : i <= j
  BY <1>1, LeastElement
<1>3. i \in 1 .. m
  BY <1>2, RankSteps
<1>4. i - 1 \in 0 .. m /\ i - 1 \notin T
  BY <1>2, <1>3
<1>5. Rank(K, i - 1) < n /\ Rank(K, i - 1) \in Nat /\ Rank(K, i) \in Nat
  <2>1. i - 1 \in Nat /\ i \in Nat
    BY <1>3
  <2>2. Rank(K, i - 1) \in Nat /\ Rank(K, i) \in Nat
    BY <2>1, RankSteps
  <2>3. ~ (Rank(K, i - 1) >= n)
    BY <1>4
  <2>4. n \in Int
    BY RankSteps
  <2> QED BY <2>2, <2>3, <2>4
<1>6. Rank(K, i) = Rank(K, i - 1) + (IF i \in K THEN 1 ELSE 0)
  BY <1>3, RankSteps
<1> QED BY <1>2, <1>5, <1>6

(* The position KeepAt takes its n-th entry from.                          *)
Place(K, n) == CHOOSE i \in K : Rank(K, i) = n

(* KeepAt lists the entries at the positions K: as many as K has, each the *)
(* entry at a place in K, different ones from different places, and none   *)
(* of them left out.                                                       *)
THEOREM KeepAtEntries ==
  ASSUME NEW S, NEW s \in Seq(S), NEW K, \A k \in K : k \in 1 .. Len(s)
  PROVE  /\ Cardinality(K) \in Nat
         /\ KeepAt(s, K) \in Seq(S)
         /\ Len(KeepAt(s, K)) = Cardinality(K)
         /\ \A n \in 1 .. Cardinality(K) :
              /\ Place(K, n) \in K
              /\ Rank(K, Place(K, n)) = n
              /\ KeepAt(s, K)[n] = s[Place(K, n)]
<1>1. Len(s) \in Nat
  OBVIOUS
<1>2. Cardinality(K) \in Nat
  BY <1>1, RankSteps
<1>3. \A n \in 1 .. Cardinality(K) : Place(K, n) \in K /\ Rank(K, Place(K, n)) = n
  <2> TAKE n \in 1 .. Cardinality(K)
  <2>1. \E i \in K : Rank(K, i) = n
    BY <1>1, RankReached
  <2> QED BY <2>1 DEF Place
<1>4. KeepAt(s, K) = [n \in 1 .. Cardinality(K) |-> s[Place(K, n)]]
  BY DEF KeepAt, Place
<1>5. \A n \in 1 .. Cardinality(K) : s[Place(K, n)] \in S
  BY <1>3
<1>6. KeepAt(s, K) \in Seq(S) /\ Len(KeepAt(s, K)) = Cardinality(K)
  BY <1>2, <1>4, <1>5
<1> QED BY <1>2, <1>3, <1>4, <1>6

-------------------------------------------------------------------------------
(* The transitions.                                                        *)

(* The file as a record of its fields, with their types; the log of recent *)
(* records, which no transition looks at, has a section of its own below.  *)
Queue(pending, leases, completed, issued) ==
  [pending |-> pending, leases |-> leases, completed |-> completed, issued |-> issued]

Typed(q) ==
  /\ q = Queue(q.pending, q.leases, q.completed, q.issued)
  /\ q.pending \in Seq(Request)
  /\ q.leases \subseteq Lease
  /\ IsFiniteSet(q.leases)
  /\ q.issued \in Nat

Once(q) ==
  /\ \A i, k \in DOMAIN q.pending : q.pending[i].job = q.pending[k].job => i = k
  /\ \A l, m \in q.leases : l.job = m.job \/ l.id = m.id => l = m
  /\ \A l \in q.leases : l.job \notin PendingJobs(q) /\ l.id <= q.issued

Sound(q) == Typed(q) /\ Once(q)

-------------------------------------------------------------------------------
(* The slot arithmetic: whatever was asked for, a job is given at least    *)
(* one slot and no more than its policy's pool and maximum                 *)
(* (normalize_job_slots).                                                  *)
THEOREM SlotsWithinPolicy ==
  ASSUME NEW slots \in Int, NEW cfg \in Policy
  PROVE  /\ JobSlots(slots, cfg) \in Nat \ {0}
         /\ JobSlots(slots, cfg) <= cfg.total
         /\ cfg.maxSlots # None => JobSlots(slots, cfg) <= cfg.maxSlots
BY DEF JobSlots, Policy, CleanPositiveInt, Larger, Smaller, None

(* from_values makes a policy of any numbers, however they contradict each *)
(* other: its default is a request it grants in full, and it grants nobody *)
(* less than its minimum unless the pool is smaller.                       *)
THEOREM AnyNumbersMakeAPolicy ==
  ASSUME NEW total \in Int, NEW maxRunning \in Int, NEW default \in Int,
         NEW min \in Int, NEW max \in Int, NEW slots \in Int
  PROVE  LET cfg == FromValues(total, maxRunning, default, min, max)
         IN /\ cfg \in Policy
            /\ JobSlots(cfg.defaultSlots, cfg) = cfg.defaultSlots
            /\ JobSlots(slots, cfg) >= Smaller(cfg.minSlots, cfg.total)
<1> DEFINE cfg == FromValues(total, maxRunning, default, min, max)
           m   == CleanPositiveInt(min)
           t   == CleanPositiveInt(total)
<1>1. /\ m \in Nat \ {0} /\ t \in Nat \ {0}
      /\ CleanPositiveInt(maxRunning) \in Nat \ {0}
      /\ CleanPositiveInt(default) \in Nat \ {0}
      /\ CleanPositiveInt(max) \in Nat \ {0}
      /\ CleanPositiveInt(slots) \in Nat \ {0}
  BY DEF CleanPositiveInt, Larger
<1>2. /\ cfg.total = t /\ cfg.minSlots = m
      /\ cfg.maxRunning = CleanPositiveInt(maxRunning)
      /\ cfg.defaultSlots = Smaller(IF max = None THEN Larger(m, CleanPositiveInt(default))
                                    ELSE Smaller(Larger(m, CleanPositiveInt(default)),
                                                 Larger(m, CleanPositiveInt(max))), t)
      /\ cfg.maxSlots = IF max = None THEN None
                        ELSE Smaller(Larger(m, CleanPositiveInt(max)), t)
  BY DEF FromValues
<1>3. cfg = [total |-> cfg.total, maxRunning |-> cfg.maxRunning, minSlots |-> cfg.minSlots,
             defaultSlots |-> cfg.defaultSlots, maxSlots |-> cfg.maxSlots]
  BY DEF FromValues
<1>4. cfg.defaultSlots \in Nat \ {0} /\ cfg.maxSlots \in Nat
  BY <1>1, <1>2 DEF Larger, Smaller, None
<1>5. cfg \in Policy
  <2> HIDE DEF cfg
  <2> QED BY <1>1, <1>2, <1>3, <1>4 DEF Policy
<1>6. JobSlots(cfg.defaultSlots, cfg) = cfg.defaultSlots
  <2> HIDE DEF cfg, m, t
  <2> QED BY <1>1, <1>2, <1>4 DEF JobSlots, CleanPositiveInt, Larger, Smaller, None
<1>7. JobSlots(slots, cfg) >= Smaller(cfg.minSlots, cfg.total)
  <2> HIDE DEF cfg, m, t
  <2> QED BY <1>1, <1>2, <1>4 DEF JobSlots, CleanPositiveInt, Larger, Smaller, None
<1> QED BY <1>5, <1>6, <1>7

-------------------------------------------------------------------------------
(* Requests and leases that go leave a sound file: release_lease,          *)
(* _mark_done, cancel_pending_request, _mark_timeout, expire_stale_leases. *)
LEMMA FewerAreSound ==
  ASSUME NEW q, Sound(q), NEW K, \A k \in K : k \in DOMAIN q.pending,
         NEW L, L \subseteq q.leases, NEW log
  PROVE  LET r == Queue(KeepAt(q.pending, K), L, log, q.issued)
         IN Sound(r) /\ PendingJobs(r) \subseteq PendingJobs(q)
<1> DEFINE r == Queue(KeepAt(q.pending, K), L, log, q.issued)
<1>1. q.pending \in Seq(Request) /\ \A k \in K : k \in 1 .. Len(q.pending)
  BY DEF Sound, Typed
<1>2. /\ Cardinality(K) \in Nat
      /\ KeepAt(q.pending, K) \in Seq(Request)
      /\ Len(KeepAt(q.pending, K)) = Cardinality(K)
      /\ \A n \in 1 .. Cardinality(K) :
           /\ Place(K, n) \in K
           /\ Rank(K, Place(K, n)) = n
           /\ KeepAt(q.pending, K)[n] = q.pending[Place(K, n)]
  BY <1>1, KeepAtEntries
<1>3. /\ r.pending = KeepAt(q.pending, K) /\ r.leases = L
      /\ r.completed = log /\ r.issued = q.issued
  BY DEF Queue
<1>4. DOMAIN r.pending = 1 .. Cardinality(K)
  BY <1>2, <1>3
<1>5. Typed(r)
  <2>1. r = Queue(r.pending, r.leases, r.completed, r.issued)
    BY <1>3
  <2>2. IsFiniteSet(L)
    BY FS_Subset DEF Sound, Typed
  <2> QED BY <1>2, <1>3, <2>1, <2>2 DEF Typed, Sound
<1>6. \A i, k \in DOMAIN r.pending : r.pending[i].job = r.pending[k].job => i = k
  <2> SUFFICES ASSUME NEW i \in 1 .. Cardinality(K), NEW k \in 1 .. Cardinality(K),
                      r.pending[i].job = r.pending[k].job
               PROVE  i = k
    BY <1>4
  <2>1. Place(K, i) \in DOMAIN q.pending /\ Place(K, k) \in DOMAIN q.pending
    BY <1>2
  <2>2. Place(K, i) = Place(K, k)
    BY <1>2, <1>3, <2>1 DEF Sound, Once
  <2> QED BY <1>2, <2>2
<1>7. PendingJobs(r) \subseteq PendingJobs(q)
  BY <1>2, <1>3, <1>4 DEF PendingJobs
<1>8. /\ \A l, m \in r.leases : l.job = m.job \/ l.id = m.id => l = m
      /\ \A l \in r.leases : l.job \notin PendingJobs(r) /\ l.id <= r.issued
  BY <1>3, <1>7 DEF Sound, Once
<1> QED BY <1>5, <1>6, <1>7, <1>8 DEF Sound, Once

(* enqueue_request leaves a sound file and no lease.                       *)
LEMMA EnqueueIsSound ==
  ASSUME NEW q, Sound(q), NEW job \in Job, NEW slots \in Nat \ {0}
  PROVE  /\ Sound(Enqueue(q, job, slots))
         /\ Enqueue(q, job, slots).leases = q.leases
         /\ Enqueue(q, job, slots).issued = q.issued
<1> DEFINE e == [job |-> job, slots |-> slots]
           r == Queue(Append(q.pending, e), q.leases, q.completed, q.issued)
<1>1. CASE job \in PendingJobs(q) \/ HasLease(q, job)
  BY <1>1 DEF Enqueue
<1>2. CASE ~ (job \in PendingJobs(q) \/ HasLease(q, job))
  <2>1. Enqueue(q, job, slots) = [q EXCEPT !.pending = Append(q.pending, e)]
    BY <1>2 DEF Enqueue
  <2>2. q = Queue(q.pending, q.leases, q.completed, q.issued)
    BY DEF Sound, Typed
  <2>3. Enqueue(q, job, slots) = r
    BY <2>1, <2>2 DEF Queue
  <2>4. /\ r.pending = Append(q.pending, e) /\ r.leases = q.leases
        /\ r.completed = q.completed /\ r.issued = q.issued
        /\ r = Queue(r.pending, r.leases, r.completed, r.issued)
    BY DEF Queue
  <2>5. q.pending \in Seq(Request) /\ e \in Request
    BY DEF Sound, Typed, Request
  <2>6. /\ r.pending \in Seq(Request)
        /\ Len(r.pending) = Len(q.pending) + 1
        /\ \A i \in 1 .. Len(q.pending) : r.pending[i] = q.pending[i]
        /\ r.pending[Len(q.pending) + 1] = e
    <3> DEFINE longer == Append(q.pending, e)
    <3>1. /\ longer \in Seq(Request)
          /\ Len(longer) = Len(q.pending) + 1
          /\ \A i \in 1 .. Len(q.pending) : longer[i] = q.pending[i]
          /\ longer[Len(q.pending) + 1] = e
      BY <2>5
    <3>2. r.pending = longer
      BY <2>4
    <3> HIDE DEF r, longer, e
    <3> QED BY <3>1, <3>2
  <2> HIDE DEF r, e
  <2>7. Typed(r)
    BY <2>4, <2>6 DEF Sound, Typed
  <2>8. PendingJobs(r) \subseteq PendingJobs(q) \cup {job}
    <3> SUFFICES ASSUME NEW i \in DOMAIN r.pending
                 PROVE  r.pending[i].job \in PendingJobs(q) \cup {job}
      BY DEF PendingJobs
    <3>1. CASE i \in 1 .. Len(q.pending)
      BY <2>5, <2>6, <3>1 DEF PendingJobs
    <3>2. CASE i = Len(q.pending) + 1
      BY <2>6, <3>2 DEF e
    <3> QED BY <2>5, <2>6, <3>1, <3>2
  <2>9. \A i \in 1 .. Len(q.pending) : q.pending[i].job # job
    BY <1>2, <2>5 DEF PendingJobs
  <2>10. \A i, k \in DOMAIN r.pending : r.pending[i].job = r.pending[k].job => i = k
    <3> SUFFICES ASSUME NEW i \in 1 .. Len(q.pending) + 1, NEW k \in 1 .. Len(q.pending) + 1,
                        r.pending[i].job = r.pending[k].job
                 PROVE  i = k
      BY <2>6
    <3>1. CASE i \in 1 .. Len(q.pending) /\ k \in 1 .. Len(q.pending)
      <4>1. i \in DOMAIN q.pending /\ k \in DOMAIN q.pending
        BY <2>5, <3>1
      <4>2. q.pending[i].job = q.pending[k].job
        BY <2>6, <3>1
      <4> QED BY <4>1, <4>2 DEF Sound, Once
    <3>2. CASE i = Len(q.pending) + 1 \/ k = Len(q.pending) + 1
      BY <2>5, <2>6, <2>9, <3>2 DEF e
    <3> QED BY <2>5, <3>1, <3>2
  <2>11. \A l \in r.leases : l.job \notin PendingJobs(r) /\ l.id <= r.issued
    BY <1>2, <2>4, <2>8 DEF Sound, Once, HasLease
  <2>12. Once(r)
    BY <2>4, <2>10, <2>11 DEF Sound, Once
  <2> QED BY <2>3, <2>4, <2>7, <2>12 DEF Sound
<1> QED BY <1>1, <1>2

-------------------------------------------------------------------------------
(* try_start_next_jobs: the number of starts is one the loop stops at.     *)
LEMMA StartCountStops ==
  ASSUME NEW q, Sound(q), NEW cfg
  PROVE  /\ StartCount(q, cfg) \in 0 .. Len(q.pending)
         /\ StartCount(q, cfg) > 0 => CanStart(q, StartCount(q, cfg), cfg)
         /\ StartCount(q, cfg) < Len(q.pending) => ~CanStart(q, StartCount(q, cfg) + 1, cfg)
<1> DEFINE n == Len(q.pending)
           LastStart(k) == /\ k > 0 => CanStart(q, k, cfg)
                           /\ k < n => ~CanStart(q, k + 1, cfg)
           Stop == {j \in 1 .. n + 1 : j = n + 1 \/ ~CanStart(q, j, cfg)}
<1>1. n \in Nat
  BY DEF Sound, Typed
<1>2. PICK j \in Stop : \A i \in Stop : j <= i
  <2>1. n + 1 \in Stop /\ \A i \in Stop : i \in Nat
    BY <1>1
  <2> HIDE DEF Stop
  <2>2. Stop \in SUBSET Nat /\ Stop # {}
    BY <2>1
  <2> QED BY <2>2, LeastElement
<1>3. j - 1 \in 0 .. n /\ j - 1 \notin Stop
  BY <1>1, <1>2
<1>4. j - 1 > 0 => CanStart(q, j - 1, cfg)
  BY <1>1, <1>3
<1>5. j - 1 < n => ~CanStart(q, (j - 1) + 1, cfg)
  <2> SUFFICES ASSUME j - 1 < n PROVE ~CanStart(q, (j - 1) + 1, cfg)
    OBVIOUS
  <2>1. (j - 1) + 1 = j /\ j # n + 1
    BY <1>1, <1>2
  <2> QED BY <1>2, <2>1
<1>6. \E k \in 0 .. n : LastStart(k)
  BY <1>3, <1>4, <1>5
<1>7. StartCount(q, cfg) = CHOOSE k \in 0 .. n : LastStart(k)
  BY DEF StartCount
<1>8. StartCount(q, cfg) \in 0 .. n /\ LastStart(StartCount(q, cfg))
  <2> HIDE DEF LastStart, n
  <2> QED BY <1>6, <1>7, Zenon
<1> QED BY <1>8

(* A set indexed by 1 .. k is finite and has at most k elements.           *)
LEMMA IndexedIsFinite ==
  ASSUME NEW k \in Nat, NEW f, DOMAIN f = 1 .. k
  PROVE  LET T == {f[i] : i \in 1 .. k}
         IN IsFiniteSet(T) /\ Cardinality(T) \in Nat /\ Cardinality(T) <= k
<1> DEFINE T == {f[i] : i \in 1 .. k}
           g == [i \in 1 .. k |-> f[i]]
<1>1. g \in Surjection(1 .. k, T)
  BY DEF Surjection
<1>2. IsFiniteSet(1 .. k) /\ Cardinality(1 .. k) = k
  BY FS_Interval
<1> HIDE DEF T, g
<1>3. IsFiniteSet(T) /\ Cardinality(T) <= Cardinality(1 .. k)
  BY <1>1, <1>2, FS_Surjection
<1> QED BY <1>2, <1>3, FS_CardinalityType DEF T

(* Finitely many leases take finitely many slots.                          *)
LEMMA SlotsAreFinite ==
  ASSUME NEW L, IsFiniteSet(L), L \subseteq Lease
  PROVE  IsFiniteSet(SlotsOf(L)) /\ UsedSlots(L) \in Nat
<1> DEFINE Of(l) == {l.id} \X (1 .. l.slots)
           f == [l \in L |-> Of(l)]
           T == {Of(l) : l \in L}
<1>1. f \in Surjection(L, T)
  BY DEF Surjection
<1>2. IsFiniteSet(T)
  <2> HIDE DEF T, f
  <2> QED BY <1>1, FS_Surjection
<1>3. \A t \in T : IsFiniteSet(t)
  <2> SUFFICES ASSUME NEW l \in L PROVE IsFiniteSet(Of(l))
    OBVIOUS
  <2>1. l.slots \in Int
    BY DEF Lease
  <2>2. IsFiniteSet(1 .. l.slots)
    BY <2>1, FS_Interval
  <2>3. IsFiniteSet({l.id})
    BY FS_Singleton
  <2> QED BY <2>2, <2>3, FS_Product
<1>4. IsFiniteSet(UNION T)
  <2> HIDE DEF T
  <2> QED BY <1>2, <1>3, FS_UNION
<1>5. SlotsOf(L) = UNION T
  BY DEF SlotsOf
<1> QED BY <1>4, <1>5, FS_CardinalityType DEF UsedSlots

(* The leases the first k requests are given.                              *)
LEMMA NewLeasesAre ==
  ASSUME NEW q, Sound(q), NEW cfg \in Policy, NEW k \in 0 .. Len(q.pending)
  PROVE  /\ NewLeases(q, k, cfg) \subseteq Lease
         /\ IsFiniteSet(NewLeases(q, k, cfg))
         /\ Cardinality(NewLeases(q, k, cfg)) \in Nat
         /\ Cardinality(NewLeases(q, k, cfg)) <= k
<1> DEFINE f == [i \in 1 .. k |-> [id |-> q.issued + i, job |-> q.pending[i].job,
                                  slots |-> JobSlots(q.pending[i].slots, cfg)]]
<1>1. k \in Nat /\ DOMAIN f = 1 .. k
  BY DEF Sound, Typed
<1>2. NewLeases(q, k, cfg) = {f[i] : i \in 1 .. k}
  BY DEF NewLeases
<1>3. \A i \in 1 .. k : f[i] \in Lease
  <2> SUFFICES ASSUME NEW i \in 1 .. k PROVE f[i] \in Lease
    OBVIOUS
  <2>1. q.pending[i] \in Request /\ q.issued + i \in Nat \ {0}
    BY DEF Sound, Typed
  <2>2. JobSlots(q.pending[i].slots, cfg) \in Nat \ {0}
    BY <2>1, SlotsWithinPolicy DEF Request
  <2> QED BY <2>1, <2>2 DEF Lease, Request
<1>4. /\ IsFiniteSet({f[i] : i \in 1 .. k})
      /\ Cardinality({f[i] : i \in 1 .. k}) \in Nat
      /\ Cardinality({f[i] : i \in 1 .. k}) <= k
  <2> HIDE DEF f
  <2> QED BY <1>1, IndexedIsFinite
<1> HIDE DEF f
<1> QED BY <1>2, <1>3, <1>4

(* acquire_lease_for_request for the first k leaves a sound file.          *)
LEMMA StartIsSound ==
  ASSUME NEW q, Sound(q), NEW cfg \in Policy, NEW k \in 0 .. Len(q.pending)
  PROVE  /\ Sound(StartFirst(q, k, cfg))
         /\ StartFirst(q, k, cfg).leases = q.leases \cup NewLeases(q, k, cfg)
<1> DEFINE r == StartFirst(q, k, cfg)
           new == NewLeases(q, k, cfg)
<1>1. /\ r.pending = SubSeq(q.pending, k + 1, Len(q.pending))
      /\ r.leases = q.leases \cup new
      /\ r.issued = q.issued + k
      /\ r = Queue(r.pending, r.leases, r.completed, r.issued)
  BY DEF StartFirst, Queue
<1>2. /\ q.pending \in Seq(Request) /\ k \in Nat /\ Len(q.pending) \in Nat
      /\ q.issued \in Nat /\ DOMAIN q.pending = 1 .. Len(q.pending)
  BY DEF Sound, Typed
<1>3. /\ r.pending \in Seq(Request)
      /\ DOMAIN r.pending = 1 .. Len(q.pending) - k
      /\ \A i \in 1 .. Len(q.pending) - k : r.pending[i] = q.pending[k + i]
  <2> DEFINE rest == SubSeq(q.pending, k + 1, Len(q.pending))
  <2>1. /\ rest \in Seq(Request)
        /\ Len(rest) = Len(q.pending) - k
        /\ \A i \in 1 .. Len(q.pending) - k : rest[i] = q.pending[k + i]
    BY <1>2
  <2>2. DOMAIN rest = 1 .. Len(rest)
    BY <2>1
  <2> QED BY <1>1, <2>1, <2>2
<1>4. \A l \in new : \E i \in 1 .. k :
        l.id = q.issued + i /\ l.job = q.pending[i].job
  BY DEF NewLeases
<1> HIDE DEF r
<1>5. Typed(r)
  <2>1. new \subseteq Lease /\ IsFiniteSet(new)
    BY NewLeasesAre
  <2>2. IsFiniteSet(q.leases) /\ q.leases \subseteq Lease
    BY DEF Sound, Typed
  <2>3. IsFiniteSet(q.leases \cup new)
    <3> HIDE DEF new
    <3> QED BY <2>1, <2>2, FS_Union
  <2>4. r.leases \subseteq Lease /\ IsFiniteSet(r.leases)
    BY <1>1, <2>1, <2>2, <2>3
  <2>5. r.issued \in Nat
    BY <1>1, <1>2
  <2> QED BY <1>1, <1>3, <2>4, <2>5 DEF Typed
<1> HIDE DEF new
<1>6. \A i, j \in 1 .. Len(q.pending) : q.pending[i].job = q.pending[j].job => i = j
  BY <1>2 DEF Sound, Once
<1>7. \A l \in q.leases : l.id <= q.issued /\ l.id \in Nat
                        /\ \A i \in 1 .. Len(q.pending) : l.job # q.pending[i].job
  BY <1>2 DEF Sound, Typed, Once, PendingJobs, Lease
<1>8. \A i, j \in DOMAIN r.pending : r.pending[i].job = r.pending[j].job => i = j
  <2> SUFFICES ASSUME NEW i \in 1 .. Len(q.pending) - k, NEW j \in 1 .. Len(q.pending) - k,
                      r.pending[i].job = r.pending[j].job
               PROVE  i = j
    BY <1>3
  <2>1. k + i \in 1 .. Len(q.pending) /\ k + j \in 1 .. Len(q.pending)
    BY <1>2
  <2>2. k + i = k + j
    BY <1>3, <1>6, <2>1
  <2> QED BY <1>2, <2>2
<1>9. \A l, m \in r.leases : l.job = m.job \/ l.id = m.id => l = m
  <2> SUFFICES ASSUME NEW l \in r.leases, NEW m \in r.leases,
                      l.job = m.job \/ l.id = m.id
               PROVE  l = m
    OBVIOUS
  <2>1. CASE l \in q.leases /\ m \in q.leases
    BY <2>1 DEF Sound, Once
  <2>2. CASE l \in q.leases /\ m \in new
    BY <1>2, <1>4, <1>7, <2>2
  <2>3. CASE l \in new /\ m \in q.leases
    BY <1>2, <1>4, <1>7, <2>3
  <2>4. CASE l \in new /\ m \in new
    <3>1. PICK i \in 1 .. k :
            l = [id |-> q.issued + i, job |-> q.pending[i].job,
                 slots |-> JobSlots(q.pending[i].slots, cfg)]
      BY <2>4 DEF NewLeases, new
    <3>2. PICK j \in 1 .. k :
            m = [id |-> q.issued + j, job |-> q.pending[j].job,
                 slots |-> JobSlots(q.pending[j].slots, cfg)]
      BY <2>4 DEF NewLeases, new
    <3>3. q.pending[i].job = q.pending[j].job \/ q.issued + i = q.issued + j
      BY <3>1, <3>2
    <3>4. i = j
      BY <1>2, <1>6, <3>3
    <3> QED BY <3>1, <3>2, <3>4
  <2> QED BY <1>1, <2>1, <2>2, <2>3, <2>4
<1>10. \A l \in r.leases : l.job \notin PendingJobs(r) /\ l.id <= r.issued
  <2> SUFFICES ASSUME NEW l \in r.leases
               PROVE  /\ \A j \in 1 .. Len(q.pending) - k : l.job # q.pending[k + j].job
                      /\ l.id <= q.issued + k
    BY <1>1, <1>3 DEF PendingJobs
  <2>1. CASE l \in q.leases
    BY <1>2, <1>7, <2>1
  <2>2. CASE l \in new
    <3>1. PICK i \in 1 .. k : l.id = q.issued + i /\ l.job = q.pending[i].job
      BY <1>4, <2>2
    <3>2. ASSUME NEW j \in 1 .. Len(q.pending) - k
          PROVE  l.job # q.pending[k + j].job
      <4>1. /\ i \in 1 .. Len(q.pending) /\ k + j \in 1 .. Len(q.pending)
            /\ k + j # i
        BY <1>2
      <4>2. q.pending[k + j].job # q.pending[i].job
        BY <1>6, <4>1
      <4> QED BY <3>1, <4>2
    <3>3. l.id <= q.issued + k
      BY <1>2, <3>1
    <3> QED BY <3>2, <3>3
  <2> QED BY <1>1, <2>1, <2>2
<1> QED BY <1>1, <1>5, <1>8, <1>9, <1>10 DEF Sound, Once, r, new

(* The slots of the first k requests, and what the next one adds to them.  *)
LEMMA FirstSlots ==
  ASSUME NEW q, Sound(q), NEW cfg \in Policy, NEW k \in 0 .. Len(q.pending)
  PROVE  /\ IsFiniteSet(SlotsOfFirst(q, k, cfg))
         /\ Cardinality(SlotsOfFirst(q, k, cfg)) \in Nat
<1> DEFINE first == SlotsOfFirst(q, k, cfg)
           f == [i \in 1 .. k |-> {i} \X (1 .. JobSlots(q.pending[i].slots, cfg))]
           T == {f[i] : i \in 1 .. k}
<1>1. q.pending \in Seq(Request) /\ k \in Nat
  BY DEF Sound, Typed
<1>2. IsFiniteSet(T)
  <2>1. DOMAIN f = 1 .. k
    OBVIOUS
  <2> HIDE DEF f
  <2> QED BY <1>1, <2>1, IndexedIsFinite
<1>3. \A t \in T : IsFiniteSet(t)
  <2> SUFFICES ASSUME NEW i \in 1 .. k
               PROVE  IsFiniteSet({i} \X (1 .. JobSlots(q.pending[i].slots, cfg)))
    OBVIOUS
  <2>1. q.pending[i] \in Request
    BY <1>1
  <2>2. JobSlots(q.pending[i].slots, cfg) \in Int
    BY <2>1, SlotsWithinPolicy DEF Request
  <2>3. IsFiniteSet(1 .. JobSlots(q.pending[i].slots, cfg))
    BY <2>2, FS_Interval
  <2>4. IsFiniteSet({i})
    BY FS_Singleton
  <2> QED BY <2>3, <2>4, FS_Product
<1>4. first = UNION T
  BY DEF SlotsOfFirst
<1>5. IsFiniteSet(UNION T)
  <2> HIDE DEF T
  <2> QED BY <1>2, <1>3, FS_UNION
<1> QED BY <1>4, <1>5, FS_CardinalityType

LEMMA NextSlots ==
  ASSUME NEW q, Sound(q), NEW cfg \in Policy, NEW k \in 0 .. Len(q.pending),
         k < Len(q.pending)
  PROVE  Cardinality(SlotsOfFirst(q, k + 1, cfg))
           = Cardinality(SlotsOfFirst(q, k, cfg)) + JobSlots(q.pending[k + 1].slots, cfg)
<1> DEFINE n    == JobSlots(q.pending[k + 1].slots, cfg)
           next == {k + 1} \X (1 .. n)
<1>1. q.pending \in Seq(Request) /\ k \in Nat /\ Len(q.pending) \in Nat
  BY DEF Sound, Typed
<1>2. n \in Nat
  <2>1. q.pending[k + 1] \in Request
    BY <1>1
  <2> QED BY <2>1, SlotsWithinPolicy DEF Request
<1>3. IsFiniteSet(next) /\ Cardinality(next) = n
  <2>1. IsFiniteSet(1 .. n) /\ Cardinality(1 .. n) = n
    BY <1>2, FS_Interval
  <2>2. IsFiniteSet({k + 1}) /\ Cardinality({k + 1}) = 1
    BY FS_Singleton
  <2> HIDE DEF n
  <2>3. IsFiniteSet(next) /\ Cardinality(next) = Cardinality({k + 1}) * Cardinality(1 .. n)
    BY <2>1, <2>2, FS_Product
  <2> QED BY <1>2, <2>1, <2>2, <2>3
<1>4. SlotsOfFirst(q, k + 1, cfg) = SlotsOfFirst(q, k, cfg) \cup next
  <2>1. 1 .. k + 1 = (1 .. k) \cup {k + 1}
    BY <1>1
  <2> QED BY <2>1 DEF SlotsOfFirst
<1>5. SlotsOfFirst(q, k, cfg) \cap next = {}
  <2> SUFFICES ASSUME NEW p \in SlotsOfFirst(q, k, cfg), p \in next PROVE FALSE
    OBVIOUS
  <2>1. PICK i \in 1 .. k : p \in {i} \X (1 .. JobSlots(q.pending[i].slots, cfg))
    BY DEF SlotsOfFirst
  <2>2. p[1] = i /\ p[1] = k + 1
    BY <2>1
  <2> QED BY <1>1, <2>2
<1>6. IsFiniteSet(SlotsOfFirst(q, k, cfg)) /\ Cardinality(SlotsOfFirst(q, k, cfg)) \in Nat
  BY FirstSlots
<1> HIDE DEF next, n
<1>7. Cardinality(SlotsOfFirst(q, k, cfg) \cup next) =
        Cardinality(SlotsOfFirst(q, k, cfg)) + Cardinality(next)
  BY <1>3, <1>5, <1>6, DisjointSizesAdd
<1> QED BY <1>3, <1>4, <1>7 DEF n

(* Starting the first k adds k leases, and as many slots as can_start_job  *)
(* counted for them.                                                       *)
LEMMA StartsAddUp ==
  ASSUME NEW q, Sound(q), NEW cfg \in Policy, NEW k \in 0 .. Len(q.pending)
  PROVE  /\ Cardinality(StartFirst(q, k, cfg).leases) = Cardinality(q.leases) + k
         /\ UsedSlots(StartFirst(q, k, cfg).leases)
              = UsedSlots(q.leases) + Cardinality(SlotsOfFirst(q, k, cfg))
<1> DEFINE new   == NewLeases(q, k, cfg)
           first == SlotsOfFirst(q, k, cfg)
           at    == [i \in 1 .. k |->
                       [id |-> q.issued + i, job |-> q.pending[i].job,
                        slots |-> JobSlots(q.pending[i].slots, cfg)]]
           slot  == [p \in first |-> <<q.issued + p[1], p[2]>>]
<1>1. /\ q.pending \in Seq(Request) /\ k \in Nat /\ Len(q.pending) \in Nat
      /\ q.issued \in Nat
  BY DEF Sound, Typed
<1>2. new \subseteq Lease /\ IsFiniteSet(new) /\ Cardinality(new) \in Nat
  BY NewLeasesAre
<1>3. q.leases \subseteq Lease /\ IsFiniteSet(q.leases) /\ Cardinality(q.leases) \in Nat
  BY FS_CardinalityType DEF Sound, Typed
<1>4. Cardinality(new) = k
  <2>1. at \in [1 .. k -> new]
    BY DEF NewLeases
  <2>2. \A i, j \in 1 .. k : at[i] = at[j] => i = j
    <3> SUFFICES ASSUME NEW i \in 1 .. k, NEW j \in 1 .. k, at[i] = at[j]
                 PROVE  i = j
      OBVIOUS
    <3>1. at[i].id = at[j].id
      OBVIOUS
    <3>2. q.issued + i = q.issued + j
      BY <3>1
    <3> QED BY <1>1, <3>2
  <2>3. \A l \in new : \E i \in 1 .. k : at[i] = l
    BY DEF NewLeases
  <2>4. IsFiniteSet(1 .. k) /\ Cardinality(1 .. k) = k
    BY <1>1, FS_Interval
  <2> HIDE DEF at, new
  <2>5. at \in Bijection(1 .. k, new)
    BY <2>1, <2>2, <2>3 DEF Bijection, Injection, Surjection, IsInjective
  <2>6. Cardinality(new) = Cardinality(1 .. k)
    BY <2>4, <2>5, FS_Bijection DEF ExistsBijection
  <2> QED BY <2>4, <2>6
<1>5. \A l \in q.leases : l.id \in Nat /\ l.id <= q.issued
  BY <1>3 DEF Sound, Once, Lease
<1>6. \A l \in new : l.id \in Nat /\ l.id > q.issued
  BY <1>1 DEF NewLeases
<1>7. Cardinality(q.leases \cup new) = Cardinality(q.leases) + k
  <2>1. q.leases \cap new = {}
    <3> HIDE DEF new
    <3> QED BY <1>1, <1>5, <1>6
  <2> HIDE DEF new
  <2> QED BY <1>2, <1>3, <1>4, <2>1, DisjointSizesAdd
<1>8. IsFiniteSet(first) /\ Cardinality(first) \in Nat
  BY FirstSlots
<1>9. IsFiniteSet(SlotsOf(new)) /\ UsedSlots(new) = Cardinality(first)
  <2>1. ASSUME NEW p \in first
        PROVE  /\ <<q.issued + p[1], p[2]>> \in SlotsOf(new)
               /\ p[1] \in Nat /\ p = <<p[1], p[2]>>
    <3>1. PICK i \in 1 .. k : p \in {i} \X (1 .. JobSlots(q.pending[i].slots, cfg))
      BY DEF SlotsOfFirst
    <3> DEFINE l == [id |-> q.issued + i, job |-> q.pending[i].job,
                     slots |-> JobSlots(q.pending[i].slots, cfg)]
    <3>2. l \in new
      BY DEF NewLeases
    <3>3. <<q.issued + p[1], p[2]>> \in {l.id} \X (1 .. l.slots)
      BY <3>1
    <3>4. p[1] \in Nat /\ p = <<p[1], p[2]>>
      BY <1>1, <3>1
    <3> HIDE DEF l, new
    <3> QED BY <3>2, <3>3, <3>4 DEF SlotsOf
  <2>2. ASSUME NEW t \in SlotsOf(new)
        PROVE  \E p \in first : <<q.issued + p[1], p[2]>> = t
    <3>1. PICK l \in new : t \in {l.id} \X (1 .. l.slots)
      BY DEF SlotsOf
    <3>2. PICK i \in 1 .. k :
            l = [id |-> q.issued + i, job |-> q.pending[i].job,
                 slots |-> JobSlots(q.pending[i].slots, cfg)]
      BY <3>1 DEF NewLeases
    <3>3. <<i, t[2]>> \in {i} \X (1 .. JobSlots(q.pending[i].slots, cfg))
      BY <3>1, <3>2
    <3>4. <<i, t[2]>> \in first
      BY <3>3 DEF SlotsOfFirst
    <3>5. t = <<q.issued + i, t[2]>>
      BY <3>1, <3>2
    <3> HIDE DEF first
    <3> QED BY <3>4, <3>5
  <2> HIDE DEF first, new
  <2>3. slot \in [first -> SlotsOf(new)]
    BY <2>1
  <2>4. \A p, r \in first : slot[p] = slot[r] => p = r
    <3> SUFFICES ASSUME NEW p \in first, NEW r \in first, slot[p] = slot[r]
                 PROVE  p = r
      OBVIOUS
    <3>1. <<q.issued + p[1], p[2]>> = <<q.issued + r[1], r[2]>>
      OBVIOUS
    <3>2. q.issued + p[1] = q.issued + r[1] /\ p[2] = r[2]
      BY <3>1
    <3>3. p[1] = r[1]
      BY <1>1, <2>1, <3>2
    <3> QED BY <2>1, <3>2, <3>3
  <2>5. \A t \in SlotsOf(new) : \E p \in first : slot[p] = t
    BY <2>2
  <2> HIDE DEF slot
  <2>6. slot \in Bijection(first, SlotsOf(new))
    BY <2>3, <2>4, <2>5 DEF Bijection, Injection, Surjection, IsInjective
  <2> QED BY <1>8, <2>6, FS_Bijection DEF ExistsBijection, UsedSlots
<1>10. UsedSlots(q.leases \cup new) = UsedSlots(q.leases) + Cardinality(first)
  <2>1. SlotsOf(q.leases \cup new) = SlotsOf(q.leases) \cup SlotsOf(new)
    <3> HIDE DEF new
    <3> QED BY DEF SlotsOf
  <2> HIDE DEF new, first
  <2>2. IsFiniteSet(SlotsOf(q.leases))
    BY <1>3, SlotsAreFinite
  <2>3. SlotsOf(q.leases) \cap SlotsOf(new) = {}
    <3> SUFFICES ASSUME NEW t, t \in SlotsOf(q.leases), t \in SlotsOf(new) PROVE FALSE
      OBVIOUS
    <3>1. PICK l \in q.leases : t \in {l.id} \X (1 .. l.slots)
      BY DEF SlotsOf
    <3>2. PICK m \in new : t \in {m.id} \X (1 .. m.slots)
      BY DEF SlotsOf
    <3>3. t[1] = l.id /\ t[1] = m.id
      BY <3>1, <3>2
    <3>4. l.id \in Nat /\ l.id <= q.issued
      BY <1>5
    <3>5. m.id \in Nat /\ m.id > q.issued
      BY <1>6
    <3>6. l.id = m.id
      BY <3>3
    <3> HIDE DEF new, first
    <3> QED BY <1>1, <3>4, <3>5, <3>6
  <2> QED BY <1>9, <2>1, <2>2, <2>3, DisjointSizesAdd DEF UsedSlots
<1>11. StartFirst(q, k, cfg).leases = q.leases \cup new
  BY StartIsSound
<1> QED BY <1>7, <1>10, <1>11

(* ... so they are within the limits can_start_job looked at.              *)
Within(L, cfg) == Cardinality(L) <= cfg.maxRunning /\ UsedSlots(L) <= cfg.total

LEMMA StartIsWithin ==
  ASSUME NEW q, Sound(q), NEW cfg \in Policy, NEW k \in 1 .. Len(q.pending),
         CanStart(q, k, cfg)
  PROVE  Within(StartFirst(q, k, cfg).leases, cfg)
<1>1. k \in 0 .. Len(q.pending)
  BY DEF Sound, Typed
<1> QED BY <1>1, StartsAddUp DEF CanStart, Within

(* A call of try_start_next_jobs leaves a sound file, keeps every lease,   *)
(* and gives out new ones only within the caller's limits.                 *)
THEOREM TryStartIsSound ==
  ASSUME NEW q, Sound(q), NEW cfg \in Policy
  PROVE  /\ Sound(TryStart(q, cfg))
         /\ q.leases \subseteq TryStart(q, cfg).leases
         /\ \A l \in TryStart(q, cfg).leases : l \in q.leases \/ l.id > q.issued
         /\ \/ TryStart(q, cfg).leases = q.leases
            \/ Within(TryStart(q, cfg).leases, cfg)
<1> DEFINE k == StartCount(q, cfg)
<1>1. k \in 0 .. Len(q.pending) /\ (k > 0 => CanStart(q, k, cfg))
  BY StartCountStops
<1>2. TryStart(q, cfg) = StartFirst(q, k, cfg)
  BY DEF TryStart
<1> HIDE DEF k
<1>3. Sound(StartFirst(q, k, cfg)) /\ StartFirst(q, k, cfg).leases = q.leases \cup NewLeases(q, k, cfg)
  BY <1>1, StartIsSound
<1>4. \A l \in NewLeases(q, k, cfg) : l.id > q.issued
  BY <1>1 DEF NewLeases, Sound, Typed
<1>5. CASE k = 0
  <2>1. NewLeases(q, k, cfg) = {}
    BY <1>5 DEF NewLeases
  <2> QED BY <1>2, <1>3, <2>1
<1>6. CASE k > 0
  <2>1. k \in 1 .. Len(q.pending)
    BY <1>1, <1>6
  <2>2. Within(StartFirst(q, k, cfg).leases, cfg)
    BY <1>1, <1>6, <2>1, StartIsWithin
  <2> QED BY <1>2, <1>3, <1>4, <2>2
<1> QED BY <1>1, <1>5, <1>6

(* The first request takes as many slots as it is granted.                 *)
LEMMA FirstRequest ==
  ASSUME NEW q, Sound(q), NEW cfg \in Policy, 0 < Len(q.pending)
  PROVE  Cardinality(SlotsOfFirst(q, 1, cfg)) = JobSlots(q.pending[1].slots, cfg)
<1>1. 0 \in 0 .. Len(q.pending) /\ q.pending[1] \in Request
  BY DEF Sound, Typed
<1>2. Cardinality(SlotsOfFirst(q, 0 + 1, cfg))
        = Cardinality(SlotsOfFirst(q, 0, cfg)) + JobSlots(q.pending[0 + 1].slots, cfg)
  BY <1>1, NextSlots
<1>3. SlotsOfFirst(q, 0, cfg) = {}
  BY DEF SlotsOfFirst
<1>4. Cardinality(SlotsOfFirst(q, 0, cfg)) = 0
  BY <1>3, FS_EmptySet
<1>5. JobSlots(q.pending[1].slots, cfg) \in Nat
  BY <1>1, SlotsWithinPolicy DEF Request
<1> QED BY <1>2, <1>4, <1>5

(* A call of try_start_next_jobs leaves nobody first in line who could     *)
(* start: the loop never stops too early, however many it has started.     *)
THEOREM NobodyWaitsForFreeSlots ==
  ASSUME NEW q, Sound(q), NEW cfg \in Policy, TryStart(q, cfg).pending # <<>>
  PROVE  ~CanStart(TryStart(q, cfg), 1, cfg)
<1> DEFINE k == StartCount(q, cfg)
           r == StartFirst(q, k, cfg)
<1>1. /\ k \in 0 .. Len(q.pending)
      /\ k < Len(q.pending) => ~CanStart(q, k + 1, cfg)
  BY StartCountStops
<1>2. TryStart(q, cfg) = r
  BY DEF TryStart
<1>3. /\ q.pending \in Seq(Request) /\ Len(q.pending) \in Nat /\ k \in Nat
      /\ cfg.total \in Nat /\ cfg.maxRunning \in Nat
      /\ Cardinality(q.leases) \in Nat /\ UsedSlots(q.leases) \in Nat
  BY <1>1, SlotsAreFinite, FS_CardinalityType DEF Sound, Typed, Policy
<1>4. r.pending = SubSeq(q.pending, k + 1, Len(q.pending))
  BY DEF StartFirst
<1> HIDE DEF k
<1>5. k < Len(q.pending)
  BY <1>1, <1>2, <1>3, <1>4
<1>6. Sound(r)
  BY <1>1, StartIsSound
<1>7. 0 \in 0 .. Len(r.pending) /\ 0 < Len(r.pending) /\ r.pending[1] = q.pending[k + 1]
  BY <1>3, <1>4, <1>5
<1>8. /\ Cardinality(r.leases) = Cardinality(q.leases) + k
      /\ UsedSlots(r.leases) = UsedSlots(q.leases) + Cardinality(SlotsOfFirst(q, k, cfg))
  BY <1>1, StartsAddUp
<1>9. /\ Cardinality(SlotsOfFirst(q, k, cfg)) \in Nat
      /\ Cardinality(SlotsOfFirst(q, k + 1, cfg))
           = Cardinality(SlotsOfFirst(q, k, cfg)) + JobSlots(q.pending[k + 1].slots, cfg)
  BY <1>1, <1>5, FirstSlots, NextSlots
<1> HIDE DEF r
<1>10. Cardinality(SlotsOfFirst(r, 1, cfg)) = JobSlots(q.pending[k + 1].slots, cfg)
  BY <1>6, <1>7, FirstRequest
<1>11. JobSlots(q.pending[k + 1].slots, cfg) \in Nat
  <2>1. q.pending[k + 1] \in Request
    BY <1>3, <1>5
  <2> QED BY <2>1, SlotsWithinPolicy DEF Request
<1>12. ASSUME CanStart(r, 1, cfg) PROVE CanStart(q, k + 1, cfg)
  BY <1>3, <1>8, <1>9, <1>10, <1>11, <1>12 DEF CanStart
<1> QED BY <1>1, <1>2, <1>5, <1>12

-------------------------------------------------------------------------------
(* The transitions that take something away: each leaves a sound file, puts*)
(* nobody into the line and gives out no lease.                            *)
Shrinks(q, r) ==
  /\ Sound(r)
  /\ r.leases \subseteq q.leases /\ r.issued = q.issued
  /\ PendingJobs(r) \subseteq PendingJobs(q)

LEMMA Updates ==
  ASSUME NEW q, Typed(q), NEW p, NEW L, NEW log
  PROVE  /\ [q EXCEPT !.leases = L] = Queue(q.pending, L, q.completed, q.issued)
         /\ [q EXCEPT !.pending = p, !.completed = log] = Queue(p, q.leases, log, q.issued)
         /\ [q EXCEPT !.leases = L, !.pending = p, !.completed = log]
              = Queue(p, L, log, q.issued)
<1> DEFINE a == q.pending  b == q.leases  c == q.completed  d == q.issued
<1>1. q = Queue(a, b, c, d)
  BY DEF Typed
<1> HIDE DEF a, b, c, d
<1>2. [q EXCEPT !.leases = L] = Queue(a, L, c, d)
  BY <1>1 DEF Queue
<1>3. [q EXCEPT !.pending = p, !.completed = log] = Queue(p, b, log, d)
  <2>1. [q EXCEPT !.pending = p] = Queue(p, b, c, d)
    BY <1>1 DEF Queue
  <2>2. [Queue(p, b, c, d) EXCEPT !.completed = log] = Queue(p, b, log, d)
    BY DEF Queue
  <2>3. [q EXCEPT !.pending = p, !.completed = log]
          = [[q EXCEPT !.pending = p] EXCEPT !.completed = log]
    OBVIOUS
  <2> QED BY <2>1, <2>2, <2>3
<1>4. [q EXCEPT !.leases = L, !.pending = p, !.completed = log] = Queue(p, L, log, d)
  <2>1. [Queue(a, L, c, d) EXCEPT !.pending = p] = Queue(p, L, c, d)
    BY DEF Queue
  <2>2. [Queue(p, L, c, d) EXCEPT !.completed = log] = Queue(p, L, log, d)
    BY DEF Queue
  <2>3. [q EXCEPT !.leases = L, !.pending = p, !.completed = log]
          = [[[q EXCEPT !.leases = L] EXCEPT !.pending = p] EXCEPT !.completed = log]
    OBVIOUS
  <2> QED BY <1>2, <2>1, <2>2, <2>3
<1> QED BY <1>2, <1>3, <1>4 DEF a, b, c, d

LEMMA FewerShrink ==
  ASSUME NEW q, Sound(q), NEW J, NEW L, L \subseteq q.leases, NEW log
  PROVE  Shrinks(q, Queue(WithoutJobs(q.pending, J), L, log, q.issued))
<1> DEFINE K == {i \in DOMAIN q.pending : q.pending[i].job \notin J}
           r == Queue(KeepAt(q.pending, K), L, log, q.issued)
<1>1. Sound(r) /\ PendingJobs(r) \subseteq PendingJobs(q)
  <2>1. \A k \in K : k \in DOMAIN q.pending
    OBVIOUS
  <2> HIDE DEF K
  <2> QED BY <2>1, FewerAreSound
<1>2. r.leases = L /\ r.issued = q.issued
  BY DEF Queue
<1>3. r = Queue(WithoutJobs(q.pending, J), L, log, q.issued)
  BY DEF WithoutJobs
<1> HIDE DEF r
<1> QED BY <1>1, <1>2, <1>3 DEF Shrinks

LEMMA ReleaseShrinks ==
  ASSUME NEW q, Sound(q), NEW id
  PROVE  /\ Shrinks(q, ReleaseLease(q, id))
         /\ ReleaseLease(q, id).leases = {l \in q.leases : l.id # id}
<1> DEFINE L == {l \in q.leases : l.id # id}
           r == ReleaseLease(q, id)
<1>1. r = Queue(q.pending, L, q.completed, q.issued)
  <2>1. r = [q EXCEPT !.leases = L]
    BY DEF ReleaseLease
  <2> HIDE DEF r, L
  <2> QED BY <2>1, Updates DEF Sound
<1> HIDE DEF r
<1>2. /\ r.pending = q.pending /\ r.leases = L /\ r.issued = q.issued
      /\ r = Queue(r.pending, r.leases, r.completed, r.issued)
  BY <1>1 DEF Queue
<1>3. IsFiniteSet(L) /\ L \subseteq q.leases
  BY FS_Subset DEF Sound, Typed
<1> HIDE DEF L
<1>4. Typed(r)
  BY <1>2, <1>3 DEF Sound, Typed
<1>5. Once(r)
  BY <1>2, <1>3 DEF Sound, Once, PendingJobs
<1>6. PendingJobs(r) = PendingJobs(q)
  BY <1>2 DEF PendingJobs
<1> QED BY <1>2, <1>3, <1>4, <1>5, <1>6 DEF Shrinks, Sound, L, r

LEMMA MarkDoneShrinks ==
  ASSUME NEW q, Sound(q), NEW job, NEW status
  PROVE  /\ Shrinks(q, MarkDone(q, job, status))
         /\ MarkDone(q, job, status).leases = {l \in q.leases : l.job # job}
<1> DEFINE L   == {l \in q.leases : l.job # job}
           log == ReplaceRecord(q.completed, job, status)
<1>1. MarkDone(q, job, status) =
        [q EXCEPT !.leases = L, !.pending = WithoutJobs(q.pending, {job}), !.completed = log]
  BY DEF MarkDone
<1>2. MarkDone(q, job, status) = Queue(WithoutJobs(q.pending, {job}), L, log, q.issued)
  <2> HIDE DEF L, log
  <2> QED BY <1>1, Updates DEF Sound
<1>3. L \subseteq q.leases
  OBVIOUS
<1>4. MarkDone(q, job, status).leases = L
  BY <1>2 DEF Queue
<1> HIDE DEF L, log
<1> QED BY <1>2, <1>3, <1>4, FewerShrink DEF L

LEMMA CancelShrinks ==
  ASSUME NEW q, Sound(q), NEW job
  PROVE  /\ Shrinks(q, CancelPending(q, job))
         /\ CancelPending(q, job).leases = q.leases
<1> DEFINE log == AddRecord(q.completed, job, "cancelled")
<1>1. q = Queue(q.pending, q.leases, q.completed, q.issued)
  BY DEF Sound, Typed
<1>2. CASE job \notin PendingJobs(q)
  BY <1>2 DEF CancelPending, Shrinks
<1>3. CASE job \in PendingJobs(q)
  <2>1. CancelPending(q, job) = Queue(WithoutJobs(q.pending, {job}), q.leases, log, q.issued)
    BY <1>1, <1>3 DEF CancelPending, Queue
  <2>2. CancelPending(q, job).leases = q.leases
    BY <2>1 DEF Queue
  <2> HIDE DEF log
  <2> QED BY <2>1, <2>2, FewerShrink
<1> QED BY <1>2, <1>3

LEMMA TimeoutShrinks ==
  ASSUME NEW q, Sound(q), NEW job
  PROVE  /\ Shrinks(q, MarkTimeout(q, job))
         /\ MarkTimeout(q, job).leases = q.leases
<1> DEFINE log == AddRecord(q.completed, job, "timeout")
<1>1. MarkTimeout(q, job) =
        [q EXCEPT !.pending = WithoutJobs(q.pending, {job}), !.completed = log]
  BY DEF MarkTimeout
<1>2. MarkTimeout(q, job) = Queue(WithoutJobs(q.pending, {job}), q.leases, log, q.issued)
  <2> HIDE DEF log
  <2> QED BY <1>1, Updates DEF Sound
<1>3. MarkTimeout(q, job).leases = q.leases
  BY <1>2 DEF Queue
<1> HIDE DEF log
<1> QED BY <1>2, <1>3, FewerShrink

(* The jobs of the expired leases are done; a lease that is not overdue    *)
(* stays, because its job has no other.                                    *)
LEMMA ExpireShrinks ==
  ASSUME NEW q, Sound(q), NEW overdue
  PROVE  /\ Shrinks(q, ExpireStale(q, overdue))
         /\ ExpireStale(q, overdue).leases = {l \in q.leases : l.id \notin overdue}
<1> DEFINE gone == {l \in q.leases : l.id \in overdue}
           jobs == {l.job : l \in gone}
           L    == {l \in q.leases \ gone : l.job \notin jobs}
<1>1. PICK log : ExpireStale(q, overdue) =
        [q EXCEPT !.leases = L, !.pending = WithoutJobs(q.pending, jobs), !.completed = log]
  BY Zenon DEF ExpireStale
<1>2. ExpireStale(q, overdue) = Queue(WithoutJobs(q.pending, jobs), L, log, q.issued)
  <2> HIDE DEF L, jobs
  <2> QED BY <1>1, Updates DEF Sound
<1>3. L = {l \in q.leases : l.id \notin overdue}
  BY DEF Sound, Once
<1>4. ExpireStale(q, overdue).leases = L /\ L \subseteq q.leases
  BY <1>2 DEF Queue
<1> HIDE DEF L, jobs
<1> QED BY <1>2, <1>3, <1>4, FewerShrink
-------------------------------------------------------------------------------
(* The log of recent records: what is in it after a transition, although   *)
(* ReplaceRecords and OtherRecords are defined by recursion.  The provers  *)
(* have no induction over an operator; a set of numbers will do.           *)
LEMMA UpTo ==
  ASSUME NEW n \in Nat, NEW P, 0 \in P, \A i \in 1 .. n : i - 1 \in P => i \in P
  PROVE  \A i \in 0 .. n : i \in P
<1> DEFINE Missed == {i \in 0 .. n : i \notin P}
<1> SUFFICES ASSUME Missed # {} PROVE FALSE
  OBVIOUS
<1>1. PICK i \in Missed : \A k \in Missed : i <= k
  <2>1. Missed \in SUBSET Nat
    OBVIOUS
  <2> HIDE DEF Missed
  <2> QED BY <2>1, LeastElement
<1>2. i \in 1 .. n /\ i - 1 \in 0 .. n
  BY <1>1
<1>3. i - 1 \in P
  BY <1>1, <1>2
<1> QED BY <1>1, <1>2, <1>3

(* A recursion over 1 .. n exists: one that goes up to i - 1 can be        *)
(* continued to i.                                                         *)
Recursion(f, n, base, step) ==
  f = [i \in 0 .. n |-> IF i = 0 THEN base ELSE step[<<f[i - 1], i>>]]

LEMMA RecursionExists ==
  ASSUME NEW n \in Nat, NEW T, NEW base \in T, NEW step \in [T \X (1 .. n) -> T]
  PROVE  \E f \in [0 .. n -> T] : Recursion(f, n, base, step)
<1> DEFINE P == {m \in 0 .. n : \E f \in [0 .. m -> T] : Recursion(f, m, base, step)}
<1>1. 0 \in P
  <2> DEFINE f == [i \in 0 .. 0 |-> base]
  <2>1. f \in [0 .. 0 -> T] /\ Recursion(f, 0, base, step)
    BY DEF Recursion
  <2> HIDE DEF f
  <2> QED BY <2>1
<1>2. ASSUME NEW m \in 1 .. n, m - 1 \in P PROVE m \in P
  <2>1. PICK f \in [0 .. m - 1 -> T] : Recursion(f, m - 1, base, step)
    BY <1>2
  <2> DEFINE g == [i \in 0 .. m |-> IF i = m THEN step[<<f[m - 1], m>>] ELSE f[i]]
  <2>2. f[m - 1] \in T /\ step[<<f[m - 1], m>>] \in T
    OBVIOUS
  <2>3. g \in [0 .. m -> T]
    BY <2>2
  <2>4. \A i \in 0 .. m - 1 : f[i] = IF i = 0 THEN base ELSE step[<<f[i - 1], i>>]
    BY <2>1, Zenon DEF Recursion
  <2>5. \A i \in 0 .. m : g[i] = IF i = 0 THEN base ELSE step[<<g[i - 1], i>>]
    <3> TAKE i \in 0 .. m
    <3>1. CASE i = m
      <4>1. g[m] = step[<<f[m - 1], m>>] /\ g[m - 1] = f[m - 1] /\ m # 0
        OBVIOUS
      <4> HIDE DEF g
      <4> QED BY <3>1, <4>1
    <3>2. CASE i # m
      <4>1. i \in 0 .. m - 1 /\ (i # 0 => i - 1 \in 0 .. m - 1)
        BY <3>2
      <4>2. g[i] = f[i] /\ (i # 0 => g[i - 1] = f[i - 1])
        BY <3>2, <4>1
      <4> HIDE DEF g
      <4> QED BY <2>4, <4>1, <4>2
    <3> QED BY <3>1, <3>2
  <2>6. Recursion(g, m, base, step)
    <3>1. g = [i \in 0 .. m |-> g[i]]
      OBVIOUS
    <3> HIDE DEF g
    <3> QED BY <2>5, <3>1 DEF Recursion
  <2> HIDE DEF g
  <2> QED BY <2>3, <2>6
<1>3. n \in P
  <2> HIDE DEF P
  <2> QED BY <1>1, <1>2, UpTo
<1> QED BY <1>3

(* The job's records are gone, and the others are what they were.          *)
LEMMA OthersRemain ==
  ASSUME NEW log \in Seq(Record), NEW job
  PROVE  OtherRecords(log, job) \in Seq({r \in Range(log) : r.job # job})
<1> DEFINE n == Len(log)
           S == {r \in Range(log) : r.job # job}
           T == Seq(S)
           step == [x \in T \X (1 .. n) |->
                      IF log[x[2]].job = job THEN x[1] ELSE Append(x[1], log[x[2]])]
           Others(f) == f = [i \in 0 .. n |->
                               IF i = 0 THEN <<>>
                               ELSE IF log[i].job = job THEN f[i - 1]
                                    ELSE Append(f[i - 1], log[i])]
           h == CHOOSE f : Others(f)
<1>1. \A i \in 1 .. n : log[i].job # job => log[i] \in S
  BY DEF Range
<1>2. \E f : Others(f)
  <2>1. step \in [T \X (1 .. n) -> T]
    <3> SUFFICES ASSUME NEW x \in T \X (1 .. n)
                 PROVE  (IF log[x[2]].job = job THEN x[1] ELSE Append(x[1], log[x[2]])) \in T
      OBVIOUS
    <3>1. x[1] \in T /\ x[2] \in 1 .. n
      OBVIOUS
    <3> HIDE DEF S
    <3> QED BY <1>1, <3>1
  <2>2. \A l \in T, i \in 1 .. n :
          step[<<l, i>>] = IF log[i].job = job THEN l ELSE Append(l, log[i])
    OBVIOUS
  <2>3. <<>> \in T /\ n \in Nat
    OBVIOUS
  <2> HIDE DEF step, T
  <2>4. PICK f \in [0 .. n -> T] : Recursion(f, n, <<>>, step)
    BY <2>1, <2>3, RecursionExists
  <2>5. f = [i \in 0 .. n |-> IF i = 0 THEN <<>> ELSE step[<<f[i - 1], i>>]]
    BY <2>4 DEF Recursion
  <2>6. \A i \in 0 .. n : (IF i = 0 THEN <<>> ELSE step[<<f[i - 1], i>>])
                        = (IF i = 0 THEN <<>> ELSE IF log[i].job = job THEN f[i - 1]
                                                   ELSE Append(f[i - 1], log[i]))
    <3> TAKE i \in 0 .. n
    <3>1. CASE i = 0
      BY <3>1
    <3>2. CASE i # 0
      <4>1. i \in 1 .. n /\ f[i - 1] \in T
        BY <3>2
      <4> QED BY <2>2, <3>2, <4>1
    <3> QED BY <3>1, <3>2
  <2>7. Others(f)
    BY <2>5, <2>6
  <2> QED BY <2>7
<1>3. h = [i \in 0 .. n |-> IF i = 0 THEN <<>>
                           ELSE IF log[i].job = job THEN h[i - 1] ELSE Append(h[i - 1], log[i])]
  <2>1. Others(h)
    BY <1>2, Zenon
  <2> HIDE DEF h
  <2> QED BY <2>1
<1>4. OtherRecords(log, job) = h[n]
  BY Zenon DEF OtherRecords
<1> HIDE DEF h
<1>5. h[0] = <<>> /\ \A i \in 1 .. n :
        h[i] = IF log[i].job = job THEN h[i - 1] ELSE Append(h[i - 1], log[i])
  <2>1. \A i \in 0 .. n : h[i] = IF i = 0 THEN <<>>
                           ELSE IF log[i].job = job THEN h[i - 1] ELSE Append(h[i - 1], log[i])
    BY <1>3, Zenon
  <2>2. 0 \in 0 .. n /\ \A i \in 1 .. n : i \in 0 .. n /\ i # 0
    OBVIOUS
  <2> QED BY <2>1, <2>2
<1> DEFINE P == {i \in 0 .. n : h[i] \in T}
<1>6. n \in Nat /\ 0 \in P
  <2>1. n \in Nat /\ 0 \in 0 .. n /\ <<>> \in T
    OBVIOUS
  <2> QED BY <1>5, <2>1
<1>7. ASSUME NEW i \in 1 .. n, i - 1 \in P PROVE i \in P
  <2>1. h[i - 1] \in T
    BY <1>7
  <2>2. \A l \in T, r \in S : Append(l, r) \in T
    <3> HIDE DEF S
    <3> QED OBVIOUS
  <2>3. h[i] \in T
    <3> HIDE DEF S, T
    <3>1. CASE log[i].job = job
      BY <1>5, <2>1, <3>1
    <3>2. CASE log[i].job # job
      BY <1>1, <1>5, <2>1, <2>2, <3>2
    <3> QED BY <3>1, <3>2
  <2> QED BY <2>3
<1>8. n \in P
  <2> HIDE DEF P
  <2>1. \A i \in 0 .. n : i \in P
    BY <1>6, <1>7, UpTo
  <2> QED BY <1>6, <2>1
<1> QED BY <1>4, <1>8

(* What an added record leaves of a log: its own entries, those of the log *)
(* before it, and no more than the limit.                                  *)
LEMMA AddedRecord ==
  ASSUME NEW S, NEW log \in Seq(S), NEW job, NEW status
  PROVE  LET r == [job |-> job, status |-> status]
         IN /\ AddRecord(log, job, status) \in Seq(S \cup {r})
            /\ Len(AddRecord(log, job, status)) <= RecentLimit
<1> DEFINE r == [job |-> job, status |-> status]
           T == S \cup {r}
           all == Append(log, r)
<1>1. all \in Seq(T) /\ Len(all) \in Nat
  <2>1. log \in Seq(T) /\ r \in T
    OBVIOUS
  <2> HIDE DEF r, T
  <2> QED BY <2>1
<1>2. AddRecord(log, job, status) = TrimRecent(all)
  BY DEF AddRecord
<1> HIDE DEF all, T
<1>3. TrimRecent(all) \in Seq(T) /\ Len(TrimRecent(all)) <= RecentLimit
  <2>1. CASE Len(all) <= RecentLimit
    BY <1>1, <2>1 DEF TrimRecent
  <2>2. CASE ~ (Len(all) <= RecentLimit)
    <3> DEFINE k == Len(all) - RecentLimit + 1
    <3>1. k \in 1 .. Len(all) /\ Len(all) - k + 1 = RecentLimit
      BY <1>1, <2>2, RecentLimitAssumption
    <3>2. TrimRecent(all) = SubSeq(all, k, Len(all))
      BY <2>2 DEF TrimRecent
    <3> HIDE DEF k
    <3>3. SubSeq(all, k, Len(all)) \in Seq(T) /\ Len(SubSeq(all, k, Len(all))) = RecentLimit
      BY <1>1, <3>1
    <3> QED BY <3>2, <3>3, RecentLimitAssumption
  <2> QED BY <2>1, <2>2
<1> QED BY <1>2, <1>3 DEF T

LogTyped(log) == log \in Seq(Record) /\ Len(log) <= RecentLimit

(* What may be in a log after the records of J were replaced.              *)
Replaced(log, J, status) ==
  {r \in Range(log) : r.job \notin J} \cup {[job |-> j, status |-> status] : j \in J}

LEMMA RecordReplaced ==
  ASSUME NEW log \in Seq(Record), NEW job \in Job, NEW status \in Terminal \cup {"running"}
  PROVE  /\ LogTyped(ReplaceRecord(log, job, status))
         /\ Range(ReplaceRecord(log, job, status)) \subseteq Replaced(log, {job}, status)
<1> DEFINE S == {r \in Range(log) : r.job # job}
           e == [job |-> job, status |-> status]
           others == OtherRecords(log, job)
           new == ReplaceRecord(log, job, status)
<1>1. others \in Seq(S)
  BY OthersRemain
<1>2. new = AddRecord(others, job, status)
  BY DEF ReplaceRecord
<1>3. S \cup {e} \subseteq Record
  <2>1. \A i \in DOMAIN log : log[i] \in Record
    OBVIOUS
  <2>2. S \subseteq Record
    BY <2>1 DEF Range
  <2>3. e \in Record
    BY DEF Record
  <2> HIDE DEF S, e
  <2> QED BY <2>2, <2>3
<1>4. S \cup {e} \subseteq Replaced(log, {job}, status)
  BY DEF Replaced
<1> HIDE DEF S, others, new
<1>5. new \in Seq(S \cup {e}) /\ Len(new) <= RecentLimit
  BY <1>1, <1>2, AddedRecord
<1> HIDE DEF e
<1>6. Range(new) \subseteq S \cup {e} /\ new \in Seq(Record)
  BY <1>3, <1>5 DEF Range
<1> QED BY <1>4, <1>5, <1>6 DEF LogTyped, new

(* The log after each of the jobs is the one before it with one record     *)
(* replaced.                                                               *)
LEMMA ReplacedInTurn ==
  ASSUME NEW log \in Seq(Record), NEW jobs \in Seq(Job), NEW status \in Terminal \cup {"running"}
  PROVE  LET n == Len(jobs)
         IN \E h : /\ ReplaceRecords(log, jobs, status) = h[n]
                   /\ h[0] = log
                   /\ \A i \in 1 .. n : h[i] = ReplaceRecord(h[i - 1], jobs[i], status)
<1> DEFINE n == Len(jobs)
           T == Seq(Record)
           step == [x \in T \X (1 .. n) |-> ReplaceRecord(x[1], jobs[x[2]], status)]
           After(f) == f = [i \in 0 .. n |->
                              IF i = 0 THEN log ELSE ReplaceRecord(f[i - 1], jobs[i], status)]
           h == CHOOSE f : After(f)
<1>1. n \in Nat /\ log \in T /\ \A i \in 1 .. n : jobs[i] \in Job
  OBVIOUS
<1>2. \A l \in T, i \in 1 .. n : LogTyped(ReplaceRecord(l, jobs[i], status))
  BY <1>1, RecordReplaced
<1>3. \E f : After(f)
  <2>1. step \in [T \X (1 .. n) -> T]
    <3> SUFFICES ASSUME NEW x \in T \X (1 .. n)
                 PROVE  ReplaceRecord(x[1], jobs[x[2]], status) \in T
      OBVIOUS
    <3>1. x[1] \in T /\ x[2] \in 1 .. n
      OBVIOUS
    <3> QED BY <1>2, <3>1 DEF LogTyped
  <2>2. \A l \in T, i \in 1 .. n : step[<<l, i>>] = ReplaceRecord(l, jobs[i], status)
    OBVIOUS
  <2> HIDE DEF step, T
  <2>3. PICK f \in [0 .. n -> T] : Recursion(f, n, log, step)
    BY <1>1, <2>1, RecursionExists
  <2>4. f = [i \in 0 .. n |-> IF i = 0 THEN log ELSE step[<<f[i - 1], i>>]]
    BY <2>3 DEF Recursion
  <2>5. \A i \in 0 .. n : (IF i = 0 THEN log ELSE step[<<f[i - 1], i>>])
                        = (IF i = 0 THEN log ELSE ReplaceRecord(f[i - 1], jobs[i], status))
    <3> TAKE i \in 0 .. n
    <3>1. CASE i = 0
      BY <3>1
    <3>2. CASE i # 0
      <4>1. i \in 1 .. n /\ f[i - 1] \in T
        BY <1>1, <3>2
      <4> QED BY <2>2, <3>2, <4>1
    <3> QED BY <3>1, <3>2
  <2>6. After(f)
    BY <2>4, <2>5
  <2> QED BY <2>6
<1>4. h = [i \in 0 .. n |-> IF i = 0 THEN log ELSE ReplaceRecord(h[i - 1], jobs[i], status)]
  <2>1. After(h)
    BY <1>3, Zenon
  <2> HIDE DEF h
  <2> QED BY <2>1
<1>5. ReplaceRecords(log, jobs, status) = h[n]
  BY Zenon DEF ReplaceRecords
<1> HIDE DEF h
<1>6. h[0] = log /\ \A i \in 1 .. n : h[i] = ReplaceRecord(h[i - 1], jobs[i], status)
  <2>1. \A i \in 0 .. n :
          h[i] = IF i = 0 THEN log ELSE ReplaceRecord(h[i - 1], jobs[i], status)
    BY <1>4, Zenon
  <2>2. 0 \in 0 .. n /\ \A i \in 1 .. n : i \in 0 .. n /\ i # 0
    BY <1>1
  <2> QED BY <2>1, <2>2
<1> QED BY <1>5, <1>6

(* A record of each of the jobs, one after the other.                      *)
THEOREM RecordsReplaced ==
  ASSUME NEW log, LogTyped(log), NEW jobs \in Seq(Job),
         NEW status \in Terminal \cup {"running"}
  PROVE  /\ LogTyped(ReplaceRecords(log, jobs, status))
         /\ Range(ReplaceRecords(log, jobs, status))
              \subseteq Replaced(log, {jobs[i] : i \in 1 .. Len(jobs)}, status)
<1> DEFINE n == Len(jobs)
           First(i) == {jobs[k] : k \in 1 .. i}
<1>1. n \in Nat /\ log \in Seq(Record) /\ \A i \in 1 .. n : jobs[i] \in Job
  BY DEF LogTyped
<1>2. \A l \in Seq(Record), i \in 1 .. n :
        /\ LogTyped(ReplaceRecord(l, jobs[i], status))
        /\ Range(ReplaceRecord(l, jobs[i], status)) \subseteq Replaced(l, {jobs[i]}, status)
  BY <1>1, RecordReplaced
<1>3. PICK h : /\ ReplaceRecords(log, jobs, status) = h[n]
               /\ h[0] = log
               /\ \A i \in 1 .. n : h[i] = ReplaceRecord(h[i - 1], jobs[i], status)
  BY <1>1, ReplacedInTurn
<1> DEFINE Q(i) == LogTyped(h[i]) /\ Range(h[i]) \subseteq Replaced(log, First(i), status)
           P == {i \in 0 .. n : Q(i)}
<1>4. 0 \in P
  <2>1. First(0) = {}
    OBVIOUS
  <2>2. Range(log) \subseteq Replaced(log, {}, status)
    BY DEF Replaced
  <2>3. Q(0)
    BY <1>3, <2>1, <2>2
  <2> QED BY <1>1, <2>3
<1>5. ASSUME NEW i \in 1 .. n, i - 1 \in P PROVE i \in P
  <2>1. LogTyped(h[i - 1]) /\ Range(h[i - 1]) \subseteq Replaced(log, First(i - 1), status)
    BY <1>5
  <2>2. /\ LogTyped(h[i])
        /\ Range(h[i]) \subseteq Replaced(h[i - 1], {jobs[i]}, status)
    BY <1>2, <1>3, <2>1 DEF LogTyped
  <2>3. First(i) = First(i - 1) \cup {jobs[i]}
    <3>1. \A k \in 1 .. i : k \in 1 .. i - 1 \/ k = i
      OBVIOUS
    <3>2. i \in 1 .. i /\ \A k \in 1 .. i - 1 : k \in 1 .. i
      OBVIOUS
    <3> QED BY <3>1, <3>2
  <2> HIDE DEF First
  <2>4. Replaced(h[i - 1], {jobs[i]}, status) \subseteq Replaced(log, First(i), status)
    <3> SUFFICES ASSUME NEW r \in Range(h[i - 1]), r.job # jobs[i]
                 PROVE  r \in Replaced(log, First(i), status)
      BY <2>3 DEF Replaced
    <3>1. r \in Replaced(log, First(i - 1), status)
      BY <2>1
    <3> QED BY <2>3, <3>1 DEF Replaced
  <2>5. Q(i)
    BY <2>2, <2>4
  <2> QED BY <2>5
<1>6. Q(n)
  <2> HIDE DEF P
  <2>1. \A i \in 0 .. n : i \in P
    BY <1>1, <1>4, <1>5, UpTo
  <2>2. n \in P
    BY <1>1, <2>1
  <2> QED BY <2>2 DEF P
<1> QED BY <1>3, <1>6

(* The list of the jobs of leases has them all.                            *)
LEMMA RanksDiffer ==
  ASSUME NEW m \in Nat, NEW K, \A k \in K : k \in 1 .. m, NEW i \in K, NEW j \in K,
         Rank(K, i) = Rank(K, j)
  PROVE  i = j
<1>1. ASSUME NEW a \in K, NEW b \in K, a < b PROVE Rank(K, a) # Rank(K, b)
  <2> DEFINE A == {k \in K : k <= a}
             B == {k \in K : k <= b}
  <2>1. IsFiniteSet(K)
    BY RankSteps
  <2>2. a \in Nat /\ b \in Nat /\ \A k \in K : k \in Nat
    OBVIOUS
  <2>3. A \in SUBSET B /\ B \in SUBSET K /\ b \in B /\ b \notin A
    <3>1. \A k \in A : k \in B
      BY <1>1, <2>2
    <3>2. b \in B /\ b \notin A
      BY <1>1, <2>2
    <3> QED BY <3>1, <3>2
  <2> HIDE DEF A, B
  <2>4. IsFiniteSet(B)
    BY <2>1, <2>3, FS_Subset
  <2>5. Cardinality(B) = Cardinality(A) => B = A
    BY <2>3, <2>4, FS_Subset
  <2>6. Cardinality(A) # Cardinality(B)
    BY <2>3, <2>5
  <2> QED BY <2>6 DEF Rank, A, B
<1>2. i \in Int /\ j \in Int
  OBVIOUS
<1> QED BY <1>1, <1>2

LEMMA JobsOfLeases ==
  ASSUME NEW q, Sound(q), NEW L, L \subseteq q.leases
  PROVE  /\ JobsInOrder(L) \in Seq(Job)
         /\ {JobsInOrder(L)[n] : n \in 1 .. Len(JobsInOrder(L))} = {l.job : l \in L}
<1> DEFINE ids == {l.id : l \in L}
           of  == [id \in ids |-> (CHOOSE l \in L : l.id = id).job]
           jobs == JobsInOrder(L)
<1>1. q.issued \in Nat /\ \A id \in ids : id \in 1 .. q.issued
  BY DEF Sound, Typed, Once, Lease
<1>2. \A l \in L : of[l.id] = l.job /\ l.job \in Job
  BY DEF Sound, Typed, Once, Lease
<1>3. \A id \in ids : \E l \in L : l.id = id
  OBVIOUS
<1>4. \A l \in L : l.id \in ids
  OBVIOUS
<1>5. jobs = [n \in 1 .. Cardinality(ids) |-> of[Place(ids, n)]]
  BY DEF JobsInOrder, KeepAt, Place
<1> HIDE DEF ids, of, jobs
<1>6. \A n \in 1 .. Cardinality(ids) : Place(ids, n) \in ids
  <2> TAKE n \in 1 .. Cardinality(ids)
  <2>1. \E i \in ids : Rank(ids, i) = n
    BY <1>1, RankReached
  <2> QED BY <2>1 DEF Place
<1>7. Cardinality(ids) \in Nat /\ IsFiniteSet(ids) /\ \A i \in Nat : Rank(ids, i) \in Nat
  BY <1>1, RankSteps
<1>8. \A n \in 1 .. Cardinality(ids) : \E l \in L : of[Place(ids, n)] = l.job
  BY <1>2, <1>3, <1>6
<1>9. jobs \in Seq(Job) /\ Len(jobs) = Cardinality(ids)
  BY <1>2, <1>5, <1>7, <1>8
<1>10. ASSUME NEW l \in L PROVE \E n \in 1 .. Cardinality(ids) : jobs[n] = l.job
  <2> DEFINE n == Rank(ids, l.id)
             upTo == {k \in ids : k <= l.id}
  <2>1. l.id \in ids /\ l.id \in Nat
    BY <1>1, <1>4
  <2>2. n \in 1 .. Cardinality(ids)
    <3>1. upTo \in SUBSET ids /\ l.id \in upTo
      BY <2>1
    <3>2. n = Cardinality(upTo)
      BY DEF Rank
    <3> HIDE DEF upTo
    <3>3. IsFiniteSet(upTo) /\ Cardinality(upTo) <= Cardinality(ids)
      BY <1>7, <3>1, FS_Subset
    <3>4. Cardinality(upTo) # 0
      BY <3>1, <3>3, FS_EmptySet
    <3>5. n \in Nat
      BY <1>7, <2>1
    <3> HIDE DEF n
    <3> QED BY <1>7, <3>2, <3>3, <3>4, <3>5
  <2>3. Place(ids, n) \in ids /\ Rank(ids, Place(ids, n)) = n
    BY <2>1 DEF Place
  <2>4. Place(ids, n) = l.id
    BY <1>1, <2>1, <2>3, RanksDiffer
  <2>5. jobs[n] = of[Place(ids, n)]
    <3> HIDE DEF n
    <3> QED BY <1>5, <2>2
  <2>6. jobs[n] = l.job
    BY <1>2, <2>4, <2>5
  <2> HIDE DEF n
  <2> QED BY <2>2, <2>6
<1>11. \A n \in 1 .. Cardinality(ids) : \E l \in L : jobs[n] = l.job
  BY <1>5, <1>8
<1> QED BY <1>9, <1>10, <1>11 DEF jobs

(* Each transition and the log.                                            *)
LEMMA LogsOfTransitions ==
  ASSUME NEW q, Sound(q), LogTyped(q.completed), NEW job \in Job
  PROVE  /\ \A slots : Enqueue(q, job, slots).completed = q.completed
         /\ \A id : ReleaseLease(q, id).completed = q.completed
         /\ \A status \in Terminal :
              /\ LogTyped(MarkDone(q, job, status).completed)
              /\ Range(MarkDone(q, job, status).completed)
                   \subseteq Replaced(q.completed, {job}, status)
         /\ LogTyped(CancelPending(q, job).completed)
         /\ Range(CancelPending(q, job).completed)
              \subseteq Range(q.completed) \cup {[job |-> job, status |-> "cancelled"]}
         /\ LogTyped(MarkTimeout(q, job).completed)
         /\ Range(MarkTimeout(q, job).completed)
              \subseteq Range(q.completed) \cup {[job |-> job, status |-> "timeout"]}
<1>1. q = Queue(q.pending, q.leases, q.completed, q.issued)
  BY DEF Sound, Typed
<1>2. \A slots : Enqueue(q, job, slots).completed = q.completed
  BY <1>1, Zenon DEF Enqueue, Queue
<1>3. \A id : ReleaseLease(q, id).completed = q.completed
  BY <1>1 DEF ReleaseLease, Queue
<1>4. ASSUME NEW status \in Terminal
      PROVE  /\ LogTyped(MarkDone(q, job, status).completed)
             /\ Range(MarkDone(q, job, status).completed)
                  \subseteq Replaced(q.completed, {job}, status)
  <2>1. MarkDone(q, job, status).completed = ReplaceRecord(q.completed, job, status)
    BY <1>1 DEF MarkDone, Queue
  <2>2. q.completed \in Seq(Record) /\ status \in Terminal \cup {"running"}
    BY DEF LogTyped
  <2> QED BY <2>1, <2>2, RecordReplaced
<1>5. ASSUME NEW status \in {"cancelled", "timeout"}
      PROVE  /\ LogTyped(AddRecord(q.completed, job, status))
             /\ Range(AddRecord(q.completed, job, status))
                  \subseteq Range(q.completed) \cup {[job |-> job, status |-> status]}
  <2> DEFINE S == Range(q.completed) \cup {[job |-> job, status |-> status]}
             new == AddRecord(q.completed, job, status)
  <2>1. q.completed \in Seq(Record) /\ q.completed \in Seq(Range(q.completed))
    BY DEF LogTyped, Range
  <2>2. new \in Seq(S) /\ Len(new) <= RecentLimit
    BY <2>1, AddedRecord
  <2>3. S \subseteq Record
    <3>1. Range(q.completed) \subseteq Record
      BY <2>1 DEF Range
    <3>2. [job |-> job, status |-> status] \in Record
      BY DEF Record, Terminal
    <3> QED BY <3>1, <3>2
  <2> HIDE DEF S, new
  <2>4. new \in Seq(Record) /\ Range(new) \subseteq S
    BY <2>2, <2>3 DEF Range
  <2> QED BY <2>2, <2>4 DEF LogTyped, S, new
<1>6. \/ CancelPending(q, job) = q
      \/ CancelPending(q, job).completed = AddRecord(q.completed, job, "cancelled")
  BY <1>1, Zenon DEF CancelPending, Queue
<1>7. MarkTimeout(q, job).completed = AddRecord(q.completed, job, "timeout")
  BY <1>1 DEF MarkTimeout, Queue
<1>8. /\ LogTyped(CancelPending(q, job).completed)
      /\ Range(CancelPending(q, job).completed)
           \subseteq Range(q.completed) \cup {[job |-> job, status |-> "cancelled"]}
  BY <1>5, <1>6
<1>9. /\ LogTyped(MarkTimeout(q, job).completed)
      /\ Range(MarkTimeout(q, job).completed)
           \subseteq Range(q.completed) \cup {[job |-> job, status |-> "timeout"]}
  BY <1>5, <1>7
<1> QED BY <1>2, <1>3, <1>4, <1>8, <1>9

LEMMA LogAfterExpiry ==
  ASSUME NEW q, Sound(q), LogTyped(q.completed), NEW overdue
  PROVE  LET jobs == {l.job : l \in {m \in q.leases : m.id \in overdue}}
         IN /\ LogTyped(ExpireStale(q, overdue).completed)
            /\ Range(ExpireStale(q, overdue).completed)
                 \subseteq Replaced(q.completed, jobs, "failed")
<1> DEFINE gone == {l \in q.leases : l.id \in overdue}
           jobs == {l.job : l \in gone}
           order == JobsInOrder(gone)
<1>1. q = Queue(q.pending, q.leases, q.completed, q.issued)
  BY DEF Sound, Typed
<1>2. ExpireStale(q, overdue).completed = ReplaceRecords(q.completed, order, "failed")
  <2> DEFINE L == {l \in q.leases \ gone : l.job \notin jobs}
             p == WithoutJobs(q.pending, jobs)
             log == ReplaceRecords(q.completed, order, "failed")
  <2>1. ExpireStale(q, overdue) = [q EXCEPT !.leases = L, !.pending = p, !.completed = log]
    BY Zenon DEF ExpireStale
  <2> HIDE DEF L, p, log
  <2>2. ExpireStale(q, overdue) = Queue(p, L, log, q.issued)
    BY <2>1, Updates DEF Sound
  <2> QED BY <2>2 DEF Queue, log
<1>3. gone \subseteq q.leases
  OBVIOUS
<1> HIDE DEF gone
<1>4. order \in Seq(Job) /\ {order[n] : n \in 1 .. Len(order)} = jobs
  BY <1>3, JobsOfLeases
<1> HIDE DEF order, jobs
<1>5. "failed" \in Terminal \cup {"running"}
  BY DEF Terminal
<1>6. /\ LogTyped(ReplaceRecords(q.completed, order, "failed"))
      /\ Range(ReplaceRecords(q.completed, order, "failed"))
           \subseteq Replaced(q.completed, {order[n] : n \in 1 .. Len(order)}, "failed")
  BY <1>4, <1>5, RecordsReplaced
<1> QED BY <1>2, <1>4, <1>6 DEF jobs, gone

(* Everybody who was started has the one record that says so.              *)
LEMMA LogAfterStart ==
  ASSUME NEW q, Sound(q), LogTyped(q.completed), NEW cfg \in Policy
  PROVE  LET r == TryStart(q, cfg)
         IN \E J \in SUBSET Job :
              /\ LogTyped(r.completed)
              /\ Range(r.completed) \subseteq Replaced(q.completed, J, "running")
              /\ \A job \in J : HasLease(r, job)
<1> DEFINE k == StartCount(q, cfg)
           r == StartFirst(q, k, cfg)
           jobs == [i \in 1 .. k |-> q.pending[i].job]
           J == {jobs[i] : i \in 1 .. k}
<1>1. k \in 0 .. Len(q.pending) /\ TryStart(q, cfg) = r
  BY StartCountStops DEF TryStart
<1>2. q.pending \in Seq(Request) /\ Len(q.pending) \in Nat
  BY DEF Sound, Typed
<1>3. \A i \in 1 .. k : q.pending[i].job \in Job
  <2> HIDE DEF k
  <2>1. \A i \in 1 .. k : i \in 1 .. Len(q.pending)
    BY <1>1, <1>2
  <2>2. \A i \in 1 .. Len(q.pending) : q.pending[i] \in Request
    BY <1>2
  <2> QED BY <2>1, <2>2 DEF Request
<1> HIDE DEF k
<1>4. jobs \in Seq(Job) /\ Len(jobs) = k /\ J \in SUBSET Job
  BY <1>1, <1>3
<1>5. /\ r.completed = ReplaceRecords(q.completed, jobs, "running")
      /\ r.leases = q.leases \cup NewLeases(q, k, cfg)
  BY DEF StartFirst
<1>6. ASSUME NEW job \in J PROVE HasLease(r, job)
  <2>1. PICK i \in 1 .. k : job = q.pending[i].job
    OBVIOUS
  <2>2. [id |-> q.issued + i, job |-> q.pending[i].job,
         slots |-> JobSlots(q.pending[i].slots, cfg)] \in NewLeases(q, k, cfg)
    BY DEF NewLeases
  <2> QED BY <1>5, <2>1, <2>2 DEF HasLease
<1> HIDE DEF r, jobs
<1>7. /\ LogTyped(ReplaceRecords(q.completed, jobs, "running"))
      /\ Range(ReplaceRecords(q.completed, jobs, "running"))
           \subseteq Replaced(q.completed, {jobs[i] : i \in 1 .. Len(jobs)}, "running")
  BY <1>4, RecordsReplaced
<1>8. {jobs[i] : i \in 1 .. Len(jobs)} = J
  BY <1>4
<1> HIDE DEF J
<1> QED BY <1>1, <1>4, <1>5, <1>6, <1>7, <1>8

-------------------------------------------------------------------------------
(* TryStart and the loop it stands for.                                    *)

(* One record more, and none.                                              *)
LEMMA OneMoreRecord ==
  ASSUME NEW log \in Seq(Record), NEW jobs \in Seq(Job), NEW more \in Seq(Job),
         Len(more) = Len(jobs) + 1, \A i \in 1 .. Len(jobs) : more[i] = jobs[i],
         NEW status \in Terminal \cup {"running"}
  PROVE  ReplaceRecords(log, more, status)
           = ReplaceRecord(ReplaceRecords(log, jobs, status), more[Len(more)], status)
<1> DEFINE n == Len(jobs)
<1>1. n \in Nat /\ Len(more) = n + 1 /\ Len(more) \in 1 .. n + 1
  OBVIOUS
<1>2. PICK g : /\ ReplaceRecords(log, jobs, status) = g[n]
               /\ g[0] = log
               /\ \A i \in 1 .. n : g[i] = ReplaceRecord(g[i - 1], jobs[i], status)
  BY ReplacedInTurn
<1>3. PICK h : /\ ReplaceRecords(log, more, status) = h[n + 1]
               /\ h[0] = log
               /\ \A i \in 1 .. n + 1 : h[i] = ReplaceRecord(h[i - 1], more[i], status)
  <2>1. \E f : /\ ReplaceRecords(log, more, status) = f[Len(more)]
               /\ f[0] = log
               /\ \A i \in 1 .. Len(more) : f[i] = ReplaceRecord(f[i - 1], more[i], status)
    BY ReplacedInTurn
  <2> QED BY <1>1, <2>1
<1> DEFINE P == {i \in 0 .. n : g[i] = h[i]}
<1>4. 0 \in P
  BY <1>1, <1>2, <1>3
<1>5. ASSUME NEW i \in 1 .. n, i - 1 \in P PROVE i \in P
  <2>1. i \in 1 .. n + 1 /\ i \in 0 .. n
    BY <1>1
  <2>2. g[i - 1] = h[i - 1]
    BY <1>5
  <2> QED BY <1>2, <1>3, <2>1, <2>2
<1>6. g[n] = h[n]
  <2> HIDE DEF P
  <2>1. \A i \in 0 .. n : i \in P
    BY <1>1, <1>4, <1>5, UpTo
  <2>2. n \in P
    BY <1>1, <2>1
  <2> QED BY <2>2 DEF P
<1>7. h[n + 1] = ReplaceRecord(h[n], more[n + 1], status)
  <2>1. n + 1 \in 1 .. n + 1 /\ (n + 1) - 1 = n
    BY <1>1
  <2> QED BY <1>3, <2>1
<1> QED BY <1>1, <1>2, <1>3, <1>6, <1>7

LEMMA NoRecord ==
  ASSUME NEW log \in Seq(Record), NEW jobs \in Seq(Job), Len(jobs) = 0,
         NEW status \in Terminal \cup {"running"}
  PROVE  ReplaceRecords(log, jobs, status) = log
<1>1. PICK h : /\ ReplaceRecords(log, jobs, status) = h[Len(jobs)]
               /\ h[0] = log
               /\ \A i \in 1 .. Len(jobs) : h[i] = ReplaceRecord(h[i - 1], jobs[i], status)
  BY ReplacedInTurn
<1> QED BY <1>1

(* The line behind its first k requests.                                   *)
LEMMA RestOfTheLine ==
  ASSUME NEW S, NEW s \in Seq(S), NEW k \in Nat, k < Len(s)
  PROVE  LET p == SubSeq(s, k + 1, Len(s))
         IN /\ p # <<>> /\ Head(p) = s[k + 1]
            /\ Tail(p) = SubSeq(s, (k + 1) + 1, Len(s))
<1>1. PICK n, p : n = Len(s) /\ p = SubSeq(s, k + 1, Len(s))
  OBVIOUS
<1>2. n \in Nat /\ k < n
  BY <1>1
<1>3. /\ p \in Seq(S) /\ Len(p) = n - k
      /\ \A i \in 1 .. n - k : p[i] = s[k + i]
  BY <1>1, <1>2
<1>4. p # <<>> /\ Head(p) = s[k + 1]
  BY <1>2, <1>3
<1>5. Len(Tail(p)) = n - k - 1 /\ \A i \in 1 .. n - k - 1 : Tail(p)[i] = s[k + 1 + i]
  <2>1. Len(Tail(p)) = n - k - 1 /\ \A i \in 1 .. n - k - 1 : Tail(p)[i] = p[i + 1]
    BY <1>2, <1>3, <1>4
  <2>2. \A i \in 1 .. n - k - 1 : i + 1 \in 1 .. n - k /\ k + (i + 1) = k + 1 + i
    BY <1>2
  <2> QED BY <1>3, <2>1, <2>2
<1>6. PICK t, u : t = Tail(p) /\ u = SubSeq(s, (k + 1) + 1, n)
  OBVIOUS
<1>7. t \in Seq(S) /\ u \in Seq(S) /\ Len(t) = Len(u) /\ \A i \in 1 .. Len(t) : t[i] = u[i]
  <2>1. t \in Seq(S) /\ Len(t) = n - k - 1
    BY <1>3, <1>4, <1>5, <1>6
  <2>2. u \in Seq(S) /\ Len(u) = n - k - 1 /\ \A i \in 1 .. n - k - 1 : u[i] = s[k + 1 + i]
    BY <1>1, <1>2, <1>6
  <2> QED BY <1>5, <1>6, <2>1, <2>2
<1>8. t = u
  BY <1>7
<1> QED BY <1>1, <1>4, <1>6, <1>8

(* More starts need more slots.                                            *)
LEMMA CanStartBefore ==
  ASSUME NEW q, Sound(q), NEW cfg \in Policy, NEW k \in 0 .. Len(q.pending),
         CanStart(q, k, cfg), NEW j \in 1 .. k
  PROVE  CanStart(q, j, cfg)
<1>1. /\ k \in Nat /\ j \in Nat /\ j <= k /\ j \in 0 .. Len(q.pending)
      /\ cfg.total \in Nat /\ cfg.maxRunning \in Nat
      /\ Cardinality(q.leases) \in Nat /\ UsedSlots(q.leases) \in Nat
  BY SlotsAreFinite, FS_CardinalityType DEF Sound, Typed, Policy
<1>2. IsFiniteSet(SlotsOfFirst(q, k, cfg)) /\ Cardinality(SlotsOfFirst(q, k, cfg)) \in Nat
  BY FirstSlots
<1>3. Cardinality(SlotsOfFirst(q, j, cfg)) \in Nat
  BY <1>1, FirstSlots
<1>4. SlotsOfFirst(q, j, cfg) \subseteq SlotsOfFirst(q, k, cfg)
  <2>1. \A i \in 1 .. j : i \in 1 .. k
    BY <1>1
  <2> QED BY <2>1 DEF SlotsOfFirst
<1>5. Cardinality(SlotsOfFirst(q, j, cfg)) <= Cardinality(SlotsOfFirst(q, k, cfg))
  BY <1>2, <1>4, FS_Subset
<1> QED BY <1>1, <1>2, <1>3, <1>5 DEF CanStart

(* After k starts the head of the line is the request k + 1, and can_start_*)
(* job says of it what CanStart says of k + 1 starts.                      *)
LEMMA HeadAfterStarts ==
  ASSUME NEW q, Sound(q), NEW cfg \in Policy, NEW k \in 0 .. Len(q.pending),
         k < Len(q.pending)
  PROVE  LET r == StartFirst(q, k, cfg)
         IN /\ r.pending # <<>> /\ Head(r.pending) = q.pending[k + 1]
            /\ HeadCanStart(r, cfg) <=> CanStart(q, k + 1, cfg)
<1> DEFINE r == StartFirst(q, k, cfg)
           asked == JobSlots(q.pending[k + 1].slots, cfg)
<1>1. /\ q.pending \in Seq(Request) /\ Len(q.pending) \in Nat /\ k \in Nat
      /\ cfg.total \in Nat /\ cfg.maxRunning \in Nat
      /\ Cardinality(q.leases) \in Nat /\ UsedSlots(q.leases) \in Nat
  BY SlotsAreFinite, FS_CardinalityType DEF Sound, Typed, Policy
<1>2. r.pending = SubSeq(q.pending, k + 1, Len(q.pending))
  BY DEF StartFirst
<1>3. /\ Cardinality(r.leases) = Cardinality(q.leases) + k
      /\ UsedSlots(r.leases) = UsedSlots(q.leases) + Cardinality(SlotsOfFirst(q, k, cfg))
  BY StartsAddUp
<1>4. /\ Cardinality(SlotsOfFirst(q, k, cfg)) \in Nat
      /\ Cardinality(SlotsOfFirst(q, k + 1, cfg)) = Cardinality(SlotsOfFirst(q, k, cfg)) + asked
  BY FirstSlots, NextSlots
<1>5. asked \in Nat
  <2>1. q.pending[k + 1] \in Request
    BY <1>1
  <2> QED BY <2>1, SlotsWithinPolicy DEF Request
<1> HIDE DEF r
<1>6. r.pending # <<>> /\ Head(r.pending) = q.pending[k + 1]
  BY <1>1, <1>2, RestOfTheLine
<1>7. HeadCanStart(r, cfg) <=> /\ Cardinality(q.leases) + k < cfg.maxRunning
                               /\ UsedSlots(q.leases) + Cardinality(SlotsOfFirst(q, k, cfg)) + asked
                                    <= cfg.total
  BY <1>3, <1>6 DEF HeadCanStart
<1> HIDE DEF asked
<1>8. CanStart(q, k + 1, cfg) <=> /\ Cardinality(q.leases) + (k + 1) <= cfg.maxRunning
                                  /\ UsedSlots(q.leases) + Cardinality(SlotsOfFirst(q, k, cfg)) + asked
                                       <= cfg.total
  BY <1>1, <1>4, <1>5 DEF CanStart
<1>9. Cardinality(q.leases) + k < cfg.maxRunning <=> Cardinality(q.leases) + (k + 1) <= cfg.maxRunning
  BY <1>1
<1> QED BY <1>6, <1>7, <1>8, <1>9 DEF r

(* One start more.                                                         *)
LEMMA HeadIsNext ==
  ASSUME NEW q, Sound(q), LogTyped(q.completed), NEW cfg \in Policy,
         NEW k \in 0 .. Len(q.pending), k < Len(q.pending)
  PROVE  StartHead(StartFirst(q, k, cfg), cfg) = StartFirst(q, k + 1, cfg)
<1> DEFINE r == StartFirst(q, k, cfg)
           request == q.pending[k + 1]
           lease(i) == [id |-> q.issued + i, job |-> q.pending[i].job,
                        slots |-> JobSlots(q.pending[i].slots, cfg)]
           jobs == [i \in 1 .. k |-> q.pending[i].job]
           more == [i \in 1 .. k + 1 |-> q.pending[i].job]
<1>1. /\ q.pending \in Seq(Request) /\ Len(q.pending) \in Nat /\ k \in Nat
      /\ q.issued \in Nat /\ q.completed \in Seq(Record)
  BY DEF Sound, Typed, LogTyped
<1>2. r.pending # <<>> /\ Head(r.pending) = request
  BY HeadAfterStarts
<1>3. /\ r.pending = SubSeq(q.pending, k + 1, Len(q.pending))
      /\ r.leases = q.leases \cup NewLeases(q, k, cfg)
      /\ r.completed = ReplaceRecords(q.completed, jobs, "running")
      /\ r.issued = q.issued + k
  BY DEF StartFirst
<1>4. Tail(r.pending) = SubSeq(q.pending, (k + 1) + 1, Len(q.pending))
  BY <1>1, <1>3, RestOfTheLine
<1>5. NewLeases(q, k + 1, cfg) = NewLeases(q, k, cfg) \cup {lease(k + 1)}
  <2>1. 1 .. k + 1 = (1 .. k) \cup {k + 1}
    BY <1>1
  <2>2. NewLeases(q, k + 1, cfg) = {lease(i) : i \in 1 .. k + 1}
    BY DEF NewLeases
  <2>3. NewLeases(q, k, cfg) = {lease(i) : i \in 1 .. k}
    BY DEF NewLeases
  <2> HIDE DEF lease
  <2> QED BY <2>1, <2>2, <2>3
<1>6. r.issued + 1 = q.issued + (k + 1)
  <2>1. r.issued = q.issued + k
    BY <1>3
  <2>2. (q.issued + k) + 1 = q.issued + (k + 1)
    BY <1>1
  <2> QED BY <2>1, <2>2
<1>7. lease(k + 1) = [id |-> r.issued + 1, job |-> request.job, slots |-> JobSlots(request.slots, cfg)]
  BY <1>6
<1>8. ReplaceRecords(q.completed, more, "running")
        = ReplaceRecord(ReplaceRecords(q.completed, jobs, "running"), request.job, "running")
  <2>1. \A i \in 1 .. k + 1 : q.pending[i].job \in Job
    <3>1. \A i \in 1 .. k + 1 : q.pending[i] \in Request
      BY <1>1
    <3> QED BY <3>1 DEF Request
  <2>2. \A i \in 1 .. k : i \in 1 .. k + 1
    BY <1>1
  <2>3. jobs \in Seq(Job) /\ more \in Seq(Job) /\ Len(jobs) = k /\ Len(more) = k + 1
    BY <1>1, <2>1, <2>2
  <2>4. \A i \in 1 .. Len(jobs) : more[i] = jobs[i]
    BY <2>2, <2>3
  <2>5. more[Len(more)] = request.job
    BY <1>1, <2>3
  <2> HIDE DEF jobs, more, request
  <2>6. "running" \in Terminal \cup {"running"} /\ Len(more) = Len(jobs) + 1
    BY <2>3
  <2> QED BY <1>1, <2>3, <2>4, <2>5, <2>6, OneMoreRecord
<1>9. StartFirst(q, k + 1, cfg)
        = [pending   |-> SubSeq(q.pending, (k + 1) + 1, Len(q.pending)),
           leases    |-> q.leases \cup NewLeases(q, k + 1, cfg),
           completed |-> ReplaceRecords(q.completed, more, "running"),
           issued    |-> q.issued + (k + 1)]
  BY DEF StartFirst
<1>10. StartHead(r, cfg)
        = [pending   |-> Tail(r.pending),
           leases    |-> r.leases \cup {[id |-> r.issued + 1, job |-> Head(r.pending).job,
                                         slots |-> JobSlots(Head(r.pending).slots, cfg)]},
           completed |-> ReplaceRecord(r.completed, Head(r.pending).job, "running"),
           issued    |-> r.issued + 1]
  BY Zenon DEF StartHead
<1> HIDE DEF r, jobs, more, request, lease
<1>11. r.leases \cup {lease(k + 1)} = q.leases \cup NewLeases(q, k + 1, cfg)
  BY <1>3, <1>5
<1> QED BY <1>2, <1>3, <1>4, <1>6, <1>7, <1>8, <1>9, <1>10, <1>11 DEF r

(* The loop goes through the files that the first starts leave, and stays  *)
(* where it stops: try_start_next_jobs and its closed form do the same.    *)
THEOREM ClosedFormIsTheLoop ==
  ASSUME NEW q, Sound(q), LogTyped(q.completed), NEW cfg \in Policy
  PROVE  TryStart(q, cfg) = StartWhilePossible(q, cfg)
<1> DEFINE n == Len(q.pending)
           k == StartCount(q, cfg)
           Upto(i) == IF i <= k THEN i ELSE k
           After(f) == f = [i \in 0 .. n |-> IF i = 0 THEN q ELSE StartTurn(f[i - 1], cfg)]
           g == [i \in 0 .. n |-> StartFirst(q, Upto(i), cfg)]
           h == CHOOSE f : After(f)
<1>1. /\ n \in Nat /\ k \in 0 .. n
      /\ k > 0 => CanStart(q, k, cfg)
      /\ k < n => ~CanStart(q, k + 1, cfg)
  BY StartCountStops DEF Sound, Typed
<1>2. StartFirst(q, 0, cfg) = q
  <2> DEFINE none == [i \in 1 .. 0 |-> q.pending[i].job]
  <2>1. none \in Seq(Job) /\ Len(none) = 0
    OBVIOUS
  <2>2. ReplaceRecords(q.completed, none, "running") = q.completed
    <3> HIDE DEF none
    <3>1. "running" \in Terminal \cup {"running"} /\ q.completed \in Seq(Record)
      BY DEF LogTyped
    <3> QED BY <2>1, <3>1, NoRecord
  <2>3. NewLeases(q, 0, cfg) = {}
    BY DEF NewLeases
  <2>4. SubSeq(q.pending, 0 + 1, Len(q.pending)) = q.pending /\ q.issued + 0 = q.issued
    BY DEF Sound, Typed
  <2>5. StartFirst(q, 0, cfg) = Queue(SubSeq(q.pending, 0 + 1, Len(q.pending)),
                                      q.leases \cup NewLeases(q, 0, cfg),
                                      ReplaceRecords(q.completed, none, "running"), q.issued + 0)
    BY DEF StartFirst, Queue
  <2>6. q = Queue(q.pending, q.leases, q.completed, q.issued)
    BY DEF Sound, Typed
  <2> HIDE DEF none
  <2> QED BY <2>2, <2>3, <2>4, <2>5, <2>6
<1> HIDE DEF k
<1>3. ASSUME NEW i \in 1 .. n
      PROVE  StartFirst(q, Upto(i), cfg) = StartTurn(StartFirst(q, Upto(i - 1), cfg), cfg)
  <2>1. CASE i <= k
    <3>1. PICK j \in 0 .. n : j = i - 1 /\ j < n /\ i = j + 1
      BY <1>1
    <3>2. Upto(i) = j + 1 /\ Upto(i - 1) = j
      BY <1>1, <2>1, <3>1
    <3>3. CanStart(q, j + 1, cfg)
      <4>1. i \in 1 .. k /\ k > 0 /\ k \in 0 .. Len(q.pending)
        BY <1>1, <2>1
      <4> QED BY <1>1, <3>1, <4>1, CanStartBefore
    <3>4. HeadCanStart(StartFirst(q, j, cfg), cfg)
      BY <3>1, <3>3, HeadAfterStarts
    <3>5. StartHead(StartFirst(q, j, cfg), cfg) = StartFirst(q, j + 1, cfg)
      BY <3>1, HeadIsNext
    <3> QED BY <3>2, <3>4, <3>5 DEF StartTurn
  <2>2. CASE i > k
    <3>1. Upto(i) = k /\ Upto(i - 1) = k /\ k < n
      BY <1>1, <2>2
    <3>2. ~HeadCanStart(StartFirst(q, k, cfg), cfg)
      BY <1>1, <3>1, HeadAfterStarts
    <3> QED BY <3>1, <3>2 DEF StartTurn
  <2> QED BY <1>1, <2>1, <2>2
<1>4. /\ DOMAIN g = 0 .. n
      /\ g[0] = q /\ g[n] = StartFirst(q, k, cfg)
      /\ \A i \in 1 .. n : g[i] = StartTurn(g[i - 1], cfg)
  <2>1. Upto(0) = 0 /\ Upto(n) = k
    BY <1>1
  <2>2. \A i \in 1 .. n : i \in 0 .. n /\ i - 1 \in 0 .. n
    BY <1>1
  <2>3. 0 \in 0 .. n /\ n \in 0 .. n
    BY <1>1
  <2> HIDE DEF Upto
  <2> QED BY <1>2, <1>3, <2>1, <2>2, <2>3
<1> HIDE DEF Upto
<1>5. After(g)
  <2>1. g = [i \in 0 .. n |-> g[i]]
    OBVIOUS
  <2>2. \A i \in 0 .. n : i # 0 => i \in 1 .. n
    BY <1>1
  <2> HIDE DEF g
  <2>3. \A i \in 0 .. n : g[i] = IF i = 0 THEN q ELSE StartTurn(g[i - 1], cfg)
    BY <1>4, <2>2
  <2> QED BY <2>1, <2>3
<1> HIDE DEF g
<1>6. h = [i \in 0 .. n |-> IF i = 0 THEN q ELSE StartTurn(h[i - 1], cfg)]
  <2>1. After(h)
    BY <1>5, Zenon
  <2> HIDE DEF h
  <2> QED BY <2>1
<1>7. StartWhilePossible(q, cfg) = h[n]
  BY Zenon DEF StartWhilePossible
<1> HIDE DEF h
<1>8. h[0] = q /\ \A i \in 1 .. n : h[i] = StartTurn(h[i - 1], cfg)
  <2>1. \A i \in 0 .. n : h[i] = IF i = 0 THEN q ELSE StartTurn(h[i - 1], cfg)
    BY <1>6, Zenon
  <2>2. 0 \in 0 .. n /\ \A i \in 1 .. n : i \in 0 .. n /\ i # 0
    BY <1>1
  <2> QED BY <2>1, <2>2
<1> DEFINE P == {i \in 0 .. n : h[i] = g[i]}
<1>9. 0 \in P
  BY <1>1, <1>4, <1>8
<1>10. ASSUME NEW i \in 1 .. n, i - 1 \in P PROVE i \in P
  <2>1. i \in 0 .. n /\ h[i - 1] = g[i - 1]
    BY <1>1, <1>10
  <2> QED BY <1>4, <1>8, <2>1
<1>11. h[n] = g[n]
  <2> HIDE DEF P
  <2>1. \A i \in 0 .. n : i \in P
    BY <1>1, <1>9, <1>10, UpTo
  <2>2. n \in P
    BY <1>1, <2>1
  <2> QED BY <2>2 DEF P
<1> QED BY <1>4, <1>7, <1>11 DEF TryStart, k
===============================================================================
