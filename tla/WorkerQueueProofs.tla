--------------------------- MODULE WorkerQueueProofs ---------------------------
(***************************************************************************)
(* Theorems about the worker queue scheduler, for any batch, any number of *)
(* workers and any bound of the queue, whatever fails and dies: the safety *)
(* the runs check, and that the scheduler is a ForceBatch.                 *)
(***************************************************************************)
EXTENDS WorkerQueue, FiniteSetTheorems, TLAPS

-------------------------------------------------------------------------------
(* Counting entries of lists and functions.                                *)

Count(f, S) == Cardinality({i \in DOMAIN f : f[i] \in S})

In(x, S) == IF x \in S THEN 1 ELSE 0

(* Of two sets that differ in one element at most, which may be in either. *)
LEMMA CountOfRest ==
  ASSUME NEW A, IsFiniteSet(A), NEW x, x \notin A, NEW B, NEW y, NEW S,
         B = IF y \in S THEN A \cup {x} ELSE A
  PROVE  /\ IsFiniteSet(B) /\ Cardinality(A) \in Nat
         /\ Cardinality(B) = Cardinality(A) + In(y, S)
BY FS_AddElement, FS_CardinalityType DEF In

LEMMA CountUpdate ==
  ASSUME NEW D, IsFiniteSet(D), NEW f, DOMAIN f = D, NEW g, DOMAIN g = D,
         NEW w \in D, \A i \in D \ {w} : g[i] = f[i], NEW S
  PROVE  /\ Count(f, S) \in Nat
         /\ Count(g, S) = Count(f, S) - In(f[w], S) + In(g[w], S)
<1> DEFINE A == {i \in D \ {w} : f[i] \in S}
           F == {i \in DOMAIN f : f[i] \in S}
           G == {i \in DOMAIN g : g[i] \in S}
<1>1. IsFiniteSet(A) /\ w \notin A
  BY FS_Subset
<1>2. F = IF f[w] \in S THEN A \cup {w} ELSE A
  OBVIOUS
<1>3. G = IF g[w] \in S THEN A \cup {w} ELSE A
  OBVIOUS
<1> HIDE DEF A, F, G
<1>4. Cardinality(F) = Cardinality(A) + In(f[w], S) /\ Cardinality(A) \in Nat
  BY <1>1, <1>2, CountOfRest
<1>5. Cardinality(G) = Cardinality(A) + In(g[w], S)
  BY <1>1, <1>3, CountOfRest
<1>6. Count(f, S) = Cardinality(F) /\ Count(g, S) = Cardinality(G)
  BY DEF Count, F, G
<1> QED BY <1>4, <1>5, <1>6 DEF In

LEMMA CountEmpty == ASSUME NEW S PROVE Count(<<>>, S) = 0
<1>1. {i \in DOMAIN <<>> : <<>>[i] \in S} = {}
  OBVIOUS
<1> QED BY <1>1, FS_EmptySet DEF Count

LEMMA CountAppend ==
  ASSUME NEW T, NEW s \in Seq(T), NEW x \in T, NEW S
  PROVE  /\ Count(s, S) \in Nat
         /\ Count(Append(s, x), S) = Count(s, S) + In(x, S)
<1> DEFINE r == Append(s, x)
           A == {i \in DOMAIN s : s[i] \in S}
           B == {i \in DOMAIN r : r[i] \in S}
<1>1. /\ DOMAIN s = 1 .. Len(s) /\ Len(s) \in Nat
      /\ DOMAIN r = 1 .. Len(s) + 1
      /\ \A i \in 1 .. Len(s) : r[i] = s[i]
      /\ r[Len(s) + 1] = x
  OBVIOUS
<1>2. IsFiniteSet(A) /\ Len(s) + 1 \notin A
  <2>1. IsFiniteSet(1 .. Len(s)) /\ A \subseteq 1 .. Len(s) /\ Len(s) + 1 \notin 1 .. Len(s)
    BY <1>1, FS_Interval
  <2> HIDE DEF A
  <2> QED BY <2>1, FS_Subset
<1>3. B = IF x \in S THEN A \cup {Len(s) + 1} ELSE A
  <2> HIDE DEF r
  <2> QED BY <1>1
<1> HIDE DEF A, B
<1>4. Cardinality(B) = Cardinality(A) + In(x, S) /\ Cardinality(A) \in Nat
  BY <1>2, <1>3, CountOfRest
<1> QED BY <1>4 DEF Count, A, B, r

(* The entries of the tail are those of the list from the second on.       *)
LEMMA CountTail ==
  ASSUME NEW T, NEW s \in Seq(T), s # <<>>, NEW S
  PROVE  /\ Count(s, S) \in Nat /\ Count(Tail(s), S) \in Nat
         /\ Count(s, S) = Count(Tail(s), S) + In(Head(s), S)
<1> DEFINE r == Tail(s)
           A == {i \in DOMAIN s : i # 1 /\ s[i] \in S}
           B == {i \in DOMAIN r : r[i] \in S}
           C == {i \in DOMAIN s : s[i] \in S}
           f == [i \in B |-> i + 1]
<1>1. /\ DOMAIN s = 1 .. Len(s) /\ Len(s) \in Nat \ {0}
      /\ DOMAIN r = 1 .. Len(s) - 1
      /\ \A i \in 1 .. Len(s) - 1 : r[i] = s[i + 1]
      /\ Head(s) = s[1]
  OBVIOUS
<1> HIDE DEF r
<1>2. IsFiniteSet(A) /\ IsFiniteSet(B) /\ 1 \notin A
  <2>1. IsFiniteSet(1 .. Len(s)) /\ A \subseteq 1 .. Len(s) /\ 1 \notin A
    BY <1>1, FS_Interval
  <2>2. IsFiniteSet(1 .. Len(s) - 1) /\ B \subseteq 1 .. Len(s) - 1
    BY <1>1, FS_Interval
  <2> HIDE DEF A, B
  <2> QED BY <2>1, <2>2, FS_Subset
<1>3. C = IF Head(s) \in S THEN A \cup {1} ELSE A
  BY <1>1
<1>4. f \in [B -> A]
  BY <1>1
<1>5. \A i, j \in B : f[i] = f[j] => i = j
  BY <1>1
<1>6. \A a \in A : \E i \in B : f[i] = a
  <2> SUFFICES ASSUME NEW a \in A PROVE \E i \in B : f[i] = a
    OBVIOUS
  <2>1. a - 1 \in B
    BY <1>1
  <2>2. f[a - 1] = a
    BY <1>1, <2>1
  <2> QED BY <2>1, <2>2
<1> HIDE DEF A, B, C, f
<1>8. f \in Bijection(B, A)
  BY <1>4, <1>5, <1>6 DEF Bijection, Injection, Surjection, IsInjective
<1>9. Cardinality(A) = Cardinality(B)
  BY <1>2, <1>8, FS_Bijection DEF ExistsBijection
<1>10. Cardinality(C) = Cardinality(A) + In(Head(s), S) /\ Cardinality(A) \in Nat
  BY <1>2, <1>3, CountOfRest
<1>11. Count(s, S) = Cardinality(C) /\ Count(Tail(s), S) = Cardinality(B)
  BY DEF Count, B, C, r
<1> QED BY <1>9, <1>10, <1>11 DEF In

-------------------------------------------------------------------------------
(* The inductive invariant.                                                *)

N == Cardinality(Workers)

Looping == pc \in {"starting", "submitting", "collecting", "checking"}

(* One worker is none: the loop in this process names the results by their *)
(* order.  More than one, and this process computes nothing.               *)
Modes ==
  /\ pc = "serial" => N = 1 /\ \A w \in Workers : worker[w] = "none"
  /\ N = 1 =>
       /\ pc \in {"serial", "returned", "raised"}
       /\ Alive = {}
       /\ \A i \in DOMAIN results : results[i] = i

(* Who has a task, and what a report says.                                 *)
TasksHeld ==
  \A w \in Workers :
    /\ worker[w] = "busy" => task[w] # Stop
    /\ worker[w] \in {"none", "starting", "idle", "stopped", "failed", "refused"}
         => task[w] = Stop

Reported ==
  \A i \in DOMAIN resultQueue :
    IF resultQueue[i].ok THEN resultQueue[i].task # Stop
                         ELSE \E w \in Workers : worker[w] = "failed"

(* Stop marks come after the last result.                                  *)
StopMarks ==
  /\ Looping => stops = 0 /\ \A i \in DOMAIN taskQueue : taskQueue[i] # Stop
  /\ pc = "stopping" => stops < N
  /\ pc \in {"stopping", "joining"} => Len(results) = plan.tasks

(* What is under way was submitted and has not been collected.             *)
UnderWay ==
  Len(taskQueue) + Count(worker, {"busy"}) + Count(resultQueue, [ok: {TRUE}, task: Int])

InFlight == Looping => UnderWay + Len(results) <= submitted

IInv ==
  /\ TypeOK /\ plan.maxPending \in Int
  /\ Modes /\ TasksHeld /\ Reported /\ StopMarks
  /\ NoWorkerLeft
  /\ InFlight
  /\ TasksConserved

-------------------------------------------------------------------------------
LEMMA PlanFacts ==
  ASSUME plan.tasks \in Nat, plan.workers \in Nat \ {0}, plan.maxPending \in Int
  PROVE  /\ IsFiniteSet(Workers) /\ N \in Nat \ {0} /\ Workers = 1 .. N
         /\ Limit \in Nat \ {0}
<1>1. Smaller(plan.workers, Larger(1, plan.tasks)) \in Nat \ {0}
  BY DEF Smaller, Larger
<1>2. IsFiniteSet(Workers) /\ N = Smaller(plan.workers, Larger(1, plan.tasks))
  BY <1>1, FS_Interval DEF Workers, N
<1>3. Limit \in Nat \ {0}
  BY <1>1, <1>2 DEF Limit, N, MaxPending, CleanPositiveInt, Larger, None
<1> QED BY <1>1, <1>2, <1>3 DEF Workers

LEMMA SamePlan ==
  ASSUME UNCHANGED plan
  PROVE  Workers' = Workers /\ Limit' = Limit /\ N' = N
BY DEF Workers, Limit, N

(* What stays and goes by turns: of the lists and the workers, how many    *)
(* hold task t.                                                            *)
ReportsOf(t) == [ok: BOOLEAN, task: {t}]

PlacesIn(q, f, R, c, t) ==
  Count(q, {t}) + Count(f, {t}) + Count(R, ReportsOf(t)) + Count(c, {t})

LEMMA PlacesCounted ==
  ASSUME NEW t, NEW q, NEW W, NEW f, DOMAIN f = W,
         NEW R, \A i \in DOMAIN R : R[i] \in [ok: BOOLEAN, task: Nat], NEW c
  PROVE  Cardinality({i \in DOMAIN q : q[i] = t})
         + Cardinality({w \in W : f[w] = t})
         + Cardinality({i \in DOMAIN R : R[i].task = t})
         + Cardinality({i \in DOMAIN c : c[i] = t})
           = PlacesIn(q, f, R, c, t)
<1>1. {i \in DOMAIN R : R[i].task = t} = {i \in DOMAIN R : R[i] \in ReportsOf(t)}
  BY DEF ReportsOf
<1>2. /\ {i \in DOMAIN q : q[i] = t} = {i \in DOMAIN q : q[i] \in {t}}
      /\ {w \in W : f[w] = t} = {w \in DOMAIN f : f[w] \in {t}}
      /\ {i \in DOMAIN c : c[i] = t} = {i \in DOMAIN c : c[i] \in {t}}
  OBVIOUS
<1> QED BY <1>1, <1>2 DEF PlacesIn, Count

LEMMA ReportsAreTyped ==
  ASSUME NEW n \in Nat, NEW R \in Seq([ok: BOOLEAN, task: 0 .. n])
  PROVE  \A i \in DOMAIN R : R[i] \in [ok: BOOLEAN, task: Nat] /\ R[i].task \in 0 .. n
<1> SUFFICES ASSUME NEW i \in DOMAIN R
             PROVE  R[i] \in [ok: BOOLEAN, task: Nat] /\ R[i].task \in 0 .. n
  OBVIOUS
<1> DEFINE T == [ok: BOOLEAN, task: 0 .. n]
<1>1. R \in Seq(T) /\ \A r \in T : r \in [ok: BOOLEAN, task: Nat] /\ r.task \in 0 .. n
  OBVIOUS
<1> HIDE DEF T
<1>2. R[i] \in T
  BY <1>1
<1> QED BY <1>1, <1>2

LEMMA PlacesNow ==
  ASSUME TypeOK, NEW t
  PROVE  Places(t) = PlacesIn(taskQueue, task, resultQueue, results, t)
<1>1. DOMAIN task = Workers
  BY DEF TypeOK
<1>2. \A i \in DOMAIN resultQueue : resultQueue[i] \in [ok: BOOLEAN, task: Nat]
  BY ReportsAreTyped DEF TypeOK
<1> QED BY <1>1, <1>2, PlacesCounted DEF Places

LEMMA PlacesNext ==
  ASSUME TypeOK', NEW t
  PROVE  Places(t)' = PlacesIn(taskQueue', task', resultQueue', results', t)
<1>1. DOMAIN task' = Workers'
  BY DEF TypeOK
<1>2. \A i \in DOMAIN resultQueue' : resultQueue'[i] \in [ok: BOOLEAN, task: Nat]
  BY ReportsAreTyped DEF TypeOK
<1> QED BY <1>1, <1>2, PlacesCounted DEF Places

(* A step that moves tasks about and submits none conserves them.          *)
LEMMA MovesConserve ==
  ASSUME IInv, TypeOK', UNCHANGED <<plan, submitted>>, pc = "raised" => pc' = "raised",
         N > 1 => \A t \in 1 .. plan.tasks :
                    PlacesIn(taskQueue', task', resultQueue', results', t)
                      = PlacesIn(taskQueue, task, resultQueue, results, t)
  PROVE  TasksConserved'
<1> SUFFICES ASSUME N > 1, NEW t \in 1 .. plan.tasks
             PROVE  \/ t <= submitted /\ Places(t)' = 1
                    \/ t > submitted /\ Places(t)' = 0
                    \/ pc' = "raised" /\ Places(t)' = 0
  <2>1. Cardinality(Workers)' = N
    BY SamePlan DEF N
  <2> QED BY <2>1 DEF TasksConserved
<1>1. Places(t)' = Places(t)
  BY PlacesNow, PlacesNext DEF IInv
<1> QED BY <1>1 DEF IInv, TasksConserved, N

LEMMA FiniteCount ==
  ASSUME NEW f, IsFiniteSet(DOMAIN f), NEW S
  PROVE  Count(f, S) \in Nat
<1>1. IsFiniteSet({i \in DOMAIN f : f[i] \in S})
  BY FS_Subset
<1> QED BY <1>1, FS_CardinalityType DEF Count

LEMMA CountsAreNatural ==
  ASSUME IInv
  PROVE  \A S : /\ Count(taskQueue, S) \in Nat /\ Count(resultQueue, S) \in Nat
                /\ Count(results, S) \in Nat
                /\ Count(worker, S) \in Nat /\ Count(task, S) \in Nat
<1>1. /\ DOMAIN worker = Workers /\ DOMAIN task = Workers /\ IsFiniteSet(Workers)
      /\ DOMAIN taskQueue = 1 .. Len(taskQueue) /\ Len(taskQueue) \in Int
      /\ DOMAIN resultQueue = 1 .. Len(resultQueue) /\ Len(resultQueue) \in Int
      /\ DOMAIN results = 1 .. Len(results) /\ Len(results) \in Int
  BY PlanFacts DEF IInv, TypeOK
<1>2. /\ IsFiniteSet(DOMAIN worker) /\ IsFiniteSet(DOMAIN task)
      /\ IsFiniteSet(DOMAIN taskQueue) /\ IsFiniteSet(DOMAIN resultQueue)
      /\ IsFiniteSet(DOMAIN results)
  BY <1>1, FS_Interval
<1> QED BY <1>2, FiniteCount

LEMMA WorkerChanges ==
  ASSUME IInv, UNCHANGED plan, NEW w \in Workers, NEW v, worker' = [worker EXCEPT ![w] = v]
  PROVE  /\ Count(worker, {"busy"}) \in Nat
         /\ Count(worker', {"busy"})
              = Count(worker, {"busy"}) - In(worker[w], {"busy"}) + In(v, {"busy"})
<1> DEFINE f == worker
           g == worker'
<1>1. /\ IsFiniteSet(Workers) /\ DOMAIN f = Workers /\ DOMAIN g = Workers
      /\ \A u \in Workers \ {w} : g[u] = f[u]
  BY PlanFacts DEF IInv, TypeOK
<1>2. /\ Count(f, {"busy"}) \in Nat
      /\ Count(g, {"busy"}) = Count(f, {"busy"}) - In(f[w], {"busy"}) + In(g[w], {"busy"})
  <2> HIDE DEF f, g
  <2> QED BY <1>1, CountUpdate
<1>3. g[w] = v
  BY <1>1
<1> QED BY <1>2, <1>3

LEMMA TaskChanges ==
  ASSUME IInv, UNCHANGED plan, NEW w \in Workers, NEW v, task' = [task EXCEPT ![w] = v],
         NEW t
  PROVE  /\ Count(task, {t}) \in Nat
         /\ Count(task', {t}) = Count(task, {t}) - In(task[w], {t}) + In(v, {t})
<1> DEFINE f == task
           g == task'
<1>1. /\ IsFiniteSet(Workers) /\ DOMAIN f = Workers /\ DOMAIN g = Workers
      /\ \A u \in Workers \ {w} : g[u] = f[u]
  BY PlanFacts DEF IInv, TypeOK
<1>2. /\ Count(f, {t}) \in Nat
      /\ Count(g, {t}) = Count(f, {t}) - In(f[w], {t}) + In(g[w], {t})
  <2> HIDE DEF f, g
  <2> QED BY <1>1, CountUpdate
<1>3. g[w] = v
  BY <1>1
<1> QED BY <1>2, <1>3

-------------------------------------------------------------------------------
LEMMA InitIsSound == Init => IInv
<1> SUFFICES ASSUME Init PROVE IInv
  OBVIOUS
<1>1. plan.tasks \in Nat /\ plan.workers \in Nat \ {0} /\ plan.maxPending \in Int
  BY QueueAssumption DEF Init, Schedule, CleanPositiveInt, Larger
<1>2. /\ IsFiniteSet(Workers) /\ N \in Nat \ {0} /\ Workers = 1 .. N
      /\ Limit \in Nat \ {0}
  BY <1>1, PlanFacts
<1>3. TypeOK
  <2>1. /\ results \in Seq(1 .. plan.tasks) /\ taskQueue \in Seq(0 .. plan.tasks)
        /\ resultQueue \in Seq([ok: BOOLEAN, task: 0 .. plan.tasks])
    BY DEF Init
  <2>2. submitted \in 0 .. plan.tasks /\ stops \in 0 .. Cardinality(Workers)
    BY <1>1, <1>2 DEF Init, N
  <2>3. /\ task \in [Workers -> 0 .. plan.tasks]
        /\ worker \in [Workers -> {"none", "starting", "idle", "busy", "stopped",
                                   "failed", "killed", "refused", "terminated"}]
    BY <1>1 DEF Init, Stop
  <2> QED BY <1>1, <2>1, <2>2, <2>3 DEF Init, TypeOK
<1>4. Modes /\ TasksHeld /\ Reported /\ StopMarks /\ NoWorkerLeft
  BY <1>2 DEF Init, Modes, TasksHeld, Reported, StopMarks, NoWorkerLeft, N, Alive, Over,
     Looping
<1>5. Count(taskQueue, {}) = 0 /\ \A S : Count(resultQueue, S) = 0 /\ Count(results, S) = 0
  BY CountEmpty DEF Init
<1>6. Count(worker, {"busy"}) = 0
  <2>1. {w \in DOMAIN worker : worker[w] \in {"busy"}} = {}
    BY DEF Init
  <2> QED BY <2>1, FS_EmptySet DEF Count
<1>7. InFlight
  <2>1. Len(taskQueue) = 0 /\ Len(results) = 0 /\ submitted = 0
    BY DEF Init
  <2> QED BY <1>5, <1>6, <2>1 DEF InFlight, UnderWay
<1>8. TasksConserved
  <2> SUFFICES ASSUME NEW t \in 1 .. plan.tasks
               PROVE  t > submitted /\ Places(t) = 0
    BY DEF TasksConserved
  <2>1. Count(taskQueue, {t}) = 0 /\ Count(resultQueue, ReportsOf(t)) = 0 /\ Count(results, {t}) = 0
    BY CountEmpty DEF Init
  <2>2. Count(task, {t}) = 0
    <3>1. {w \in DOMAIN task : task[w] \in {t}} = {}
      BY <1>1 DEF Init, Stop
    <3> QED BY <3>1, FS_EmptySet DEF Count
  <2>3. Places(t) = 0
    BY <1>3, <2>1, <2>2, PlacesNow DEF PlacesIn
  <2>4. t > submitted
    BY <1>1 DEF Init
  <2> QED BY <2>3, <2>4
<1> QED BY <1>1, <1>3, <1>4, <1>7, <1>8 DEF IInv

LEMMA StartWorkerKeeps == ASSUME IInv, StartWorker PROVE IInv'
<1> USE DEF IInv
<1>1. PICK w \in Workers :
        /\ worker[w] = "none"
        /\ \/ /\ worker' = [worker EXCEPT ![w] = "starting"]
              /\ pc' \in {"submitting", "starting"}
           \/ worker' = [worker EXCEPT ![w] = "refused"] /\ pc' = "raised"
  BY DEF StartWorker
<1>2. /\ UNCHANGED <<plan, parentVars, taskQueue, resultQueue, task, locked>>
      /\ pc = "starting"
  BY DEF StartWorker
<1>3. Workers' = Workers /\ N' = N
  BY <1>2, SamePlan
<1>4. TypeOK' /\ plan'.maxPending \in Int
  BY <1>1, <1>2, <1>3 DEF TypeOK, parentVars, N
<1>5. N # 1
  BY <1>2 DEF Modes
<1>6. Modes' /\ TasksHeld' /\ Reported' /\ StopMarks'
  BY <1>1, <1>2, <1>3, <1>5 DEF Modes, TasksHeld, Reported, StopMarks, Looping, parentVars, TypeOK
<1>7. NoWorkerLeft'
  BY <1>1, <1>2, <1>3 DEF NoWorkerLeft, Over, TypeOK
<1>8. Count(worker', {"busy"}) = Count(worker, {"busy"})
  <2>1. PICK v \in {"starting", "refused"} : worker' = [worker EXCEPT ![w] = v]
    BY <1>1
  <2>2. /\ Count(worker, {"busy"}) \in Nat
        /\ Count(worker', {"busy"})
              = Count(worker, {"busy"}) - In(worker[w], {"busy"}) + In(v, {"busy"})
    BY <1>2, <2>1, WorkerChanges
  <2> QED BY <1>1, <2>2 DEF In
<1>9. InFlight'
  BY <1>2, <1>8 DEF InFlight, UnderWay, Looping, parentVars
<1>10. TasksConserved'
  BY <1>2, <1>4, MovesConserve DEF parentVars
<1> QED BY <1>4, <1>6, <1>7, <1>9, <1>10

(* The actions of the parent.                                              *)
LEMMA SerialStepKeeps == ASSUME IInv, SerialStep PROVE IInv'
<1> USE DEF IInv
<1>1. /\ UNCHANGED <<plan, submitted, stops, taskQueue, resultQueue, task, locked>>
      /\ pc = "serial" /\ N = 1 /\ 1 \in Workers
  BY PlanFacts DEF SerialStep, Modes, TypeOK
<1>2. \/ pc' = "returned" /\ UNCHANGED <<results, worker>>
      \/ /\ Len(results) + 1 <= plan.tasks
         /\ results' = Append(results, Len(results) + 1)
         /\ UNCHANGED <<pc, worker>>
      \/ /\ pc' = "raised" /\ worker' = [worker EXCEPT ![1] = "failed"]
         /\ UNCHANGED results
  BY DEF SerialStep
<1>3. Workers' = Workers /\ N' = N
  BY <1>1, SamePlan
<1>4. /\ results' \in Seq(1 .. plan.tasks)
      /\ \A i \in DOMAIN results' : results'[i] = i
  <2>1. results \in Seq(1 .. plan.tasks) /\ \A i \in DOMAIN results : results[i] = i
    BY <1>1 DEF TypeOK, Modes
  <2>2. ASSUME Len(results) + 1 <= plan.tasks
        PROVE  /\ Append(results, Len(results) + 1) \in Seq(1 .. plan.tasks)
               /\ \A i \in DOMAIN Append(results, Len(results) + 1) :
                    Append(results, Len(results) + 1)[i] = i
    <3>1. Len(results) + 1 \in 1 .. plan.tasks
      BY <2>1, <2>2 DEF TypeOK
    <3> QED BY <2>1, <3>1
  <2> QED BY <1>2, <2>1, <2>2
<1>5. TypeOK' /\ plan'.maxPending \in Int
  BY <1>1, <1>2, <1>3, <1>4 DEF TypeOK
<1>6. Alive = {} /\ Alive' = {}
  BY <1>1, <1>2, <1>3 DEF Modes, Alive, TypeOK
<1>7. Modes' /\ NoWorkerLeft'
  BY <1>1, <1>2, <1>3, <1>4, <1>6 DEF Modes, NoWorkerLeft
<1>8. TasksHeld'
  <2>1. task' = task /\ DOMAIN worker = Workers
    BY <1>1 DEF TypeOK
  <2>2. \A w \in Workers : worker[w] # "busy"
    BY <1>6 DEF Alive
  <2>3. task[1] = Stop
    BY <1>1 DEF Modes, TasksHeld
  <2> QED BY <1>1, <1>2, <1>3, <2>1, <2>2, <2>3 DEF TasksHeld
<1>9. Reported' /\ StopMarks'
  BY <1>1, <1>2, <1>3 DEF Reported, StopMarks, Looping, TypeOK
<1>10. InFlight' /\ TasksConserved'
  BY <1>1, <1>2, <1>3 DEF InFlight, Looping, TasksConserved, N
<1> QED BY <1>5, <1>7, <1>8, <1>9, <1>10

LEMMA PutKeeps == ASSUME IInv, Put PROVE IInv'
<1> USE DEF IInv
<1>1. /\ UNCHANGED <<plan, pc, results, stops, resultQueue, worker, task, locked>>
      /\ pc = "submitting" /\ submitted < plan.tasks
      /\ taskQueue' = Append(taskQueue, submitted + 1)
      /\ submitted' = submitted + 1
  BY DEF Put, RoomForTask
<1>2. Workers' = Workers /\ N' = N
  BY <1>1, SamePlan
<1>3. /\ plan.tasks \in Nat /\ submitted \in Nat /\ submitted + 1 \in 0 .. plan.tasks
      /\ taskQueue \in Seq(0 .. plan.tasks) /\ taskQueue' \in Seq(0 .. plan.tasks)
      /\ Len(taskQueue') = Len(taskQueue) + 1
      /\ \A i \in DOMAIN taskQueue' :
           \/ taskQueue'[i] = submitted + 1
           \/ i \in DOMAIN taskQueue /\ taskQueue'[i] = taskQueue[i]
  <2>1. /\ plan.tasks \in Nat /\ submitted \in Nat /\ submitted + 1 \in 0 .. plan.tasks
        /\ taskQueue \in Seq(0 .. plan.tasks)
    BY <1>1 DEF TypeOK
  <2> QED BY <1>1, <2>1
<1>4. TypeOK' /\ plan'.maxPending \in Int
  BY <1>1, <1>2, <1>3 DEF TypeOK
<1>5. Modes' /\ TasksHeld' /\ Reported' /\ NoWorkerLeft'
  BY <1>1, <1>2 DEF Modes, TasksHeld, Reported, NoWorkerLeft, Over
<1>6. StopMarks'
  BY <1>1, <1>3 DEF StopMarks, Looping, Stop
<1>7. InFlight'
  <2>1. UnderWay' = UnderWay + 1
    <3>1. Count(worker, {"busy"}) \in Nat /\ Count(resultQueue, [ok: {TRUE}, task: Int]) \in Nat
      BY CountsAreNatural
    <3>2. Len(taskQueue) \in Nat
      BY <1>3
    <3> QED BY <1>1, <1>3, <3>1, <3>2 DEF UnderWay
  <2>2. UnderWay + Len(results) <= submitted /\ UnderWay \in Nat /\ Len(results) \in Nat
    <3>1. Count(worker, {"busy"}) \in Nat /\ Count(resultQueue, [ok: {TRUE}, task: Int]) \in Nat
      BY CountsAreNatural
    <3>2. Len(taskQueue) \in Nat /\ Len(results) \in Nat
      BY DEF TypeOK
    <3> QED BY <1>1, <3>1, <3>2 DEF InFlight, Looping, UnderWay
  <2> QED BY <1>1, <1>3, <2>1, <2>2 DEF InFlight
<1>8. TasksConserved'
  <2> SUFFICES ASSUME N > 1, NEW t \in 1 .. plan.tasks
               PROVE  \/ t <= submitted + 1 /\ Places(t)' = 1
                      \/ t > submitted + 1 /\ Places(t)' = 0
    BY <1>1, <1>2 DEF TasksConserved, N
  <2>1. /\ Count(taskQueue, {t}) \in Nat
        /\ Count(taskQueue', {t}) = Count(taskQueue, {t}) + In(submitted + 1, {t})
    BY <1>1, <1>3, CountAppend
  <2>2. /\ Places(t) = PlacesIn(taskQueue, task, resultQueue, results, t)
        /\ Places(t)' = PlacesIn(taskQueue', task', resultQueue', results', t)
    BY <1>4, PlacesNow, PlacesNext
  <2>3. Count(task, {t}) \in Nat /\ Count(resultQueue, ReportsOf(t)) \in Nat /\ Count(results, {t}) \in Nat
    BY CountsAreNatural
  <2>4. Places(t)' = Places(t) + In(submitted + 1, {t})
    BY <1>1, <2>1, <2>2, <2>3 DEF PlacesIn, In
  <2>5. \/ t <= submitted /\ Places(t) = 1
        \/ t > submitted /\ Places(t) = 0
    BY <1>1 DEF TasksConserved, N
  <2> QED BY <1>3, <2>4, <2>5 DEF In
<1> QED BY <1>4, <1>5, <1>6, <1>7, <1>8

(* EndPut and GetInVain only move on in the loop.                          *)
LEMMA TurnKeeps ==
  ASSUME IInv, Looping, pc' \in {"submitting", "collecting", "checking"},
         UNCHANGED <<plan, parentVars, taskQueue, resultQueue, worker, task, locked>>
  PROVE  IInv'
<1> USE DEF IInv, parentVars
<1>1. Workers' = Workers /\ N' = N
  BY SamePlan
<1>2. TypeOK' /\ plan'.maxPending \in Int
  BY <1>1 DEF TypeOK
<1>3. Modes' /\ TasksHeld' /\ Reported' /\ StopMarks' /\ NoWorkerLeft'
  BY <1>1 DEF Modes, TasksHeld, Reported, StopMarks, NoWorkerLeft, Over, Looping
<1>4. InFlight'
  BY DEF InFlight, UnderWay, Looping
<1>5. TasksConserved'
  BY <1>2, MovesConserve DEF Looping
<1> QED BY <1>2, <1>3, <1>4, <1>5

LEMMA TerminatedAre ==
  ASSUME IInv, UNCHANGED plan, worker' = Terminated
  PROVE  /\ worker' \in [Workers -> {"none", "starting", "idle", "busy", "stopped",
                                     "failed", "killed", "refused", "terminated"}]
         /\ \A w \in Workers :
              \/ worker'[w] = "terminated" /\ w \in Alive
              \/ worker'[w] = worker[w] /\ w \notin Alive
         /\ Alive' = {}
<1>1. \A w \in Workers : worker'[w] = IF w \in Alive THEN "terminated" ELSE worker[w]
  BY DEF Terminated
<1>2. Workers' = Workers
  BY SamePlan
<1>3. worker' \in [Workers -> {"none", "starting", "idle", "busy", "stopped",
                               "failed", "killed", "refused", "terminated"}]
  BY DEF Terminated, IInv, TypeOK
<1>4. Alive' = {}
  BY <1>1, <1>2 DEF Alive
<1> QED BY <1>1, <1>3, <1>4

(* Nobody is alive and the loop is over: what is left to show.             *)
LEMMA EndKeeps ==
  ASSUME IInv, TypeOK', UNCHANGED <<plan, stops, submitted, task>>, pc' \in {"returned", "raised"},
         worker' = Terminated, N # 1, Reported', TasksConserved'
  PROVE  IInv'
<1> USE DEF IInv
<1>1. Workers' = Workers /\ N' = N
  BY SamePlan
<1>2. /\ \A w \in Workers :
           \/ worker'[w] = "terminated" /\ w \in Alive
           \/ worker'[w] = worker[w] /\ w \notin Alive
      /\ Alive' = {}
  BY TerminatedAre
<1>3. TasksHeld'
  BY <1>1, <1>2 DEF TasksHeld, Alive
<1>4. Modes' /\ StopMarks' /\ NoWorkerLeft' /\ InFlight'
  BY <1>1, <1>2 DEF Modes, StopMarks, Looping, NoWorkerLeft, InFlight
<1> QED BY <1>3, <1>4

(* A report that is got names a task, or there is trouble.                 *)
LEMMA HeadReport ==
  ASSUME IInv, resultQueue # <<>>
  PROVE  /\ Head(resultQueue) \in [ok: BOOLEAN, task: 0 .. plan.tasks]
         /\ Tail(resultQueue) \in Seq([ok: BOOLEAN, task: 0 .. plan.tasks])
         /\ Head(resultQueue).ok => Head(resultQueue).task \in 1 .. plan.tasks
         /\ ~Head(resultQueue).ok => \E w \in Workers : worker[w] = "failed"
         /\ \A i \in DOMAIN Tail(resultQueue) :
              \E k \in DOMAIN resultQueue : Tail(resultQueue)[i] = resultQueue[k]
<1> DEFINE T == [ok: BOOLEAN, task: 0 .. plan.tasks]
<1>1. resultQueue \in Seq(T)
  BY DEF IInv, TypeOK
<1>2. /\ Head(resultQueue) \in T /\ Tail(resultQueue) \in Seq(T)
      /\ Head(resultQueue) = resultQueue[1] /\ 1 \in DOMAIN resultQueue
      /\ \A i \in DOMAIN Tail(resultQueue) :
           i + 1 \in DOMAIN resultQueue /\ Tail(resultQueue)[i] = resultQueue[i + 1]
  <2> HIDE DEF T
  <2> QED BY <1>1
<1>3. plan.tasks \in Nat
  BY DEF IInv, TypeOK
<1>4. IF resultQueue[1].ok THEN resultQueue[1].task # Stop
                           ELSE \E w \in Workers : worker[w] = "failed"
  BY <1>2 DEF IInv, Reported
<1>5. resultQueue[1].task \in 0 .. plan.tasks
  BY <1>2
<1> QED BY <1>2, <1>3, <1>4, <1>5 DEF Stop

LEMMA GetKeeps == ASSUME IInv, Get PROVE IInv'
<1> USE DEF IInv
<1> DEFINE h == Head(resultQueue)
           T == [ok: BOOLEAN, task: 0 .. plan.tasks]
<1>1. /\ UNCHANGED <<plan, submitted, stops, taskQueue, task, locked>>
      /\ pc = "collecting" /\ resultQueue # <<>> /\ resultQueue' = Tail(resultQueue)
  BY DEF Get
<1>2. \/ /\ h.ok /\ results' = Append(results, h.task) /\ UNCHANGED worker
         /\ pc' = IF Len(results) + 1 = plan.tasks THEN "stopping" ELSE "submitting"
      \/ ~h.ok /\ pc' = "raised" /\ worker' = Terminated /\ UNCHANGED results
  BY DEF Get
<1>3. Workers' = Workers /\ N' = N /\ N \in Nat \ {0} /\ N # 1
  BY <1>1, SamePlan, PlanFacts DEF TypeOK, Modes
<1>4. /\ h \in T /\ resultQueue' \in Seq(T)
      /\ h.ok => h.task \in 1 .. plan.tasks
      /\ ~h.ok => \E w \in Workers : worker[w] = "failed"
      /\ \A i \in DOMAIN resultQueue' :
           \E k \in DOMAIN resultQueue : resultQueue'[i] = resultQueue[k]
  BY <1>1, HeadReport
<1>5. resultQueue \in Seq(T) /\ results \in Seq(1 .. plan.tasks) /\ plan.tasks \in Nat
  BY DEF TypeOK
<1>6. \A S : /\ Count(resultQueue, S) \in Nat /\ Count(resultQueue', S) \in Nat
             /\ Count(resultQueue, S) = Count(resultQueue', S) + In(h, S)
  <2> HIDE DEF T
  <2> QED BY <1>1, <1>5, CountTail
<1>7. h \in ReportsOf(h.task) /\ \A t : h \in ReportsOf(t) <=> h.task = t
  BY <1>4 DEF ReportsOf
<1>8. CASE h.ok
  <2>1. /\ results' = Append(results, h.task) /\ UNCHANGED worker
        /\ pc' = IF Len(results) + 1 = plan.tasks THEN "stopping" ELSE "submitting"
        /\ h.task \in 1 .. plan.tasks
    BY <1>2, <1>4, <1>8
  <2>2. results' \in Seq(1 .. plan.tasks) /\ Len(results') = Len(results) + 1 /\ Len(results) \in Nat
    BY <1>5, <2>1
  <2>3. TypeOK' /\ plan'.maxPending \in Int
    BY <1>1, <1>3, <1>4, <2>1, <2>2 DEF TypeOK
  <2>4. Modes' /\ TasksHeld' /\ Reported' /\ NoWorkerLeft'
    BY <1>1, <1>3, <1>4, <2>1 DEF Modes, TasksHeld, Reported, NoWorkerLeft, Over
  <2>5. StopMarks'
    BY <1>1, <1>3, <2>1, <2>2 DEF StopMarks, Looping
  <2>6. InFlight'
    <3>1. h \in [ok: {TRUE}, task: Int]
      <4>1. h.ok = TRUE /\ h.task \in Int /\ h = [ok |-> h.ok, task |-> h.task]
        BY <1>4, <1>5, <1>8
      <4> HIDE DEF h
      <4> QED BY <4>1
    <3>2. /\ Count(resultQueue, [ok: {TRUE}, task: Int]) \in Nat
          /\ Count(resultQueue', [ok: {TRUE}, task: Int]) \in Nat
          /\ Count(resultQueue, [ok: {TRUE}, task: Int])
               = Count(resultQueue', [ok: {TRUE}, task: Int]) + 1
      BY <1>6, <3>1 DEF In
    <3>3. Count(worker, {"busy"}) \in Nat /\ Len(taskQueue) \in Nat /\ submitted \in Nat
      BY CountsAreNatural DEF TypeOK
    <3>4. UnderWay + Len(results) <= submitted
      BY <1>1 DEF InFlight, Looping
    <3> QED BY <1>1, <2>1, <2>2, <3>2, <3>3, <3>4 DEF InFlight, UnderWay
  <2>7. TasksConserved'
    <3>1. ASSUME NEW t \in 1 .. plan.tasks
          PROVE  PlacesIn(taskQueue', task', resultQueue', results', t)
                   = PlacesIn(taskQueue, task, resultQueue, results, t)
      <4>1. /\ Count(results, {t}) \in Nat
            /\ Count(results', {t}) = Count(results, {t}) + In(h.task, {t})
        BY <1>5, <2>1, CountAppend
      <4>2. In(h.task, {t}) = In(h, ReportsOf(t)) /\ In(h.task, {t}) \in Nat
        BY <1>7 DEF In
      <4>3. Count(taskQueue, {t}) \in Nat /\ Count(task, {t}) \in Nat
        BY CountsAreNatural
      <4>4. /\ Count(resultQueue, ReportsOf(t)) \in Nat /\ Count(resultQueue', ReportsOf(t)) \in Nat
            /\ Count(resultQueue, ReportsOf(t))
                 = Count(resultQueue', ReportsOf(t)) + In(h, ReportsOf(t))
        BY <1>6
      <4> QED BY <1>1, <4>1, <4>2, <4>3, <4>4 DEF PlacesIn
    <3> QED BY <1>1, <2>3, <3>1, MovesConserve
  <2> QED BY <2>3, <2>4, <2>5, <2>6, <2>7
<1>9. CASE ~h.ok
  <2>1. pc' = "raised" /\ worker' = Terminated /\ UNCHANGED results
    BY <1>2, <1>9
  <2>2. TypeOK' /\ plan'.maxPending \in Int
    BY <1>1, <1>3, <1>4, <2>1, TerminatedAre DEF TypeOK
  <2>3. Reported'
    <3>1. PICK w \in Workers : worker[w] = "failed"
      BY <1>4, <1>9
    <3>2. worker'[w] = "failed"
      BY <1>1, <2>1, <3>1, TerminatedAre DEF Alive
    <3> QED BY <1>1, <1>3, <1>4, <3>2 DEF Reported
  <2>4. TasksConserved'
    <3> SUFFICES ASSUME N > 1, NEW t \in 1 .. plan.tasks
                 PROVE  \/ t <= submitted /\ Places(t)' = 1
                        \/ Places(t)' = 0
      BY <1>1, <1>3, <2>1 DEF TasksConserved, N, TypeOK
    <3>1. /\ Count(taskQueue, {t}) \in Nat /\ Count(task, {t}) \in Nat /\ Count(results, {t}) \in Nat
          /\ Count(resultQueue, ReportsOf(t)) \in Nat /\ Count(resultQueue', ReportsOf(t)) \in Nat
          /\ Count(resultQueue, ReportsOf(t))
               = Count(resultQueue', ReportsOf(t)) + In(h, ReportsOf(t))
      BY <1>6, CountsAreNatural
    <3>2. In(h, ReportsOf(t)) \in {0, 1}
      BY DEF In
    <3>3. /\ Places(t) = PlacesIn(taskQueue, task, resultQueue, results, t)
          /\ Places(t)' = PlacesIn(taskQueue', task', resultQueue', results', t)
      BY <2>2, PlacesNow, PlacesNext
    <3>4. Places(t)' \in Nat /\ Places(t) = Places(t)' + In(h, ReportsOf(t))
      BY <1>1, <2>1, <3>1, <3>2, <3>3 DEF PlacesIn
    <3>5. \/ t <= submitted /\ Places(t) = 1
          \/ Places(t) = 0
      BY DEF TasksConserved, N
    <3> QED BY <3>2, <3>4, <3>5
  <2> QED BY <1>1, <1>3, <2>1, <2>2, <2>3, <2>4, EndKeeps
<1> QED BY <1>8, <1>9

LEMMA CheckWorkersKeeps == ASSUME IInv, CheckWorkers PROVE IInv'
<1> USE DEF IInv
<1>1. UNCHANGED <<plan, parentVars, taskQueue, resultQueue, task, locked>> /\ pc = "checking"
  BY DEF CheckWorkers
<1>2. Workers' = Workers /\ N' = N /\ N # 1
  BY <1>1, SamePlan DEF Modes
<1>3. CASE Exited
  <2>1. pc' = "raised" /\ worker' = Terminated
    BY <1>3 DEF CheckWorkers
  <2>2. TypeOK'
    BY <1>1, <1>2, <2>1, TerminatedAre DEF TypeOK, parentVars
  <2>3. Reported'
    BY <1>1, <1>2, <2>1, TerminatedAre DEF Reported, Alive
  <2>4. TasksConserved'
    BY <1>1, <2>1, <2>2, MovesConserve DEF parentVars
  <2> QED BY <1>1, <1>2, <2>1, <2>2, <2>3, <2>4, EndKeeps DEF parentVars
<1>4. CASE ~Exited
  <2>1. pc' = "submitting" /\ UNCHANGED worker
    BY <1>4 DEF CheckWorkers
  <2> QED BY <1>1, <2>1, TurnKeeps DEF Looping
<1> QED BY <1>3, <1>4

LEMMA PutStopKeeps == ASSUME IInv, PutStop PROVE IInv'
<1> USE DEF IInv
<1>1. /\ UNCHANGED <<plan, submitted, results, resultQueue, worker, task, locked>>
      /\ pc = "stopping" /\ taskQueue' = Append(taskQueue, Stop) /\ stops' = stops + 1
      /\ pc' = IF stops' = Cardinality(Workers) THEN "joining" ELSE "stopping"
  BY DEF PutStop
<1>2. Workers' = Workers /\ N' = N /\ N \in Nat
  BY <1>1, SamePlan, PlanFacts DEF TypeOK
<1>3. /\ stops < N /\ stops \in 0 .. N /\ N # 1 /\ Len(results) = plan.tasks
      /\ plan.tasks \in Nat /\ taskQueue \in Seq(0 .. plan.tasks) /\ Stop \in 0 .. plan.tasks
  BY <1>1 DEF StopMarks, Modes, TypeOK, N, Stop
<1>4. taskQueue' \in Seq(0 .. plan.tasks)
  BY <1>1, <1>3
<1>5. TypeOK' /\ plan'.maxPending \in Int
  BY <1>1, <1>2, <1>3, <1>4 DEF TypeOK, N
<1>6. Modes' /\ TasksHeld' /\ Reported' /\ NoWorkerLeft'
  BY <1>1, <1>2, <1>3 DEF Modes, TasksHeld, Reported, NoWorkerLeft, Over
<1>7. StopMarks' /\ InFlight'
  BY <1>1, <1>2, <1>3 DEF StopMarks, InFlight, Looping, N
<1>8. TasksConserved'
  <2>1. ASSUME NEW t \in 1 .. plan.tasks
        PROVE  PlacesIn(taskQueue', task', resultQueue', results', t)
                 = PlacesIn(taskQueue, task, resultQueue, results, t)
    <3>1. /\ Count(taskQueue, {t}) \in Nat
          /\ Count(taskQueue', {t}) = Count(taskQueue, {t}) + In(Stop, {t})
      BY <1>1, <1>3, CountAppend
    <3>2. In(Stop, {t}) = 0
      BY DEF In, Stop
    <3> QED BY <1>1, <3>1, <3>2 DEF PlacesIn
  <2> QED BY <1>1, <1>5, <2>1, MovesConserve
<1> QED BY <1>5, <1>6, <1>7, <1>8

LEMMA JoinKeeps == ASSUME IInv, Join PROVE IInv'
<1> USE DEF IInv
<1>1. /\ UNCHANGED <<plan, parentVars, taskQueue, resultQueue, task, locked>>
      /\ pc = "joining" /\ pc' = "returned" /\ worker' = Terminated
  BY DEF Join
<1>2. Workers' = Workers /\ N' = N /\ N # 1
  BY <1>1, SamePlan DEF Modes
<1>3. TypeOK'
  BY <1>1, <1>2, TerminatedAre DEF TypeOK, parentVars
<1>4. Reported'
  BY <1>1, <1>2, TerminatedAre DEF Reported, Alive
<1>5. TasksConserved'
  BY <1>1, <1>3, MovesConserve DEF parentVars
<1> QED BY <1>1, <1>2, <1>3, <1>4, <1>5, EndKeeps DEF parentVars

-------------------------------------------------------------------------------
(* The actions of a worker.  While it acts there are several, and it may   *)
(* outlive the call only if the system refused to start another.           *)
LEMMA WorkerActs ==
  ASSUME IInv, UNCHANGED <<plan, pc, parentVars>>, NEW w \in Workers, w \in Alive,
         NEW state \in {"idle", "busy", "stopped", "failed", "killed"},
         worker' = [worker EXCEPT ![w] = state]
  PROVE  /\ Workers' = Workers /\ N' = N /\ N # 1
         /\ worker' \in [Workers -> {"none", "starting", "idle", "busy", "stopped",
                                     "failed", "killed", "refused", "terminated"}]
         /\ \A v \in Workers : v # w => worker'[v] = worker[v]
         /\ worker'[w] = state
         /\ Modes' /\ NoWorkerLeft'
<1> USE DEF IInv, parentVars
<1>1. Workers' = Workers /\ N' = N /\ N # 1
  BY SamePlan DEF Modes
<1>2. /\ worker' \in [Workers -> {"none", "starting", "idle", "busy", "stopped",
                                  "failed", "killed", "refused", "terminated"}]
      /\ \A v \in Workers : v # w => worker'[v] = worker[v]
      /\ worker'[w] = state
  BY DEF TypeOK
<1>3. Modes'
  BY <1>1 DEF Modes
<1>4. NoWorkerLeft'
  <2> SUFFICES ASSUME Over PROVE \E v \in Workers : worker'[v] = "refused"
    BY <1>1 DEF NoWorkerLeft, Over
  <2>1. PICK v \in Workers : worker[v] = "refused"
    BY DEF NoWorkerLeft
  <2> QED BY <1>2, <2>1 DEF Alive
<1> QED BY <1>1, <1>2, <1>3, <1>4

LEMMA ReportKeeps ==
  ASSUME IInv, NEW w \in Workers, NEW ok \in BOOLEAN,
         NEW state \in {"idle", "failed"}, Report(w, ok, state),
         \/ ok /\ worker[w] = "busy" /\ state = "idle"
         \/ ~ok /\ worker[w] \in {"starting", "busy"} /\ state = "failed"
  PROVE  IInv'
<1> USE DEF IInv, parentVars
<1> DEFINE T == [ok: BOOLEAN, task: 0 .. plan.tasks]
           r == [ok |-> ok, task |-> task[w]]
<1>1. /\ UNCHANGED <<plan, pc, submitted, results, stops, taskQueue, locked>>
      /\ resultQueue' = Append(resultQueue, r)
      /\ worker' = [worker EXCEPT ![w] = state]
      /\ task' = [task EXCEPT ![w] = Stop]
  BY DEF Report
<1>2. w \in Alive
  BY DEF Alive
<1>3. /\ Workers' = Workers /\ N' = N /\ N # 1
      /\ worker' \in [Workers -> {"none", "starting", "idle", "busy", "stopped",
                                  "failed", "killed", "refused", "terminated"}]
      /\ \A v \in Workers : v # w => worker'[v] = worker[v]
      /\ worker'[w] = state
      /\ Modes' /\ NoWorkerLeft'
  BY <1>1, <1>2, WorkerActs
<1>4. /\ r \in T /\ resultQueue \in Seq(T) /\ task[w] \in 0 .. plan.tasks
      /\ plan.tasks \in Nat
  BY DEF TypeOK
<1>5. /\ resultQueue' \in Seq(T)
      /\ \A i \in DOMAIN resultQueue' :
           \/ resultQueue'[i] = r
           \/ i \in DOMAIN resultQueue /\ resultQueue'[i] = resultQueue[i]
  <2> HIDE DEF T, r
  <2> QED BY <1>1, <1>4
<1>6. TypeOK' /\ plan'.maxPending \in Int
  <2>1. task' \in [Workers -> 0 .. plan.tasks]
    BY <1>1, <1>4 DEF TypeOK, Stop
  <2> QED BY <1>1, <1>3, <1>5, <2>1 DEF TypeOK
<1>7. TasksHeld'
  <2>1. task'[w] = Stop /\ \A v \in Workers : v # w => task'[v] = task[v]
    BY <1>1 DEF TypeOK
  <2> QED BY <1>3, <2>1 DEF TasksHeld
<1>8. Reported'
  <2>1. r.ok = ok /\ r.task = task[w] /\ (ok => task[w] # Stop)
    BY DEF TasksHeld
  <2>2. ~ok => worker'[w] = "failed"
    BY <1>3
  <2>3. \A v \in Workers : worker[v] = "failed" => worker'[v] = "failed"
    BY <1>3
  <2> HIDE DEF r
  <2> QED BY <1>3, <1>5, <2>1, <2>2, <2>3 DEF Reported
<1>9. StopMarks'
  BY <1>1, <1>3 DEF StopMarks, Looping
<1>10. \A S : /\ Count(resultQueue, S) \in Nat
              /\ Count(resultQueue', S) = Count(resultQueue, S) + In(r, S)
  <2> HIDE DEF T, r
  <2> QED BY <1>1, <1>4, CountAppend
<1>11. InFlight'
  <2>1. /\ Count(worker, {"busy"}) \in Nat
        /\ Count(worker', {"busy"})
             = Count(worker, {"busy"}) - In(worker[w], {"busy"}) + In(state, {"busy"})
    BY <1>1, WorkerChanges
  <2>2. In(state, {"busy"}) = 0 /\ In(worker[w], {"busy"}) \in {0, 1}
        /\ (ok => In(worker[w], {"busy"}) = 1)
    BY DEF In
  <2>3. In(r, [ok: {TRUE}, task: Int]) \in {0, 1} /\ (~ok => In(r, [ok: {TRUE}, task: Int]) = 0)
    BY DEF In
  <2>4. /\ Count(resultQueue, [ok: {TRUE}, task: Int]) \in Nat
        /\ Count(resultQueue', [ok: {TRUE}, task: Int])
             = Count(resultQueue, [ok: {TRUE}, task: Int]) + In(r, [ok: {TRUE}, task: Int])
    BY <1>10
  <2>5. Len(taskQueue) \in Nat /\ Len(results) \in Nat /\ submitted \in Nat
    BY DEF TypeOK
  <2>6. UnderWay' <= UnderWay /\ UnderWay \in Nat /\ UnderWay' \in Int
    <3> HIDE DEF r
    <3> QED BY <1>1, <2>1, <2>2, <2>3, <2>4, <2>5 DEF UnderWay
  <2> QED BY <1>1, <2>5, <2>6 DEF InFlight, Looping
<1>12. TasksConserved'
  <2>1. ASSUME NEW t \in 1 .. plan.tasks
        PROVE  PlacesIn(taskQueue', task', resultQueue', results', t)
                 = PlacesIn(taskQueue, task, resultQueue, results, t)
    <3>1. /\ Count(task, {t}) \in Nat
          /\ Count(task', {t}) = Count(task, {t}) - In(task[w], {t}) + In(Stop, {t})
      BY <1>1, TaskChanges
    <3>2. /\ Count(resultQueue, ReportsOf(t)) \in Nat
          /\ Count(resultQueue', ReportsOf(t)) = Count(resultQueue, ReportsOf(t)) + In(r, ReportsOf(t))
      BY <1>10
    <3>3. In(r, ReportsOf(t)) = In(task[w], {t}) /\ In(task[w], {t}) \in Nat /\ In(Stop, {t}) = 0
      <4>1. r \in ReportsOf(t) <=> task[w] = t
        BY DEF ReportsOf
      <4> HIDE DEF r
      <4> QED BY <4>1 DEF In, Stop
    <3>4. Count(taskQueue, {t}) \in Nat /\ Count(results, {t}) \in Nat
      BY CountsAreNatural
    <3> HIDE DEF r
    <3> QED BY <1>1, <3>1, <3>2, <3>3, <3>4 DEF PlacesIn
  <2> QED BY <1>1, <1>6, <2>1, MovesConserve
<1> QED BY <1>3, <1>6, <1>7, <1>8, <1>9, <1>11, <1>12

LEMMA MakeCalculatorKeeps ==
  ASSUME IInv, NEW w \in Workers, MakeCalculator(w)
  PROVE  IInv'
<1> USE DEF IInv, parentVars
<1>1. worker[w] = "starting"
  BY DEF MakeCalculator
<1>2. CASE Report(w, FALSE, "failed")
  BY <1>1, <1>2, ReportKeeps
<1>3. CASE /\ worker' = [worker EXCEPT ![w] = "idle"]
           /\ UNCHANGED <<plan, pc, parentVars, taskQueue, resultQueue, task, locked>>
  <2>1. w \in Alive
    BY <1>1 DEF Alive
  <2>2. /\ Workers' = Workers /\ N' = N
        /\ worker' \in [Workers -> {"none", "starting", "idle", "busy", "stopped",
                                    "failed", "killed", "refused", "terminated"}]
        /\ \A v \in Workers : v # w => worker'[v] = worker[v]
        /\ worker'[w] = "idle"
        /\ Modes' /\ NoWorkerLeft'
    BY <1>3, <2>1, WorkerActs
  <2>3. TypeOK' /\ plan'.maxPending \in Int
    BY <1>3, <2>2 DEF TypeOK
  <2>4. TasksHeld' /\ Reported' /\ StopMarks'
    BY <1>1, <1>3, <2>2 DEF TasksHeld, Reported, StopMarks, Looping
  <2>5. InFlight'
    <3>1. /\ Count(worker, {"busy"}) \in Nat
          /\ Count(worker', {"busy"})
               = Count(worker, {"busy"}) - In(worker[w], {"busy"}) + In("idle", {"busy"})
      BY <1>3, WorkerChanges
    <3>2. In(worker[w], {"busy"}) = 0 /\ In("idle", {"busy"}) = 0
      BY <1>1 DEF In
    <3>3. UnderWay' = UnderWay
      BY <1>3, <3>1, <3>2 DEF UnderWay
    <3> QED BY <1>3, <3>3 DEF InFlight, Looping
  <2>6. TasksConserved'
    BY <1>3, <2>3, MovesConserve
  <2> QED BY <2>2, <2>3, <2>4, <2>5, <2>6
<1> QED BY <1>2, <1>3 DEF MakeCalculator

LEMMA TakeKeeps ==
  ASSUME IInv, NEW w \in Workers, Take(w)
  PROVE  IInv'
<1> USE DEF IInv, parentVars
<1> DEFINE h == Head(taskQueue)
           state == IF h = Stop THEN "stopped" ELSE "busy"
<1>1. /\ UNCHANGED <<plan, pc, submitted, results, stops, resultQueue, locked>>
      /\ worker[w] = "idle" /\ taskQueue # <<>>
      /\ taskQueue' = Tail(taskQueue)
      /\ task' = [task EXCEPT ![w] = h]
      /\ worker' = [worker EXCEPT ![w] = state]
  BY DEF Take
<1>2. /\ w \in Alive /\ task[w] = Stop
      /\ state \in {"busy", "stopped"} /\ (state = "busy" <=> h # Stop)
  BY <1>1 DEF Alive, TasksHeld
<1>3. /\ Workers' = Workers /\ N' = N /\ N # 1
      /\ worker' \in [Workers -> {"none", "starting", "idle", "busy", "stopped",
                                  "failed", "killed", "refused", "terminated"}]
      /\ \A v \in Workers : v # w => worker'[v] = worker[v]
      /\ worker'[w] = state
      /\ Modes' /\ NoWorkerLeft'
  <2> HIDE DEF state
  <2> QED BY <1>1, <1>2, WorkerActs
<1>4. /\ taskQueue \in Seq(0 .. plan.tasks) /\ plan.tasks \in Nat
      /\ Len(taskQueue) \in Nat \ {0}
      /\ h \in 0 .. plan.tasks /\ h = taskQueue[1] /\ 1 \in DOMAIN taskQueue
      /\ taskQueue' \in Seq(0 .. plan.tasks) /\ Len(taskQueue') = Len(taskQueue) - 1
      /\ \A i \in DOMAIN taskQueue' :
           i + 1 \in DOMAIN taskQueue /\ taskQueue'[i] = taskQueue[i + 1]
  <2>1. taskQueue \in Seq(0 .. plan.tasks) /\ plan.tasks \in Nat
    BY DEF TypeOK
  <2> QED BY <1>1, <2>1
<1>5. TypeOK' /\ plan'.maxPending \in Int
  <2>1. task' \in [Workers -> 0 .. plan.tasks]
    BY <1>1, <1>4 DEF TypeOK
  <2> QED BY <1>1, <1>3, <1>4, <2>1 DEF TypeOK
<1>6. TasksHeld'
  <2>1. task'[w] = h /\ \A v \in Workers : v # w => task'[v] = task[v]
    BY <1>1 DEF TypeOK
  <2> HIDE DEF h
  <2> QED BY <1>2, <1>3, <2>1 DEF TasksHeld
<1>7. Reported'
  BY <1>1, <1>2, <1>3 DEF Reported
<1>8. StopMarks' /\ (Looping => h # Stop)
  BY <1>1, <1>3, <1>4 DEF StopMarks, Looping
<1>9. InFlight'
  <2> SUFFICES ASSUME Looping PROVE UnderWay' + Len(results') <= submitted'
    BY <1>1 DEF InFlight, Looping
  <2>1. /\ Count(worker, {"busy"}) \in Nat
        /\ Count(worker', {"busy"})
             = Count(worker, {"busy"}) - In(worker[w], {"busy"}) + In(state, {"busy"})
    <3> HIDE DEF state
    <3> QED BY <1>1, WorkerChanges
  <2>2. In(worker[w], {"busy"}) = 0 /\ In(state, {"busy"}) = 1
    BY <1>1, <1>2, <1>8 DEF In
  <2>3. Count(resultQueue, [ok: {TRUE}, task: Int]) \in Nat
    BY CountsAreNatural
  <2>4. UnderWay' = UnderWay
    BY <1>1, <1>4, <2>1, <2>2, <2>3 DEF UnderWay
  <2> QED BY <1>1, <2>4 DEF InFlight
<1>10. TasksConserved'
  <2>1. ASSUME NEW t \in 1 .. plan.tasks
        PROVE  PlacesIn(taskQueue', task', resultQueue', results', t)
                 = PlacesIn(taskQueue, task, resultQueue, results, t)
    <3>1. /\ Count(task, {t}) \in Nat
          /\ Count(task', {t}) = Count(task, {t}) - In(task[w], {t}) + In(h, {t})
      <4> HIDE DEF h
      <4> QED BY <1>1, TaskChanges
    <3>2. /\ Count(taskQueue, {t}) \in Nat /\ Count(taskQueue', {t}) \in Nat
          /\ Count(taskQueue, {t}) = Count(taskQueue', {t}) + In(h, {t})
      BY <1>1, <1>4, CountTail
    <3>3. In(task[w], {t}) = 0 /\ In(h, {t}) \in Nat
      BY <1>2 DEF In, Stop
    <3>4. Count(resultQueue, ReportsOf(t)) \in Nat /\ Count(results, {t}) \in Nat
      BY CountsAreNatural
    <3> QED BY <1>1, <3>1, <3>2, <3>3, <3>4 DEF PlacesIn
  <2> QED BY <1>1, <1>5, <2>1, MovesConserve
<1> QED BY <1>3, <1>5, <1>6, <1>7, <1>8, <1>9, <1>10

LEMMA ComputeKeeps ==
  ASSUME IInv, NEW w \in Workers, Compute(w)
  PROVE  IInv'
<1>1. worker[w] = "busy" /\ (Report(w, TRUE, "idle") \/ Report(w, FALSE, "failed"))
  BY DEF Compute
<1> QED BY <1>1, ReportKeeps

(* The task of a killed worker is lost with it.                            *)
LEMMA KilledKeeps ==
  ASSUME IInv, NEW w \in Workers, Killed(w)
  PROVE  IInv'
<1> USE DEF IInv, parentVars
<1>1. /\ UNCHANGED <<plan, pc, submitted, results, stops, taskQueue, resultQueue, task>>
      /\ w \in Alive /\ worker' = [worker EXCEPT ![w] = "killed"]
      /\ locked' \in BOOLEAN
  BY DEF Killed, TypeOK
<1>2. /\ Workers' = Workers /\ N' = N
      /\ worker' \in [Workers -> {"none", "starting", "idle", "busy", "stopped",
                                  "failed", "killed", "refused", "terminated"}]
      /\ \A v \in Workers : v # w => worker'[v] = worker[v]
      /\ worker'[w] = "killed"
      /\ Modes' /\ NoWorkerLeft'
  BY <1>1, WorkerActs
<1>3. TypeOK' /\ plan'.maxPending \in Int
  BY <1>1, <1>2 DEF TypeOK
<1>4. TasksHeld' /\ Reported' /\ StopMarks'
  BY <1>1, <1>2 DEF TasksHeld, Reported, StopMarks, Looping, Alive
<1>5. InFlight'
  <2>1. /\ Count(worker, {"busy"}) \in Nat
        /\ Count(worker', {"busy"})
             = Count(worker, {"busy"}) - In(worker[w], {"busy"}) + In("killed", {"busy"})
    BY <1>1, WorkerChanges
  <2>2. In(worker[w], {"busy"}) \in Nat /\ In("killed", {"busy"}) = 0
    BY DEF In
  <2>3. /\ Count(resultQueue, [ok: {TRUE}, task: Int]) \in Nat /\ Len(taskQueue) \in Nat
        /\ Len(results) \in Nat /\ submitted \in Nat
    BY CountsAreNatural DEF TypeOK
  <2> QED BY <1>1, <2>1, <2>2, <2>3 DEF InFlight, Looping, UnderWay
<1>6. TasksConserved'
  BY <1>1, <1>3, MovesConserve
<1> QED BY <1>2, <1>3, <1>4, <1>5, <1>6

LEMMA NextKeeps == IInv /\ [Next]_vars => IInv'
<1> SUFFICES ASSUME IInv, [Next]_vars PROVE IInv'
  OBVIOUS
<1>1. CASE Parent
  BY <1>1, SerialStepKeeps, StartWorkerKeeps, PutKeeps, GetKeeps, CheckWorkersKeeps,
     PutStopKeeps, JoinKeeps, TurnKeeps DEF Parent, EndPut, GetInVain, Looping, parentVars
<1>2. ASSUME NEW w \in Workers, WorkerStep(w) PROVE IInv'
  BY <1>2, MakeCalculatorKeeps, TakeKeeps, ComputeKeeps DEF WorkerStep
<1>3. ASSUME NEW w \in Workers, Killed(w) PROVE IInv'
  BY <1>3, KilledKeeps
<1>4. CASE UNCHANGED vars
  <2>1. /\ UNCHANGED <<plan, pc, submitted, results, stops, taskQueue, resultQueue,
                       worker, task, locked>>
        /\ Workers' = Workers /\ N' = N
    BY <1>4, SamePlan DEF vars, parentVars
  <2>2. TypeOK' /\ TasksConserved' /\ plan'.maxPending \in Int
    BY <2>1 DEF IInv, TypeOK, TasksConserved, Places
  <2>3. Modes' /\ TasksHeld' /\ Reported' /\ StopMarks'
    BY <2>1 DEF IInv, Modes, TasksHeld, Reported, StopMarks, Looping, Alive
  <2>4. NoWorkerLeft' /\ InFlight'
    BY <2>1 DEF IInv, NoWorkerLeft, InFlight, UnderWay, Looping, Alive, Over
  <2> QED BY <2>2, <2>3, <2>4 DEF IInv
<1> QED BY <1>1, <1>2, <1>3, <1>4 DEF Next, Done

LEMMA Inductive == Spec => []IInv
BY InitIsSound, NextKeeps, PTL DEF Spec

-------------------------------------------------------------------------------
(* The variables keep their types, whatever the options: one worker or as  *)
(* many as there are tasks, a bound of the queue that was configured or    *)
(* not (parallel_force_evaluator, worker_queue.py).                        *)
THEOREM WellTyped == Spec => []TypeOK
<1>1. IInv => TypeOK
  BY DEF IInv
<1> QED BY <1>1, Inductive, PTL

(* A submitted task is in exactly one place until an exception ends the    *)
(* call: nothing is lost between the two queues and nothing is computed or *)
(* collected twice, however the workers take turns and die.                *)
THEOREM EveryTaskIsSomewhere == Spec => []TasksConserved
<1>1. IInv => TasksConserved
  BY DEF IInv
<1> QED BY <1>1, Inductive, PTL

(* The bound on what is submitted and not collected, which the loop checks,*)
(* is a bound on the queue, whose size it never compares: put does not     *)
(* block there.                                                            *)
THEOREM SubmittingNeverBlocks == Spec => []PutNeverBlocks
<1>1. IInv => PutNeverBlocks
  <2> SUFFICES ASSUME IInv, pc = "submitting", RoomForTask
               PROVE  Len(taskQueue) < Limit
    BY DEF PutNeverBlocks
  <2>1. UnderWay + Len(results) <= submitted
    BY DEF IInv, InFlight, Looping
  <2>2. /\ Count(worker, {"busy"}) \in Nat
        /\ Count(resultQueue, [ok: {TRUE}, task: Int]) \in Nat
    BY CountsAreNatural
  <2>3. /\ Len(taskQueue) \in Nat /\ Len(results) \in Nat /\ submitted \in Nat
        /\ Limit \in Nat
    BY PlanFacts DEF IInv, TypeOK
  <2> QED BY <2>1, <2>2, <2>3 DEF UnderWay, RoomForTask
<1> QED BY <1>1, Inductive, PTL

(* Whether it returns or raises, the call leaves no process behind, but for*)
(* one: those that were started before the system refused to start another.*)
THEOREM NobodyIsLeftRunning == Spec => []NoWorkerLeft
<1>1. IInv => NoWorkerLeft
  BY DEF IInv
<1> QED BY <1>1, Inductive, PTL

-------------------------------------------------------------------------------
(* The refinement: what the workflow sees of the batch.                    *)
Trouble == \E w \in Workers : worker[w] \in {"failed", "killed", "refused"}
Outcome == IF Over THEN pc ELSE "computing"

LEMMA TroubleStays ==
  ASSUME IInv, [Next]_vars
  PROVE  UNCHANGED plan /\ (Trouble => Trouble')
<1> USE DEF IInv
<1>1. UNCHANGED plan
  BY DEF Next, Parent, WorkerStep, Done, SerialStep, StartWorker, Put, EndPut, Get, GetInVain,
     CheckWorkers, PutStop, Join, MakeCalculator, Take, Compute, Report, Killed, vars
<1>2. Workers' = Workers
  BY <1>1, SamePlan
<1> DEFINE Kept(w) == worker[w] \in {"failed", "killed", "refused"} => worker'[w] = worker[w]
<1>3. ASSUME NEW w \in Workers PROVE Kept(w) \/ Trouble'
  <2>1. CASE UNCHANGED worker
    BY <2>1
  <2>2. CASE worker' = Terminated
    BY <1>1, <2>2, TerminatedAre DEF Alive
  <2>3. CASE SerialStep
    <3>1. UNCHANGED worker \/ worker' = [worker EXCEPT ![1] = "failed"]
      BY <2>3 DEF SerialStep
    <3>2. CASE worker' = [worker EXCEPT ![1] = "failed"]
      <4>1. worker'[w] = IF w = 1 THEN "failed" ELSE worker[w]
        BY <3>2 DEF TypeOK
      <4> QED BY <1>2, <4>1 DEF Trouble
    <3> QED BY <2>1, <3>1, <3>2
  <2>4. CASE StartWorker
    <3>1. PICK v \in Workers : /\ worker[v] = "none"
                               /\ \/ worker' = [worker EXCEPT ![v] = "starting"]
                                  \/ worker' = [worker EXCEPT ![v] = "refused"]
      BY <2>4 DEF StartWorker
    <3>2. v # w => worker'[w] = worker[w]
      BY <3>1 DEF TypeOK
    <3> QED BY <3>1, <3>2
  <2>5. CASE \E v \in Workers : WorkerStep(v) \/ Killed(v)
    <3>1. PICK v \in Workers, state \in {"idle", "busy", "stopped", "failed", "killed"} :
            v \in Alive /\ worker' = [worker EXCEPT ![v] = state]
      BY <2>5 DEF WorkerStep, MakeCalculator, Take, Compute, Report, Killed, Alive
    <3>2. v # w => worker'[w] = worker[w]
      BY <3>1 DEF TypeOK
    <3> QED BY <3>1, <3>2 DEF Alive
  <2>6. \/ UNCHANGED worker
        \/ worker' = Terminated
        \/ SerialStep
        \/ StartWorker
        \/ \E v \in Workers : WorkerStep(v) \/ Killed(v)
    BY DEF Next, Parent, Done, Put, EndPut, Get, GetInVain, CheckWorkers, PutStop, Join, vars
  <2> QED BY <2>1, <2>2, <2>3, <2>4, <2>5, <2>6
<1>4. Trouble => Trouble'
  BY <1>2, <1>3 DEF Trouble
<1> QED BY <1>1, <1>4

LEMMA LastAppended ==
  ASSUME NEW T, NEW s \in Seq(T), NEW x \in T
  PROVE  /\ SubSeq(Append(s, x), Len(s) + 1, Len(Append(s, x))) = <<x>>
         /\ Append(s, x) = s \o <<x>>
<1> DEFINE r == Append(s, x)
<1>1. r \in Seq(T) /\ Len(r) = Len(s) + 1 /\ r[Len(s) + 1] = x /\ Len(s) \in Nat
  OBVIOUS
<1>2. r = s \o <<x>>
  OBVIOUS
<1> HIDE DEF r
<1>3. SubSeq(r, Len(s) + 1, Len(s) + 1) = <<x>>
  <2> DEFINE q == SubSeq(r, Len(s) + 1, Len(s) + 1)
  <2>1. /\ q \in Seq(T) /\ Len(q) = 1
        /\ q[1] = r[Len(s) + 1]
    BY <1>1
  <2> HIDE DEF q
  <2>2. q = <<x>>
    BY <1>1, <2>1
  <2> QED BY <2>2 DEF q
<1> QED BY <1>1, <1>2, <1>3 DEF r

LEMMA CollectsOne ==
  ASSUME TypeOK, NEW t \in 1 .. plan.tasks, results' = Append(results, t),
         \A i \in DOMAIN results : results[i] # t
  PROVE  Batch!Collect
<1> DEFINE fresh == SubSeq(results', Len(results) + 1, Len(results'))
<1>1. results \in Seq(1 .. plan.tasks) /\ Len(results) \in Nat
  BY DEF TypeOK
<1>2. fresh = <<t>> /\ results' = results \o <<t>>
  BY <1>1, LastAppended
<1>3. t \in (1 .. plan.tasks) \ Batch!EntriesOf(results)
  BY DEF Batch!EntriesOf
<1>4. Batch!EntriesOf(fresh) = {t} /\ DOMAIN fresh = {1}
  BY <1>2 DEF Batch!EntriesOf
<1>5. results' = results \o fresh
  BY <1>2
<1> HIDE DEF fresh
<1>6. /\ \A i, k \in DOMAIN fresh : fresh[i] = fresh[k] => i = k
      /\ Batch!EntriesOf(fresh) \subseteq (1 .. plan.tasks) \ Batch!EntriesOf(results)
  BY <1>3, <1>4
<1> QED BY <1>5, <1>6 DEF Batch!Collect, fresh

(* A list of n different numbers of 1 .. n has them all.                   *)
LEMMA AllCollected ==
  ASSUME NEW n \in Nat, NEW s \in Seq(1 .. n), Len(s) = n,
         \A i, k \in DOMAIN s : s[i] = s[k] => i = k
  PROVE  {s[i] : i \in DOMAIN s} = 1 .. n
<1>1. DOMAIN s = 1 .. n /\ s \in [1 .. n -> 1 .. n]
  OBVIOUS
<1>2. s \in Injection(1 .. n, 1 .. n)
  BY <1>1 DEF Injection, IsInjective
<1>3. IsFiniteSet(1 .. n)
  BY FS_Interval
<1>4. s \in Surjection(1 .. n, 1 .. n)
  BY <1>2, <1>3, FS_Injection
<1> QED BY <1>1, <1>4 DEF Surjection

(* With several workers, no task is in the results twice, nor is one whose *)
(* report is still in the queue.                                           *)
LEMMA ResultsAreDistinct ==
  ASSUME IInv, N # 1, pc # "raised"
  PROVE  /\ \A i, k \in DOMAIN results : results[i] = results[k] => i = k
         /\ \A i \in DOMAIN results, k \in DOMAIN resultQueue :
              results[i] # resultQueue[k].task
<1> USE DEF IInv
<1>1. /\ results \in Seq(1 .. plan.tasks) /\ plan.tasks \in Nat /\ N \in Nat \ {0}
      /\ DOMAIN results = 1 .. Len(results) /\ Len(results) \in Nat
      /\ DOMAIN resultQueue = 1 .. Len(resultQueue) /\ Len(resultQueue) \in Nat
      /\ \A i \in DOMAIN results : results[i] \in 1 .. plan.tasks
  BY PlanFacts DEF TypeOK
<1>2. \A i \in DOMAIN resultQueue : resultQueue[i] \in [ok: BOOLEAN, task: Nat]
  BY ReportsAreTyped DEF TypeOK
<1>3. ASSUME NEW t \in 1 .. plan.tasks
      PROVE  /\ Count(taskQueue, {t}) \in Nat /\ Count(task, {t}) \in Nat
             /\ Count(resultQueue, ReportsOf(t)) \in Nat /\ Count(results, {t}) \in Nat
             /\ Count(results, {t}) + Count(resultQueue, ReportsOf(t)) <= 1
  <2>1. Places(t) \in {0, 1}
    BY <1>1 DEF TasksConserved, N
  <2>2. /\ Count(taskQueue, {t}) \in Nat /\ Count(task, {t}) \in Nat
        /\ Count(resultQueue, ReportsOf(t)) \in Nat /\ Count(results, {t}) \in Nat
    BY CountsAreNatural
  <2> QED BY <2>1, <2>2, PlacesNow DEF PlacesIn
<1>4. ASSUME NEW i \in DOMAIN results, NEW k \in DOMAIN results, results[i] = results[k]
      PROVE  i = k
  <2> DEFINE A == {j \in DOMAIN results : results[j] \in {results[i]}}
  <2>1. IsFiniteSet(A) /\ i \in A /\ k \in A
    <3>1. IsFiniteSet(DOMAIN results) /\ A \subseteq DOMAIN results /\ i \in A /\ k \in A
      BY <1>1, <1>4, FS_Interval
    <3> HIDE DEF A
    <3> QED BY <3>1, FS_Subset
  <2>2. Cardinality(A) = Count(results, {results[i]})
    BY DEF Count
  <2> HIDE DEF A
  <2>3. Cardinality(A) \in Nat /\ Cardinality(A) <= 1
    <3> DEFINE t == results[i]
    <3>1. t \in 1 .. plan.tasks
      BY <1>1
    <3>2. Cardinality(A) = Count(results, {t})
      BY <2>2
    <3> HIDE DEF t
    <3> QED BY <1>3, <3>1, <3>2
  <2>4. Cardinality(A) = 1
    BY <2>1, <2>3, FS_EmptySet
  <2>5. PICK x : A = {x}
    BY <2>1, <2>4, FS_Singleton
  <2> QED BY <2>1, <2>5
<1>5. ASSUME NEW i \in DOMAIN results, NEW k \in DOMAIN resultQueue,
             results[i] = resultQueue[k].task
      PROVE  FALSE
  <2> DEFINE t == results[i]
             A == {j \in DOMAIN results : results[j] \in {t}}
             B == {j \in DOMAIN resultQueue : resultQueue[j] \in ReportsOf(t)}
  <2>1. resultQueue[k] \in ReportsOf(t)
    BY <1>2, <1>5 DEF ReportsOf
  <2>2. i \in A /\ k \in B /\ A \subseteq DOMAIN results /\ B \subseteq DOMAIN resultQueue
    BY <2>1
  <2>3. Cardinality(A) = Count(results, {t}) /\ Cardinality(B) = Count(resultQueue, ReportsOf(t))
    BY DEF Count
  <2> HIDE DEF A, B
  <2>4. IsFiniteSet(DOMAIN results) /\ IsFiniteSet(DOMAIN resultQueue)
    BY <1>1, FS_Interval
  <2>5. IsFiniteSet(A) /\ IsFiniteSet(B)
    BY <2>2, <2>4, FS_Subset
  <2>6. Cardinality(A) # 0 /\ Cardinality(B) # 0
    BY <2>2, <2>5, FS_EmptySet
  <2>7. t \in 1 .. plan.tasks
    BY <1>1
  <2> HIDE DEF t
  <2> QED BY <1>3, <2>3, <2>6, <2>7
<1> QED BY <1>4, <1>5

(* How the results and the outcome may change in a step.                   *)
LEMMA SerialStepIsABatchStep ==
  ASSUME IInv, SerialStep
  PROVE  /\ ~Over
         /\ Batch!Collect \/ UNCHANGED results
         /\ \/ UNCHANGED Outcome
            \/ Outcome' = "returned" /\ Batch!EntriesOf(results') = 1 .. plan.tasks
            \/ Outcome' = "raised" /\ Trouble'
<1> USE DEF IInv
<1>1. /\ pc = "serial" /\ ~Over /\ N = 1 /\ UNCHANGED plan
      /\ \A i \in DOMAIN results : results[i] = i
  BY DEF SerialStep, Over, Modes
<1>2. /\ results \in Seq(1 .. plan.tasks) /\ plan.tasks \in Nat /\ Workers' = Workers
      /\ Len(results) \in Nat /\ DOMAIN results = 1 .. Len(results)
      /\ \A i \in DOMAIN results : results[i] \in 1 .. plan.tasks
      /\ Workers = 1 .. 1
  BY <1>1, SamePlan, PlanFacts DEF TypeOK
<1>3. CASE Len(results) + 1 > plan.tasks /\ pc' = "returned" /\ UNCHANGED results
  <2>1. Len(results) = plan.tasks
    <3> SUFFICES ASSUME Len(results) # 0 PROVE Len(results) <= plan.tasks
      BY <1>2, <1>3
    <3>1. results[Len(results)] = Len(results) /\ Len(results) \in DOMAIN results
      BY <1>1, <1>2
    <3>2. Len(results) \in 1 .. plan.tasks
      BY <1>2, <3>1
    <3> QED BY <3>2
  <2>2. Batch!EntriesOf(results) = 1 .. plan.tasks
    BY <1>1, <1>2, <2>1 DEF Batch!EntriesOf
  <2> QED BY <1>1, <1>3, <2>2 DEF Outcome, Over
<1>4. CASE /\ Len(results) + 1 <= plan.tasks
           /\ results' = Append(results, Len(results) + 1) /\ UNCHANGED pc
  <2>1. Len(results) + 1 \in 1 .. plan.tasks
        /\ \A i \in DOMAIN results : results[i] # Len(results) + 1
    BY <1>1, <1>2, <1>4
  <2>2. Batch!Collect
    BY <1>4, <2>1, CollectsOne
  <2> QED BY <1>1, <1>4, <2>2 DEF Outcome, Over
<1>5. CASE pc' = "raised" /\ worker' = [worker EXCEPT ![1] = "failed"] /\ UNCHANGED results
  <2>1. worker'[1] = "failed" /\ 1 \in Workers'
    BY <1>2, <1>5 DEF TypeOK
  <2> QED BY <1>1, <1>5, <2>1 DEF Outcome, Over, Trouble
<1> QED BY <1>1, <1>3, <1>4, <1>5 DEF SerialStep

LEMMA GetIsABatchStep ==
  ASSUME IInv, Get
  PROVE  /\ ~Over
         /\ Batch!Collect \/ UNCHANGED results
         /\ UNCHANGED Outcome \/ (Outcome' = "raised" /\ Trouble)
<1> USE DEF IInv
<1>1. pc = "collecting" /\ ~Over /\ N # 1 /\ resultQueue # <<>>
  BY DEF Get, Over, Modes
<1>2. /\ Head(resultQueue).ok => Head(resultQueue).task \in 1 .. plan.tasks
      /\ ~Head(resultQueue).ok => \E w \in Workers : worker[w] = "failed"
  BY <1>1, HeadReport
<1>3. CASE ~Head(resultQueue).ok
  BY <1>1, <1>2, <1>3 DEF Get, Outcome, Over, Trouble
<1>4. CASE Head(resultQueue).ok
  <2>1. /\ results' = Append(results, Head(resultQueue).task)
        /\ pc' \in {"stopping", "submitting"}
    BY <1>4 DEF Get
  <2>2. \A i \in DOMAIN results : results[i] # Head(resultQueue).task
    <3>1. 1 \in DOMAIN resultQueue /\ Head(resultQueue) = resultQueue[1]
      BY <1>1 DEF TypeOK
    <3> QED BY <1>1, <3>1, ResultsAreDistinct
  <2>3. Batch!Collect
    BY <1>2, <1>4, <2>1, <2>2, CollectsOne
  <2> QED BY <1>1, <2>1, <2>3 DEF Outcome, Over
<1> QED BY <1>3, <1>4

LEMMA JoinIsABatchStep ==
  ASSUME IInv, Join
  PROVE  /\ ~Over /\ UNCHANGED results /\ Outcome' = "returned"
         /\ Batch!EntriesOf(results) = 1 .. plan.tasks
<1>1. /\ pc = "joining" /\ pc' = "returned" /\ UNCHANGED results
      /\ N # 1 /\ Len(results) = plan.tasks
      /\ plan.tasks \in Nat /\ results \in Seq(1 .. plan.tasks)
  BY DEF IInv, Join, parentVars, Modes, StopMarks, TypeOK
<1>2. \A i, k \in DOMAIN results : results[i] = results[k] => i = k
  BY <1>1, ResultsAreDistinct
<1>3. {results[i] : i \in DOMAIN results} = 1 .. plan.tasks
  BY <1>1, <1>2, AllCollected
<1> QED BY <1>1, <1>3 DEF Over, Outcome, Batch!EntriesOf

LEMMA OtherStepsAreBatchSteps ==
  ASSUME IInv,
         \/ StartWorker \/ Put \/ EndPut \/ GetInVain \/ CheckWorkers \/ PutStop
         \/ \E w \in Workers : WorkerStep(w) \/ Killed(w)
         \/ UNCHANGED vars
  PROVE  /\ UNCHANGED results
         /\ UNCHANGED Outcome \/ (~Over /\ Outcome' = "raised" /\ Trouble')
<1>1. CASE Put \/ EndPut \/ GetInVain \/ PutStop
  BY <1>1 DEF Put, EndPut, GetInVain, PutStop, parentVars, Outcome, Over
<1>2. CASE (\E w \in Workers : WorkerStep(w) \/ Killed(w)) \/ UNCHANGED vars
  BY <1>2 DEF WorkerStep, MakeCalculator, Take, Compute, Report, Killed, parentVars, vars,
     Outcome, Over
<1>3. CASE StartWorker
  <2>1. PICK w \in Workers :
          \/ pc' \in {"submitting", "starting"}
          \/ pc' = "raised" /\ worker' = [worker EXCEPT ![w] = "refused"]
    BY <1>3 DEF StartWorker
  <2>2. Workers' = Workers /\ worker \in [Workers -> {"none", "starting", "idle", "busy",
                             "stopped", "failed", "killed", "refused", "terminated"}]
    BY <1>3, SamePlan DEF StartWorker, IInv, TypeOK
  <2>3. pc' = "raised" => Trouble'
    BY <2>1, <2>2 DEF Trouble
  <2> QED BY <1>3, <2>1, <2>3 DEF StartWorker, parentVars, Outcome, Over
<1>4. CASE CheckWorkers
  <2>1. CASE Exited
    <3>1. PICK w \in Workers : worker[w] = "killed"
      BY <2>1 DEF Exited
    <3>2. worker'[w] = "killed" /\ Workers' = Workers
      BY <1>4, <2>1, <3>1, TerminatedAre, SamePlan DEF CheckWorkers, Alive, IInv
    <3> QED BY <1>4, <2>1, <3>2 DEF CheckWorkers, parentVars, Outcome, Over, Trouble
  <2>2. CASE ~Exited
    BY <1>4, <2>2 DEF CheckWorkers, parentVars, Outcome, Over
  <2> QED BY <2>1, <2>2
<1> QED BY <1>1, <1>2, <1>3, <1>4

(* The worker queue is a ForceBatch: it collects the result of every task  *)
(* once, returns only when it has them all, and raises only if a worker    *)
(* reported an exception, exited or could not be started.                  *)
THEOREM WorkerQueueIsForceBatch == Spec => IsForceBatch
<1>1. ASSUME Init PROVE Batch!Init
  <2>1. plan.tasks \in Nat /\ results = <<>> /\ ~Over /\ ~Trouble
    <3>1. plan.tasks \in Nat
      BY <1>1, InitIsSound DEF IInv, TypeOK
    <3> QED BY <1>1, <3>1 DEF Init, Over, Trouble
  <2> QED BY <2>1 DEF Batch!Init, Trouble
<1>2. ASSUME IInv, [Next]_vars PROVE [Batch!Next]_Batch!vars
  <2>1. UNCHANGED plan /\ (Trouble => Trouble')
    BY <1>2, TroubleStays
  <2>2. \/ SerialStep \/ Get \/ Join
        \/ StartWorker \/ Put \/ EndPut \/ GetInVain \/ CheckWorkers \/ PutStop
        \/ \E w \in Workers : WorkerStep(w) \/ Killed(w)
        \/ UNCHANGED vars
    BY <1>2 DEF Next, Parent, Done
  <2>3. ~Over => Outcome = "computing"
    BY DEF Outcome
  <2>4. /\ \/ Outcome = "computing" /\ Batch!Collect
           \/ UNCHANGED results
        /\ \/ UNCHANGED Outcome
           \/ /\ Outcome = "computing" /\ Outcome' = "returned"
              /\ Batch!EntriesOf(results') = 1 .. plan.tasks
           \/ Outcome = "computing" /\ Outcome' = "raised" /\ Trouble'
    <3>1. CASE SerialStep
      BY <1>2, <2>3, <3>1, SerialStepIsABatchStep
    <3>2. CASE Get
      BY <1>2, <2>1, <2>3, <3>2, GetIsABatchStep
    <3>3. CASE Join
      BY <1>2, <2>3, <3>3, JoinIsABatchStep DEF Batch!EntriesOf
    <3>4. CASE \/ StartWorker \/ Put \/ EndPut \/ GetInVain \/ CheckWorkers \/ PutStop
               \/ \E w \in Workers : WorkerStep(w) \/ Killed(w)
               \/ UNCHANGED vars
      BY <1>2, <2>3, <3>4, OtherStepsAreBatchSteps
    <3> QED BY <2>2, <3>1, <3>2, <3>3, <3>4
  <2>5. Batch!Next
    BY <2>1, <2>4 DEF Batch!Next, Trouble, Outcome
  <2> QED BY <2>5
<1> QED BY <1>1, <1>2, Inductive, PTL DEF Spec, IsForceBatch, Batch!Spec
===============================================================================
