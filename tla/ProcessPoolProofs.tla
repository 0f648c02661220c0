--------------------------- MODULE ProcessPoolProofs ---------------------------
(***************************************************************************)
(* Theorems about the process pool scheduler, for batches of any size, any *)
(* chunk size, any number of processes and any bound on what is pending,   *)
(* whatever fails meanwhile.                                               *)
(***************************************************************************)
EXTENDS ProcessPool, FiniteSetTheorems, TLAPS

-------------------------------------------------------------------------------
(* Chunks: a division without a gap, an overlap or an empty part.          *)

LEMMA Products ==
  ASSUME NEW a \in Nat, NEW b \in Nat, NEW k \in Nat
  PROVE  /\ a * k \in Nat /\ (a + 1) * k = a * k + k
         /\ a <= b => a * k <= b * k
<1>1. a * k \in Nat /\ (a + 1) * k = a * k + k
  OBVIOUS
<1>2. ASSUME a <= b PROVE a * k <= b * k
  <2> DEFINE d == b - a
  <2>1. d \in Nat /\ b = a + d
    BY <1>2
  <2> HIDE DEF d
  <2>2. b * k = a * k + d * k /\ d * k \in Nat
    BY <2>1
  <2> QED BY <1>1, <2>2
<1> QED BY <1>1, <1>2

LEMMA CeilDivBounds ==
  ASSUME NEW n \in Nat, NEW s \in Nat \ {0}
  PROVE  /\ CeilDiv(n, s) \in Nat
         /\ n <= CeilDiv(n, s) * s
         /\ CeilDiv(n, s) * s < n + s
<1> DEFINE q == (n + s - 1) \div s
           r == (n + s - 1) % s
<1>1. q \in Int /\ r \in 0 .. s - 1 /\ n + s - 1 = s * q + r
  OBVIOUS
<1> HIDE DEF q, r
<1>2. q \in Nat
  <2> SUFFICES ASSUME q < 0 PROVE FALSE
    BY <1>1
  <2> DEFINE d == 0 - q - 1
  <2>1. d \in Nat /\ q = 0 - d - 1
    BY <1>1
  <2> HIDE DEF d
  <2>2. s * q = 0 - s * d - s /\ s * d \in Nat
    BY <2>1
  <2> QED BY <1>1, <2>2
<1>3. s * q = q * s
  BY <1>1
<1> QED BY <1>1, <1>2, <1>3 DEF CeilDiv, q

(* Number t of a batch is in the chunk that its quotient names.            *)
LEMMA Quotients ==
  ASSUME NEW s \in Nat \ {0}, NEW a \in Nat, NEW b \in Nat,
         NEW i \in 1 .. s, NEW k \in 1 .. s, a * s + i = b * s + k
  PROVE  a = b
<1>1. ASSUME NEW x \in Nat, NEW y \in Nat, NEW j \in 1 .. s, NEW l \in 1 .. s,
             x * s + j = y * s + l, x < y
      PROVE  FALSE
  <2>1. x + 1 <= y /\ x + 1 \in Nat
    BY <1>1
  <2>2. (x + 1) * s <= y * s /\ (x + 1) * s = x * s + s /\ x * s \in Nat /\ y * s \in Nat
    BY <2>1, Products
  <2> QED BY <1>1, <2>2
<1>2. ~(a < b) /\ ~(b < a)
  BY <1>1
<1> QED BY <1>2

LEMMA ChunksDivide ==
  ASSUME NEW n \in Nat, NEW s \in Nat \ {0}
  PROVE  /\ CeilDiv(n, s) \in Nat
         /\ Chunks(n, s) \in Seq(Seq(1 .. n)) /\ Len(Chunks(n, s)) = CeilDiv(n, s)
         /\ DOMAIN Chunks(n, s) = 1 .. CeilDiv(n, s)
         /\ \A c \in 1 .. CeilDiv(n, s) :
              /\ Chunks(n, s)[c] \in Seq(1 .. n) /\ 1 \in DOMAIN Chunks(n, s)[c]
              /\ \A i, k \in DOMAIN Chunks(n, s)[c] :
                   Chunks(n, s)[c][i] = Chunks(n, s)[c][k] => i = k
         /\ \A c, d \in 1 .. CeilDiv(n, s) :
              \A i \in DOMAIN Chunks(n, s)[c], k \in DOMAIN Chunks(n, s)[d] :
                Chunks(n, s)[c][i] = Chunks(n, s)[d][k] => c = d
         /\ \A t \in 1 .. n : \E c \in 1 .. CeilDiv(n, s) :
              \E i \in DOMAIN Chunks(n, s)[c] : Chunks(n, s)[c][i] = t
<1> DEFINE W == Chunks(n, s)
           m == CeilDiv(n, s)
           l(c) == Smaller(s, n - (c - 1) * s)
<1>1. m \in Nat /\ n <= m * s /\ m * s < n + s
  BY CeilDivBounds
<1> HIDE DEF m
<1>2. ASSUME NEW c \in 1 .. m
      PROVE  /\ (c - 1) * s \in Nat /\ l(c) \in 1 .. s
             /\ (c - 1) * s + l(c) <= n
  <2>1. c - 1 \in Nat /\ c \in Nat /\ c <= m
    BY <1>1
  <2>2. (c - 1) * s \in Nat /\ c * s = (c - 1) * s + s /\ c * s <= m * s
    <3>1. (c - 1) * s \in Nat /\ ((c - 1) + 1) * s = (c - 1) * s + s
      BY <2>1, Products
    <3>2. c * s <= m * s /\ (c - 1) + 1 = c
      BY <1>1, <2>1, Products
    <3> QED BY <3>1, <3>2
  <2>3. (c - 1) * s < n
    BY <1>1, <2>2
  <2> QED BY <2>2, <2>3 DEF Smaller
<1>3. W = [c \in 1 .. m |-> [i \in 1 .. l(c) |-> (c - 1) * s + i]]
  BY DEF Chunks, m
<1>4. ASSUME NEW c \in 1 .. m
      PROVE  /\ W[c] = [i \in 1 .. l(c) |-> (c - 1) * s + i]
             /\ W[c] \in Seq(1 .. n) /\ DOMAIN W[c] = 1 .. l(c)
             /\ \A i \in DOMAIN W[c] : W[c][i] = (c - 1) * s + i /\ i \in 1 .. s
  <2>1. W[c] = [i \in 1 .. l(c) |-> (c - 1) * s + i]
    BY <1>3
  <2>2. (c - 1) * s \in Nat /\ l(c) \in 1 .. s /\ (c - 1) * s + l(c) <= n
    BY <1>2
  <2> HIDE DEF l
  <2>3. \A i \in 1 .. l(c) : (c - 1) * s + i \in 1 .. n
    BY <2>2
  <2>4. l(c) \in Nat /\ [i \in 1 .. l(c) |-> (c - 1) * s + i] \in [1 .. l(c) -> 1 .. n]
    BY <2>2, <2>3
  <2>5. W[c] \in Seq(1 .. n)
    BY <2>1, <2>4
  <2> QED BY <2>1, <2>2, <2>5
<1> HIDE DEF l
<1>5. DOMAIN W = 1 .. m /\ W \in Seq(Seq(1 .. n)) /\ Len(W) = m
  BY <1>1, <1>3, <1>4
<1> HIDE DEF W
<1>6. ASSUME NEW c \in 1 .. m
      PROVE  1 \in DOMAIN W[c] /\ \A i, k \in DOMAIN W[c] : W[c][i] = W[c][k] => i = k
  <2> DEFINE first == (c - 1) * s
  <2>1. first \in Nat /\ 1 \in 1 .. l(c)
    BY <1>2
  <2>2. \A i \in DOMAIN W[c] : W[c][i] = first + i /\ i \in 1 .. s
    BY <1>4
  <2>3. DOMAIN W[c] = 1 .. l(c)
    BY <1>4
  <2> HIDE DEF first
  <2> QED BY <2>1, <2>2, <2>3
<1>7. ASSUME NEW c \in 1 .. m, NEW d \in 1 .. m, NEW i \in DOMAIN W[c], NEW k \in DOMAIN W[d],
             W[c][i] = W[d][k]
      PROVE  c = d
  <2>1. (c - 1) * s + i = (d - 1) * s + k /\ i \in 1 .. s /\ k \in 1 .. s
    <3>1. W[c][i] = (c - 1) * s + i /\ i \in 1 .. s
      BY <1>4
    <3>2. W[d][k] = (d - 1) * s + k /\ k \in 1 .. s
      BY <1>4
    <3> QED BY <1>7, <3>1, <3>2
  <2>2. c - 1 \in Nat /\ d - 1 \in Nat
    BY <1>1
  <2>3. c - 1 = d - 1
    BY <2>1, <2>2, Quotients
  <2> QED BY <2>3, <1>1
<1>8. ASSUME NEW t \in 1 .. n
      PROVE  \E c \in 1 .. m : \E i \in DOMAIN W[c] : W[c][i] = t
  <2> DEFINE q == (t - 1) \div s
             r == (t - 1) % s
  <2>1. q \in Int /\ r \in 0 .. s - 1 /\ t - 1 = s * q + r
    OBVIOUS
  <2> HIDE DEF q, r
  <2>2. q \in Nat
    <3> SUFFICES ASSUME q < 0 PROVE FALSE
      BY <2>1
    <3> DEFINE d == 0 - q - 1
    <3>1. d \in Nat /\ q = 0 - d - 1
      BY <2>1
    <3> HIDE DEF d
    <3>2. s * q = 0 - s * d - s /\ s * d \in Nat
      BY <3>1
    <3> QED BY <2>1, <3>2
  <2>3. q * s = s * q /\ q * s \in Nat
    BY <2>2
  <2>4. q + 1 \in 1 .. m
    <3> SUFFICES ASSUME m <= q PROVE FALSE
      BY <1>1, <2>2
    <3>1. m * s <= q * s
      BY <1>1, <2>2, Products
    <3> QED BY <1>1, <2>1, <2>3, <3>1
  <2>5. r + 1 \in DOMAIN W[q + 1]
    <3>1. r + 1 \in 1 .. l(q + 1) /\ (q + 1) - 1 = q
      BY <2>1, <2>2, <2>3 DEF l, Smaller
    <3> QED BY <1>4, <2>4, <3>1
  <2>6. W[q + 1][r + 1] = t
    <3>1. W[q + 1][r + 1] = ((q + 1) - 1) * s + (r + 1)
      BY <1>4, <2>4, <2>5
    <3>2. (q + 1) - 1 = q
      BY <2>2
    <3> QED BY <2>1, <2>2, <2>3, <3>1, <3>2
  <2> QED BY <2>4, <2>5, <2>6
<1> QED BY <1>1, <1>4, <1>5, <1>6, <1>7, <1>8 DEF W, m

-------------------------------------------------------------------------------
(* The inductive invariant.                                                *)

L       == Len(Work)
Entries(s) == {s[i] : i \in DOMAIN s}

Trouble == broken \/ \E c \in DOMAIN future : future[c] = "failed"
Outcome == IF Over THEN pc ELSE "computing"

Typed ==
  /\ plan.tasks \in Nat /\ plan.workers \in Nat \ {0}
  /\ plan.chunkSize \in Int /\ plan.maxPending \in Int
  /\ pc \in {"serial", "filling", "waiting", "collecting", "leaving", "raising",
             "returned", "raised"}
  /\ next \in 1 .. L + 1
  /\ pending \subseteq 1 .. next - 1
  /\ batch \subseteq pending
  /\ future \in [1 .. L -> {"new", "queued", "running", "done", "failed"}]
  /\ results \in Seq(1 .. plan.tasks)
  /\ broken \in BOOLEAN

(* A future is new until its chunk is submitted.                           *)
Submitted == \A c \in next .. L : future[c] = "new"

(* The loop in this process submits nothing and goes through the tasks in  *)
(* their order.                                                            *)
InOrder ==
  pc = "serial" => /\ \A i \in DOMAIN results : results[i] = i
                   /\ \A c \in 1 .. L : future[c] = "new"

(* What was submitted and is not waited for any more has its results in,   *)
(* and nothing else has, until one of the futures failed.                  *)
Collected == (1 .. next - 1) \ pending

ResultsOfCollected ==
  pc \in {"filling", "waiting", "collecting", "leaving"} =>
    Entries(results) = UNION {Entries(Work[c]) : c \in Collected}

Ends ==
  /\ pc = "leaving" => pending = {} /\ next = L + 1
  /\ pc \in {"raising", "raised"} => Trouble

IInv ==
  /\ Typed /\ Submitted /\ InOrder /\ ResultsOfCollected /\ Ends /\ QuietWhenOver

-------------------------------------------------------------------------------
LEMMA EntriesOfSeq ==
  ASSUME NEW T
  PROVE  \A s \in Seq(T) : \A i \in DOMAIN s : s[i] \in T
OBVIOUS

LEMMA WorkIsDivided ==
  ASSUME plan.tasks \in Nat, plan.workers \in Nat \ {0},
         plan.chunkSize \in Int, plan.maxPending \in Int
  PROVE  /\ L \in Nat /\ DOMAIN Work = 1 .. L /\ Limit \in Nat \ {0}
         /\ \A c \in 1 .. L :
              /\ Work[c] \in Seq(1 .. plan.tasks) /\ 1 \in DOMAIN Work[c]
              /\ \A i, k \in DOMAIN Work[c] : Work[c][i] = Work[c][k] => i = k
         /\ \A c, d \in 1 .. L : c # d => Entries(Work[c]) \cap Entries(Work[d]) = {}
         /\ UNION {Entries(Work[c]) : c \in 1 .. L} = 1 .. plan.tasks
<1> DEFINE s == ChunkSize(plan)
           n == plan.tasks
<1>1. s \in Nat \ {0}
  <2> DEFINE a == CleanPositiveInt(plan.tasks)
             b == CleanPositiveInt(plan.workers) * 8
  <2>1. a \in Nat /\ b \in Nat \ {0}
    BY DEF CleanPositiveInt, Larger
  <2> HIDE DEF a, b
  <2>2. CeilDiv(a, b) \in Nat
    BY <2>1, CeilDivBounds
  <2>3. Larger(1, Smaller(16, CeilDiv(a, b))) \in Nat \ {0}
    BY <2>2 DEF Larger, Smaller
  <2>4. CleanPositiveInt(plan.chunkSize) \in Nat \ {0}
    BY DEF CleanPositiveInt, Larger
  <2> QED BY <2>3, <2>4 DEF ChunkSize, a, b
<1>2. Limit \in Nat \ {0}
  BY DEF Limit, MaxPending, CleanPositiveInt, Larger, None
<1> HIDE DEF s
<1>3. n \in Nat /\ Work = Chunks(n, s)
  BY DEF Work, s
<1> HIDE DEF n
<1>4. /\ CeilDiv(n, s) \in Nat
      /\ Len(Chunks(n, s)) = CeilDiv(n, s) /\ DOMAIN Chunks(n, s) = 1 .. CeilDiv(n, s)
      /\ \A c \in 1 .. CeilDiv(n, s) :
           /\ Chunks(n, s)[c] \in Seq(1 .. n) /\ 1 \in DOMAIN Chunks(n, s)[c]
           /\ \A i, k \in DOMAIN Chunks(n, s)[c] :
                Chunks(n, s)[c][i] = Chunks(n, s)[c][k] => i = k
      /\ \A c, d \in 1 .. CeilDiv(n, s) :
           \A i \in DOMAIN Chunks(n, s)[c], k \in DOMAIN Chunks(n, s)[d] :
             Chunks(n, s)[c][i] = Chunks(n, s)[d][k] => c = d
      /\ \A t \in 1 .. n : \E c \in 1 .. CeilDiv(n, s) :
           \E i \in DOMAIN Chunks(n, s)[c] : Chunks(n, s)[c][i] = t
  BY <1>1, <1>3, ChunksDivide
<1>5. L = CeilDiv(n, s)
  BY <1>3, <1>4 DEF L
<1>6. /\ L \in Nat /\ DOMAIN Work = 1 .. L
      /\ \A c \in 1 .. L :
           /\ Work[c] \in Seq(1 .. n) /\ 1 \in DOMAIN Work[c]
           /\ \A i, k \in DOMAIN Work[c] : Work[c][i] = Work[c][k] => i = k
      /\ \A c, d \in 1 .. L : \A i \in DOMAIN Work[c], k \in DOMAIN Work[d] :
           Work[c][i] = Work[d][k] => c = d
      /\ \A t \in 1 .. n : \E c \in 1 .. L : \E i \in DOMAIN Work[c] : Work[c][i] = t
  BY <1>3, <1>4, <1>5
<1>7. \A c, d \in 1 .. L : c # d => Entries(Work[c]) \cap Entries(Work[d]) = {}
  BY <1>6 DEF Entries
<1>8. UNION {Entries(Work[c]) : c \in 1 .. L} = 1 .. n
  <2>0. \A c \in 1 .. L : \A i \in DOMAIN Work[c] : Work[c][i] \in 1 .. n
    <3>1. \A q \in Seq(1 .. n) : \A i \in DOMAIN q : q[i] \in 1 .. n
      BY EntriesOfSeq
    <3> QED BY <1>6, <3>1
  <2>1. \A c \in 1 .. L : Entries(Work[c]) \subseteq 1 .. n
    BY <2>0 DEF Entries
  <2>2. \A t \in 1 .. n : \E c \in 1 .. L : t \in Entries(Work[c])
    BY <1>6 DEF Entries
  <2> QED BY <2>1, <2>2
<1> QED BY <1>2, <1>6, <1>7, <1>8 DEF n

LEMMA WorkFacts ==
  ASSUME IInv
  PROVE  /\ L \in Nat /\ DOMAIN Work = 1 .. L /\ Limit \in Nat \ {0} /\ next \in Nat \ {0}
         /\ DOMAIN future = 1 .. L
         /\ \A c \in 1 .. L :
              /\ Work[c] \in Seq(1 .. plan.tasks) /\ 1 \in DOMAIN Work[c]
              /\ \A i, k \in DOMAIN Work[c] : Work[c][i] = Work[c][k] => i = k
         /\ \A c, d \in 1 .. L : c # d => Entries(Work[c]) \cap Entries(Work[d]) = {}
         /\ UNION {Entries(Work[c]) : c \in 1 .. L} = 1 .. plan.tasks
<1>1. /\ plan.tasks \in Nat /\ plan.workers \in Nat \ {0}
      /\ plan.chunkSize \in Int /\ plan.maxPending \in Int
      /\ next \in 1 .. L + 1 /\ DOMAIN future = 1 .. L
  BY DEF IInv, Typed
<1>2. /\ L \in Nat /\ DOMAIN Work = 1 .. L /\ Limit \in Nat \ {0}
      /\ \A c \in 1 .. L :
           /\ Work[c] \in Seq(1 .. plan.tasks) /\ 1 \in DOMAIN Work[c]
           /\ \A i, k \in DOMAIN Work[c] : Work[c][i] = Work[c][k] => i = k
      /\ \A c, d \in 1 .. L : c # d => Entries(Work[c]) \cap Entries(Work[d]) = {}
      /\ UNION {Entries(Work[c]) : c \in 1 .. L} = 1 .. plan.tasks
  BY <1>1, WorkIsDivided
<1>3. next \in Nat \ {0}
  BY <1>1, <1>2
<1> QED BY <1>1, <1>2, <1>3

LEMMA SamePlan ==
  ASSUME UNCHANGED plan
  PROVE  Work' = Work /\ L' = L /\ Limit' = Limit
BY DEF Work, L, Limit

(* Results appended are entries added.                                     *)
LEMMA Appended ==
  ASSUME NEW T, NEW s \in Seq(T), NEW r \in Seq(T)
  PROVE  /\ s \o r \in Seq(T)
         /\ Entries(s \o r) = Entries(s) \cup Entries(r)
         /\ SubSeq(s \o r, Len(s) + 1, Len(s \o r)) = r
<1> DEFINE q == s \o r
           f == SubSeq(q, Len(s) + 1, Len(q))
<1>1. /\ q \in Seq(T) /\ Len(q) = Len(s) + Len(r) /\ Len(s) \in Nat /\ Len(r) \in Nat
      /\ DOMAIN s = 1 .. Len(s) /\ DOMAIN r = 1 .. Len(r) /\ DOMAIN q = 1 .. Len(s) + Len(r)
      /\ \A i \in 1 .. Len(s) : q[i] = s[i]
      /\ \A i \in 1 .. Len(r) : q[Len(s) + i] = r[i]
  OBVIOUS
<1> HIDE DEF q
<1>2. Entries(q) \subseteq Entries(s) \cup Entries(r)
  <2> SUFFICES ASSUME NEW i \in DOMAIN q PROVE q[i] \in Entries(s) \cup Entries(r)
    BY DEF Entries
  <2>1. CASE i \in DOMAIN s
    BY <1>1, <2>1 DEF Entries
  <2>2. CASE i \notin DOMAIN s
    <3> DEFINE k == i - Len(s)
    <3>1. k \in 1 .. Len(r) /\ i = Len(s) + k
      BY <1>1, <2>2
    <3> HIDE DEF k
    <3> QED BY <1>1, <3>1 DEF Entries
  <2> QED BY <2>1, <2>2
<1>3. Entries(s) \cup Entries(r) \subseteq Entries(q)
  <2>1. \A i \in DOMAIN s : i \in DOMAIN q /\ q[i] = s[i]
    BY <1>1
  <2>2. \A i \in DOMAIN r : Len(s) + i \in DOMAIN q /\ q[Len(s) + i] = r[i]
    BY <1>1
  <2> QED BY <2>1, <2>2 DEF Entries
<1>4. f = r
  <2>1. f \in Seq(T) /\ Len(f) = Len(r)
    BY <1>1
  <2>2. \A i \in 1 .. Len(r) : f[i] = q[Len(s) + i]
    BY <1>1
  <2> HIDE DEF f
  <2> QED BY <1>1, <2>1, <2>2
<1> QED BY <1>1, <1>2, <1>3, <1>4 DEF q

LEMMA InitIsSound == Init => IInv
<1> SUFFICES ASSUME Init PROVE IInv
  OBVIOUS
<1>1. /\ plan.tasks \in Nat /\ plan.workers \in Nat \ {0}
      /\ plan.chunkSize \in Int /\ plan.maxPending \in Int
  BY PoolAssumption DEF Init, Schedule, CleanPositiveInt, Larger
<1>2. L \in Nat /\ DOMAIN Work = 1 .. L
  BY <1>1, WorkIsDivided
<1>3. /\ future = [c \in 1 .. L |-> "new"] /\ next = 1 /\ pending = {} /\ batch = {}
      /\ results = <<>> /\ broken = FALSE /\ pc \in {"filling", "serial"}
  BY <1>2 DEF Init
<1>4. Typed
  <2>1. future \in [1 .. L -> {"new", "queued", "running", "done", "failed"}]
    BY <1>3
  <2>2. results \in Seq(1 .. plan.tasks)
    BY <1>3
  <2>3. next \in 1 .. L + 1 /\ pending \subseteq 1 .. next - 1 /\ batch \subseteq pending
    BY <1>2, <1>3
  <2> QED BY <1>1, <1>3, <2>1, <2>2, <2>3 DEF Typed
<1>5. Submitted /\ InOrder /\ Ends /\ QuietWhenOver
  BY <1>2, <1>3 DEF Submitted, InOrder, Ends, QuietWhenOver, Over
<1>6. ResultsOfCollected
  BY <1>3 DEF ResultsOfCollected, Collected, Entries
<1> QED BY <1>4, <1>5, <1>6 DEF IInv


-------------------------------------------------------------------------------
(* Each action keeps the invariant.                                        *)

LEMMA SerialStepKeeps == ASSUME IInv, SerialStep PROVE IInv'
<1> USE DEF IInv
<1>1. /\ pc = "serial" /\ UNCHANGED <<plan, next, pending, batch, future>>
      /\ Work' = Work /\ L' = L
  BY SamePlan DEF SerialStep
<1>2. /\ results \in Seq(1 .. plan.tasks) /\ plan.tasks \in Nat
      /\ \A i \in DOMAIN results : results[i] = i
      /\ \A c \in 1 .. L : future[c] = "new"
      /\ DOMAIN future = 1 .. L
  BY <1>1 DEF Typed, InOrder
<1>3. Unfinished = {} /\ Unfinished' = {}
  BY <1>1, <1>2 DEF Unfinished
<1>4. /\ results' \in Seq(1 .. plan.tasks) /\ \A i \in DOMAIN results' : results'[i] = i
      /\ pc' \in {"serial", "returned", "raised"} /\ broken' \in BOOLEAN
      /\ pc' = "raised" => broken'
  <2>1. CASE UNCHANGED results
    BY <1>1, <1>2, <2>1 DEF SerialStep, Typed
  <2>2. CASE Len(results) + 1 <= plan.tasks /\ results' = Append(results, Len(results) + 1)
             /\ UNCHANGED <<pc, broken>>
    <3>1. Len(results) \in Nat /\ Len(results) + 1 \in 1 .. plan.tasks
      BY <1>2, <2>2
    <3>2. results' \in Seq(1 .. plan.tasks)
      BY <1>2, <2>2, <3>1
    <3>3. /\ DOMAIN results' = 1 .. Len(results) + 1 /\ DOMAIN results = 1 .. Len(results)
          /\ \A i \in 1 .. Len(results) : results'[i] = results[i]
          /\ results'[Len(results) + 1] = Len(results) + 1
      BY <1>2, <2>2, <3>1
    <3>4. \A i \in DOMAIN results' : results'[i] = i
      BY <1>2, <3>1, <3>3
    <3> QED BY <1>1, <2>2, <3>2, <3>4 DEF Typed
  <2> QED BY <2>1, <2>2 DEF SerialStep
<1>5. Typed'
  BY <1>1, <1>4 DEF Typed
<1>6. Submitted' /\ InOrder' /\ ResultsOfCollected' /\ Ends' /\ QuietWhenOver'
  BY <1>1, <1>2, <1>3, <1>4
     DEF Submitted, InOrder, ResultsOfCollected, Ends, Trouble, QuietWhenOver
<1> QED BY <1>5, <1>6

LEMMA FillKeeps == ASSUME IInv, Fill PROVE IInv'
<1> USE DEF IInv
<1>1. /\ pc = "filling" /\ UNCHANGED <<plan, batch, results, broken>>
      /\ Work' = Work /\ L' = L
  BY SamePlan DEF Fill
<1>2. /\ L \in Nat /\ next \in Nat \ {0} /\ Limit \in Nat \ {0} /\ next \in 1 .. L + 1
      /\ pending \subseteq 1 .. next - 1 /\ batch \subseteq pending
      /\ future \in [1 .. L -> {"new", "queued", "running", "done", "failed"}]
  BY WorkFacts DEF Typed
<1>3. CASE /\ next <= Len(Work) /\ future' = [future EXCEPT ![next] = "queued"]
           /\ pending' = pending \cup {next} /\ next' = next + 1 /\ UNCHANGED pc
  <2>1. /\ next \in 1 .. L /\ next' \in 1 .. L + 1 /\ next' = next + 1
        /\ pending' \subseteq 1 .. next' - 1 /\ batch' \subseteq pending'
    BY <1>1, <1>2, <1>3 DEF L
  <2>2. /\ future' \in [1 .. L -> {"new", "queued", "running", "done", "failed"}]
        /\ \A c \in 1 .. L : c # next => future'[c] = future[c]
    BY <1>2, <1>3, <2>1
  <2>3. Typed'
    BY <1>1, <1>3, <2>1, <2>2 DEF Typed
  <2>4. Submitted'
    BY <1>1, <1>2, <2>1, <2>2 DEF Submitted
  <2>5. Collected' = Collected
    BY <1>2, <1>3, <2>1 DEF Collected
  <2>6. InOrder' /\ ResultsOfCollected' /\ Ends' /\ QuietWhenOver'
    BY <1>1, <1>3, <2>5 DEF InOrder, ResultsOfCollected, Ends, QuietWhenOver, Over
  <2> QED BY <2>3, <2>4, <2>6
<1>4. CASE next <= Len(Work) /\ broken /\ pc' = "raising" /\ UNCHANGED <<future, pending, next>>
  <2>1. Typed' /\ Submitted' /\ InOrder' /\ ResultsOfCollected'
    BY <1>1, <1>4 DEF Typed, Submitted, InOrder, ResultsOfCollected
  <2>2. Ends' /\ QuietWhenOver'
    BY <1>1, <1>4 DEF Ends, Trouble, QuietWhenOver, Over
  <2> QED BY <2>1, <2>2
<1>5. CASE /\ next > Len(Work) \/ Cardinality(pending) >= Limit
           /\ pc' = IF pending = {} THEN "leaving" ELSE "waiting"
           /\ UNCHANGED <<future, pending, next>>
  <2>1. pending = {} => next = L + 1
    <3> SUFFICES ASSUME pending = {} PROVE next = L + 1
      OBVIOUS
    <3>1. Cardinality(pending) = 0
      BY FS_EmptySet
    <3>2. next > L
      BY <1>2, <1>5, <3>1 DEF L
    <3> QED BY <1>2, <3>2
  <2>2. Typed' /\ Submitted' /\ InOrder'
    BY <1>1, <1>5 DEF Typed, Submitted, InOrder
  <2>3. ResultsOfCollected'
    BY <1>1, <1>5 DEF ResultsOfCollected, Collected
  <2>4. Ends' /\ QuietWhenOver'
    BY <1>1, <1>5, <2>1 DEF Ends, Trouble, QuietWhenOver, Over
  <2> QED BY <2>2, <2>3, <2>4
<1> QED BY <1>3, <1>4, <1>5 DEF Fill

LEMMA WaitKeeps == ASSUME IInv, Wait PROVE IInv'
<1> USE DEF IInv
<1>1. /\ pc = "waiting" /\ pc' = "collecting" /\ batch' = pending \cap Finished
      /\ UNCHANGED <<plan, next, pending, future, results, broken>>
      /\ Work' = Work /\ L' = L
  BY SamePlan DEF Wait
<1>2. Typed' /\ Submitted' /\ InOrder'
  BY <1>1 DEF Typed, Submitted, InOrder
<1>3. ResultsOfCollected' /\ Ends' /\ QuietWhenOver'
  BY <1>1 DEF ResultsOfCollected, Collected, Ends, QuietWhenOver, Over
<1> QED BY <1>2, <1>3

LEMMA CollectKeeps == ASSUME IInv, Collect PROVE IInv'
<1> USE DEF IInv
<1>1. /\ pc = "collecting" /\ UNCHANGED <<plan, next, future, broken>>
      /\ Work' = Work /\ L' = L
  BY SamePlan DEF Collect
<1>2. PICK c \in batch :
        /\ pending' = pending \ {c} /\ batch' = batch \ {c}
        /\ \/ /\ future[c] = "done" /\ results' = results \o Work[c]
              /\ pc' \in {"filling", "collecting"}
           \/ /\ future[c] = "failed" /\ pc' = "raising" /\ UNCHANGED results
  BY DEF Collect
<1>3. /\ L \in Nat /\ next \in 1 .. L + 1 /\ c \in 1 .. next - 1 /\ c \in 1 .. L
      /\ c \in pending /\ DOMAIN future = 1 .. L
      /\ pending \subseteq 1 .. next - 1 /\ batch \subseteq pending
      /\ results \in Seq(1 .. plan.tasks) /\ Work[c] \in Seq(1 .. plan.tasks)
  <2>1. /\ L \in Nat /\ next \in 1 .. L + 1 /\ DOMAIN future = 1 .. L
        /\ pending \subseteq 1 .. next - 1 /\ batch \subseteq pending
        /\ results \in Seq(1 .. plan.tasks)
    BY WorkFacts DEF Typed
  <2>2. c \in 1 .. next - 1 /\ c \in 1 .. L /\ c \in pending
    BY <1>2, <2>1
  <2>3. Work[c] \in Seq(1 .. plan.tasks)
    BY <2>2, WorkFacts
  <2> QED BY <2>1, <2>2, <2>3
<1>4. batch' \subseteq pending' /\ pending' \subseteq 1 .. next - 1
  BY <1>2, <1>3
<1>5. Submitted'
  BY <1>1 DEF Submitted
<1>6. CASE /\ results' = results \o Work[c] /\ pc' \in {"filling", "collecting"}
  <2>1. /\ results' \in Seq(1 .. plan.tasks)
        /\ Entries(results') = Entries(results) \cup Entries(Work[c])
    BY <1>3, <1>6, Appended
  <2>2. Typed'
    BY <1>1, <1>4, <1>6, <2>1 DEF Typed
  <2>3. Collected' = Collected \cup {c}
    BY <1>1, <1>2, <1>3 DEF Collected
  <2>4. Entries(results) = UNION {Entries(Work[d]) : d \in Collected}
    BY <1>1 DEF ResultsOfCollected
  <2>5. Entries(results') = UNION {Entries(Work[d]) : d \in Collected'}
    BY <2>1, <2>3, <2>4
  <2>6. ResultsOfCollected'
    <3>1. Entries(results)' = Entries(results')
      BY DEF Entries
    <3>2. {Entries(Work[d]) : d \in Collected}' = {Entries(Work[d]) : d \in Collected'}
      BY <1>1 DEF Entries
    <3> QED BY <2>5, <3>1, <3>2 DEF ResultsOfCollected
  <2>7. InOrder' /\ Ends' /\ QuietWhenOver'
    BY <1>6 DEF InOrder, Ends, QuietWhenOver, Over
  <2> QED BY <1>5, <2>2, <2>6, <2>7
<1>7. CASE future[c] = "failed" /\ pc' = "raising" /\ UNCHANGED results
  <2>1. Typed'
    BY <1>1, <1>4, <1>7 DEF Typed
  <2>2. Trouble'
    BY <1>1, <1>3, <1>7 DEF Trouble
  <2>3. InOrder' /\ Ends' /\ QuietWhenOver' /\ ResultsOfCollected'
    BY <1>7, <2>2 DEF InOrder, Ends, QuietWhenOver, Over, ResultsOfCollected
  <2> QED BY <1>5, <2>1, <2>3
<1> QED BY <1>2, <1>6, <1>7

LEMMA LeaveKeeps == ASSUME IInv, Leave PROVE IInv'
<1> USE DEF IInv
<1>1. /\ pc \in {"leaving", "raising"} /\ Unfinished = {}
      /\ pc' = IF pc = "leaving" THEN "returned" ELSE "raised"
      /\ UNCHANGED <<plan, next, pending, batch, future, results, broken>>
      /\ Work' = Work /\ L' = L
  BY SamePlan DEF Leave
<1>2. Typed' /\ Submitted' /\ InOrder'
  BY <1>1 DEF Typed, Submitted, InOrder
<1>3. Unfinished' = {}
  BY <1>1 DEF Unfinished
<1>4. ResultsOfCollected' /\ Ends' /\ QuietWhenOver'
  BY <1>1, <1>3 DEF ResultsOfCollected, Ends, Trouble, QuietWhenOver, Over
<1> QED BY <1>2, <1>4

(* A step of the executor changes futures that were submitted only, and    *)
(* takes none back that failed.                                            *)
LEMMA FuturesMove ==
  ASSUME IInv, Start \/ (\E c \in DOMAIN future : Finish(c)) \/ Break
  PROVE  /\ ~Over /\ UNCHANGED <<plan, pc, next, pending, batch, results>>
         /\ broken => broken'
         /\ broken' \in BOOLEAN
         /\ future' \in [1 .. L -> {"new", "queued", "running", "done", "failed"}]
         /\ \A c \in 1 .. L : /\ future[c] = "new" => future'[c] = "new"
                              /\ future[c] = "failed" => future'[c] = "failed"
<1> USE DEF IInv
<1>1. /\ future \in [1 .. L -> {"new", "queued", "running", "done", "failed"}]
      /\ broken \in BOOLEAN /\ DOMAIN future = 1 .. L
  BY DEF Typed
<1>2. CASE Start
  <2>1. PICK c \in Unfinished : future[c] = "queued" /\ future' = [future EXCEPT ![c] = "running"]
    BY <1>2 DEF Start
  <2>2. c \in 1 .. L
    BY <1>1, <2>1 DEF Unfinished
  <2>3. ~Over
    BY <2>1 DEF QuietWhenOver
  <2> QED BY <1>1, <1>2, <2>1, <2>2, <2>3 DEF Start
<1>3. CASE \E c \in DOMAIN future : Finish(c)
  <2>1. PICK c \in DOMAIN future : Finish(c)
    BY <1>3
  <2>2. PICK v \in {"failed", "done"} : future' = [future EXCEPT ![c] = v]
    BY <2>1 DEF Finish
  <2>3. c \in Unfinished /\ c \in 1 .. L /\ future[c] = "running"
    BY <1>1, <2>1 DEF Unfinished, Finish
  <2>4. ~Over
    BY <2>3 DEF QuietWhenOver
  <2> QED BY <1>1, <2>1, <2>2, <2>3, <2>4 DEF Finish
<1>4. CASE Break
  <2>1. /\ future' = [c \in 1 .. L |-> IF c \in Unfinished THEN "failed" ELSE future[c]]
        /\ ~Over /\ broken' = TRUE /\ UNCHANGED <<plan, pc, next, pending, batch, results>>
    BY <1>1, <1>4 DEF Break
  <2>2. \A c \in 1 .. L : future[c] = "new" => c \notin Unfinished
    BY DEF Unfinished
  <2> QED BY <1>1, <2>1, <2>2
<1> QED BY <1>2, <1>3, <1>4

LEMMA ExecutorKeeps ==
  ASSUME IInv, Start \/ (\E c \in DOMAIN future : Finish(c)) \/ Break
  PROVE  IInv'
<1> USE DEF IInv
<1>1. /\ ~Over /\ UNCHANGED <<plan, pc, next, pending, batch, results>>
      /\ (broken => broken') /\ broken' \in BOOLEAN
      /\ future' \in [1 .. L -> {"new", "queued", "running", "done", "failed"}]
      /\ \A c \in 1 .. L : /\ future[c] = "new" => future'[c] = "new"
                           /\ future[c] = "failed" => future'[c] = "failed"
  BY FuturesMove
<1>2. Work' = Work /\ L' = L
  BY <1>1, SamePlan
<1>3. DOMAIN future = 1 .. L /\ DOMAIN future' = 1 .. L /\ L \in Nat /\ next \in Nat \ {0}
  BY <1>1, WorkFacts
<1>4. Typed'
  <2>1. /\ plan.tasks \in Nat /\ plan.workers \in Nat \ {0}
        /\ plan.chunkSize \in Int /\ plan.maxPending \in Int
        /\ pc \in {"serial", "filling", "waiting", "collecting", "leaving", "raising",
                   "returned", "raised"}
        /\ next \in 1 .. L + 1 /\ pending \subseteq 1 .. next - 1 /\ batch \subseteq pending
        /\ results \in Seq(1 .. plan.tasks)
    BY DEF Typed
  <2>2. /\ next' \in 1 .. L' + 1 /\ pending' \subseteq 1 .. next' - 1 /\ batch' \subseteq pending'
        /\ future' \in [1 .. L' -> {"new", "queued", "running", "done", "failed"}]
    BY <1>1, <1>2, <2>1
  <2>3. /\ plan' = plan /\ pc' = pc /\ results' = results
    BY <1>1
  <2> HIDE DEF IInv
  <2> QED BY <1>1, <2>1, <2>2, <2>3 DEF Typed
<1>5. Submitted' /\ InOrder'
  BY <1>1, <1>2, <1>3 DEF Submitted, InOrder
<1>6. ResultsOfCollected'
  BY <1>1, <1>2 DEF ResultsOfCollected, Collected
<1>7. Ends' /\ QuietWhenOver'
  <2>1. Trouble => Trouble'
    BY <1>1, <1>3 DEF Trouble
  <2> QED BY <1>1, <1>2, <2>1 DEF Ends, QuietWhenOver, Over
<1> QED BY <1>4, <1>5, <1>6, <1>7

LEMMA NothingChanges == ASSUME IInv, UNCHANGED vars PROVE IInv'
<1>1. /\ UNCHANGED <<plan, pc, next, pending, batch, future, results, broken>>
      /\ Work' = Work /\ L' = L
  BY SamePlan DEF vars
<1>2. Typed' /\ Submitted' /\ InOrder'
  BY <1>1 DEF IInv, Typed, Submitted, InOrder
<1>3. ResultsOfCollected' /\ Ends' /\ QuietWhenOver'
  BY <1>1 DEF IInv, ResultsOfCollected, Collected, Ends, Trouble, QuietWhenOver, Over, Unfinished
<1> QED BY <1>2, <1>3 DEF IInv

LEMMA Inductive == Spec => []IInv
<1>1. Init => IInv
  BY InitIsSound
<1>2. IInv /\ [Next]_vars => IInv'
  <2> SUFFICES ASSUME IInv, [Next]_vars PROVE IInv'
    OBVIOUS
  <2>1. CASE SerialStep
    BY <2>1, SerialStepKeeps
  <2>2. CASE Fill
    BY <2>2, FillKeeps
  <2>3. CASE Wait
    BY <2>3, WaitKeeps
  <2>4. CASE Collect
    BY <2>4, CollectKeeps
  <2>5. CASE Leave
    BY <2>5, LeaveKeeps
  <2>6. CASE Executor \/ Break
    BY <2>6, ExecutorKeeps DEF Executor
  <2>7. CASE Done \/ UNCHANGED vars
    BY <2>7, NothingChanges DEF Done
  <2> QED BY <2>1, <2>2, <2>3, <2>4, <2>5, <2>6, <2>7 DEF Next, Parent
<1> QED BY <1>1, <1>2, PTL DEF Spec

-------------------------------------------------------------------------------
(* Whose results are in, by the first task of a chunk: exactly those of the*)
(* collected chunks.                                                       *)
LEMMA FirstTasks ==
  ASSUME IInv, pc \in {"filling", "waiting", "collecting", "leaving"}
  PROVE  /\ \A c \in 1 .. L : Work[c][1] \in Entries(results) <=> c \in Collected
         /\ \A c \in pending : Entries(Work[c]) \cap Entries(results) = {}
<1>1. /\ L \in Nat /\ next \in 1 .. L + 1 /\ pending \subseteq 1 .. next - 1
      /\ Entries(results) = UNION {Entries(Work[c]) : c \in Collected}
  BY WorkFacts DEF IInv, Typed, ResultsOfCollected
<1>2. Collected \subseteq 1 .. L /\ pending \subseteq 1 .. L
  BY <1>1 DEF Collected
<1>3. \A c, d \in 1 .. L : c # d => Entries(Work[c]) \cap Entries(Work[d]) = {}
  BY WorkFacts
<1>4. \A c \in 1 .. L : Work[c][1] \in Entries(Work[c])
  BY WorkFacts DEF Entries
<1>5. ASSUME NEW c \in 1 .. L PROVE Work[c][1] \in Entries(results) <=> c \in Collected
  <2>1. \A d \in Collected : Work[c][1] \in Entries(Work[d]) => c = d
    BY <1>2, <1>3, <1>4
  <2>2. c \in Collected => Work[c][1] \in Entries(results)
    BY <1>1, <1>4
  <2>3. Work[c][1] \in Entries(results) => \E d \in Collected : Work[c][1] \in Entries(Work[d])
    BY <1>1
  <2> QED BY <2>1, <2>2, <2>3
<1>6. ASSUME NEW c \in pending PROVE Entries(Work[c]) \cap Entries(results) = {}
  <2>1. c \in 1 .. L /\ c \notin Collected
    BY <1>2 DEF Collected
  <2> QED BY <1>1, <1>2, <1>3, <2>1
<1> QED BY <1>5, <1>6

(* As long as nothing failed, a submitted chunk is either waited for or its*)
(* results are in, and never both, however the futures complete while the  *)
(* loop of evaluate_force_tasks looks at others.                           *)
THEOREM NoChunkIsLost == Spec => []EveryChunkAccounted
<1>1. IInv => EveryChunkAccounted
  <2> SUFFICES ASSUME IInv, pc \in {"filling", "waiting", "collecting", "leaving"}
               PROVE  /\ next - 1 = Cardinality(pending \cup
                           {c \in DOMAIN Work : Work[c][1] \in ToSet(results)})
                      /\ \A c \in pending : ToSet(Work[c]) \cap ToSet(results) = {}
    BY DEF EveryChunkAccounted
  <2>1. /\ L \in Nat /\ next \in 1 .. L + 1 /\ pending \subseteq 1 .. next - 1
        /\ DOMAIN Work = 1 .. L
    BY WorkFacts DEF IInv, Typed
  <2>2. \A s : ToSet(s) = Entries(s)
    BY DEF ToSet, Entries
  <2>3. pending \cup {c \in DOMAIN Work : Work[c][1] \in ToSet(results)} = 1 .. next - 1
    <3>1. {c \in DOMAIN Work : Work[c][1] \in ToSet(results)} = Collected
      <4>1. \A c \in 1 .. L : Work[c][1] \in Entries(results) <=> c \in Collected
        BY FirstTasks
      <4>2. Collected \subseteq 1 .. L
        BY <2>1 DEF Collected
      <4> QED BY <2>1, <2>2, <4>1, <4>2
    <3> QED BY <2>1, <3>1 DEF Collected
  <2>4. Cardinality(1 .. next - 1) = next - 1
    <3>1. next - 1 \in Nat
      BY <2>1
    <3> DEFINE k == next - 1
    <3>2. k \in Nat /\ 1 \in Int
      BY <3>1
    <3> HIDE DEF k
    <3>3. Cardinality(1 .. k) = IF 1 > k THEN 0 ELSE k - 1 + 1
      BY <3>2, FS_Interval
    <3>4. Cardinality(1 .. k) = k
      BY <3>2, <3>3
    <3> QED BY <3>4 DEF k
  <2> QED BY <2>2, <2>3, <2>4, FirstTasks
<1> QED BY <1>1, Inductive, PTL

(* Whichever way the batch ends, no chunk of it is computed any more when  *)
(* evaluate_force_tasks is left.                                           *)
THEOREM NothingRunsAfterwards == Spec => []QuietWhenOver
<1>1. IInv => QuietWhenOver
  BY DEF IInv
<1> QED BY <1>1, Inductive, PTL

-------------------------------------------------------------------------------
(* The refinement: what the workflow sees of the batch.                    *)

LEMMA TroubleStays ==
  ASSUME IInv, [Next]_vars
  PROVE  UNCHANGED plan /\ (Trouble => Trouble')
<1>1. DOMAIN future = 1 .. L /\ L \in Nat /\ next \in Nat \ {0}
  BY WorkFacts
<1>2. CASE SerialStep
  BY <1>2 DEF SerialStep, Trouble
<1>3. CASE Fill
  <2>1. CASE next <= Len(Work) /\ future' = [future EXCEPT ![next] = "queued"]
    <3>1. next \in 1 .. L /\ future[next] = "new"
      BY <1>1, <2>1 DEF L, IInv, Submitted
    <3>2. \A c \in 1 .. L : c # next => future'[c] = future[c]
      BY <1>1, <2>1
    <3>3. DOMAIN future' = 1 .. L
      BY <1>1, <2>1
    <3> QED BY <1>1, <1>3, <3>1, <3>2, <3>3 DEF Fill, Trouble
  <2>2. CASE UNCHANGED future
    BY <1>3, <2>2 DEF Fill, Trouble
  <2> QED BY <1>3, <2>1, <2>2 DEF Fill
<1>4. CASE Wait \/ Collect \/ Leave \/ Done \/ UNCHANGED vars
  BY <1>4 DEF Wait, Collect, Leave, Done, vars, Trouble
<1>5. CASE Executor \/ Break
  <2>1. /\ UNCHANGED plan /\ (broken => broken')
        /\ DOMAIN future' = 1 .. L
        /\ \A c \in 1 .. L : future[c] = "failed" => future'[c] = "failed"
    BY <1>5, FuturesMove DEF Executor
  <2>2. ASSUME NEW c \in DOMAIN future, future[c] = "failed" PROVE Trouble'
    <3>1. c \in DOMAIN future' /\ future'[c] = "failed"
      BY <1>1, <2>1, <2>2
    <3> QED BY <3>1 DEF Trouble
  <2>3. broken => Trouble'
    BY <2>1 DEF Trouble
  <2> QED BY <2>1, <2>2, <2>3 DEF Trouble
<1> QED BY <1>2, <1>3, <1>4, <1>5 DEF Next, Parent

LEMMA CollectsMore ==
  ASSUME NEW r \in Seq(1 .. plan.tasks), results \in Seq(1 .. plan.tasks),
         results' = results \o r,
         \A i, k \in DOMAIN r : r[i] = r[k] => i = k,
         Entries(r) \cap Entries(results) = {}
  PROVE  Batch!Collect
<1> DEFINE fresh == SubSeq(results', Len(results) + 1, Len(results'))
<1>1. fresh = r
  BY Appended
<1>2. \A i \in DOMAIN r : r[i] \in 1 .. plan.tasks
  BY EntriesOfSeq
<1>3. Batch!EntriesOf(r) \subseteq (1 .. plan.tasks) \ Batch!EntriesOf(results)
  BY <1>2 DEF Batch!EntriesOf, Entries
<1> HIDE DEF fresh
<1>4. /\ results' = results \o fresh
      /\ \A i, k \in DOMAIN fresh : fresh[i] = fresh[k] => i = k
      /\ Batch!EntriesOf(fresh) \subseteq (1 .. plan.tasks) \ Batch!EntriesOf(results)
  BY <1>1, <1>3
<1> QED BY <1>4 DEF Batch!Collect, fresh

LEMMA SerialStepIsABatchStep ==
  ASSUME IInv, SerialStep
  PROVE  /\ ~Over
         /\ Batch!Collect \/ UNCHANGED results
         /\ \/ UNCHANGED Outcome
            \/ Outcome' = "returned" /\ Batch!EntriesOf(results') = 1 .. plan.tasks
            \/ Outcome' = "raised" /\ Trouble'
<1>1. /\ pc = "serial" /\ ~Over /\ plan.tasks \in Nat /\ results \in Seq(1 .. plan.tasks)
      /\ \A i \in DOMAIN results : results[i] = i
  BY DEF SerialStep, Over, IInv, Typed, InOrder
<1>2. /\ Len(results) \in Nat /\ DOMAIN results = 1 .. Len(results)
      /\ \A i \in DOMAIN results : results[i] \in 1 .. plan.tasks
  BY <1>1
<1>3. CASE Len(results) + 1 > plan.tasks /\ pc' = "returned" /\ UNCHANGED results
  <2>1. Len(results) = plan.tasks
    <3> SUFFICES ASSUME Len(results) # 0 PROVE Len(results) <= plan.tasks
      BY <1>1, <1>2, <1>3
    <3>1. results[Len(results)] = Len(results) /\ Len(results) \in DOMAIN results
      BY <1>1, <1>2
    <3>2. Len(results) \in 1 .. plan.tasks
      BY <1>2, <3>1
    <3> QED BY <3>2
  <2>2. Batch!EntriesOf(results) = 1 .. plan.tasks
    BY <1>1, <1>2, <2>1 DEF Batch!EntriesOf
  <2> QED BY <1>1, <1>3, <2>2 DEF Outcome, Over
<1>4. CASE /\ Len(results) + 1 <= plan.tasks
           /\ results' = Append(results, Len(results) + 1) /\ UNCHANGED pc
  <2> DEFINE r == <<Len(results) + 1>>
  <2>1. Len(results) + 1 \in 1 .. plan.tasks
    BY <1>2, <1>4
  <2>2. r \in Seq(1 .. plan.tasks) /\ DOMAIN r = {1} /\ r[1] = Len(results) + 1
    BY <2>1
  <2>3. results' = results \o r
    BY <1>1, <1>4, <2>1
  <2> HIDE DEF r
  <2>4. Entries(r) \cap Entries(results) = {}
    BY <1>1, <1>2, <2>2 DEF Entries
  <2>5. Batch!Collect
    BY <1>1, <2>2, <2>3, <2>4, CollectsMore
  <2> QED BY <1>1, <1>4, <2>5 DEF Outcome, Over
<1>5. CASE pc' = "raised" /\ broken' /\ UNCHANGED results
  BY <1>1, <1>5 DEF Outcome, Over, Trouble
<1> QED BY <1>1, <1>3, <1>4, <1>5 DEF SerialStep

LEMMA CollectIsABatchStep ==
  ASSUME IInv, Collect
  PROVE  /\ ~Over /\ UNCHANGED Outcome
         /\ Batch!Collect \/ UNCHANGED results
<1>1. ~Over /\ UNCHANGED Outcome /\ pc = "collecting"
  BY DEF Collect, Over, Outcome
<1>2. PICK c \in batch : results' = results \o Work[c] \/ UNCHANGED results
  BY DEF Collect
<1>3. CASE results' = results \o Work[c]
  <2>1. c \in pending /\ c \in 1 .. L /\ results \in Seq(1 .. plan.tasks)
    <3>1. /\ L \in Nat /\ next \in 1 .. L + 1 /\ pending \subseteq 1 .. next - 1
          /\ batch \subseteq pending /\ results \in Seq(1 .. plan.tasks)
      BY WorkFacts DEF IInv, Typed
    <3> QED BY <3>1
  <2>2. /\ Work[c] \in Seq(1 .. plan.tasks)
        /\ \A i, k \in DOMAIN Work[c] : Work[c][i] = Work[c][k] => i = k
    BY <2>1, WorkFacts
  <2>3. Entries(Work[c]) \cap Entries(results) = {}
    BY <1>1, <2>1, FirstTasks
  <2>4. Batch!Collect
    BY <1>3, <2>1, <2>2, <2>3, CollectsMore
  <2> QED BY <1>1, <2>4
<1> QED BY <1>1, <1>2, <1>3

LEMMA LeaveIsABatchStep ==
  ASSUME IInv, Leave
  PROVE  /\ ~Over /\ UNCHANGED results
         /\ \/ Outcome' = "returned" /\ Batch!EntriesOf(results') = 1 .. plan.tasks
            \/ Outcome' = "raised" /\ Trouble'
<1>1. ~Over /\ UNCHANGED <<plan, results, broken, future>>
  BY DEF Leave, Over
<1>2. CASE pc = "leaving"
  <2>1. next = L + 1 /\ pending = {} /\ L \in Nat
        /\ Entries(results) = UNION {Entries(Work[c]) : c \in Collected}
    BY <1>2, WorkFacts DEF IInv, Ends, ResultsOfCollected
  <2>2. Collected = 1 .. L
    BY <2>1 DEF Collected
  <2>3. UNION {Entries(Work[c]) : c \in 1 .. L} = 1 .. plan.tasks
    BY WorkFacts
  <2>4. Entries(results) = 1 .. plan.tasks
    BY <2>1, <2>2, <2>3
  <2> QED BY <1>1, <1>2, <2>4 DEF Leave, Outcome, Over, Batch!EntriesOf, Entries
<1>3. CASE pc = "raising"
  BY <1>1, <1>3 DEF Leave, Outcome, Over, IInv, Ends, Trouble
<1> QED BY <1>2, <1>3 DEF Leave

LEMMA OtherStepsAreBatchSteps ==
  ASSUME IInv, Fill \/ Wait \/ Executor \/ Break \/ Done \/ UNCHANGED vars
  PROVE  UNCHANGED <<results, Outcome>>
<1>1. CASE Fill
  BY <1>1 DEF Fill, Outcome, Over
<1>2. CASE Wait \/ Done \/ UNCHANGED vars
  BY <1>2 DEF Wait, Done, vars, Outcome, Over
<1>3. CASE Executor \/ Break
  BY <1>3, FuturesMove DEF Executor, Outcome, Over
<1> QED BY <1>1, <1>2, <1>3

(* evaluate_force_tasks is a ForceBatch, with the loop in this process and *)
(* with the pool: it collects the result of every task once, returns only  *)
(* when it has them all, and raises only if a task or a process failed.    *)
THEOREM ProcessPoolIsForceBatch == Spec => IsForceBatch
<1>1. ASSUME Init PROVE Batch!Init
  <2>1. plan.tasks \in Nat /\ results = <<>> /\ ~Over /\ ~Trouble
    <3>1. IInv
      BY <1>1, InitIsSound
    <3>2. plan.tasks \in Nat /\ DOMAIN future = 1 .. L /\ DOMAIN Work = 1 .. L
      BY <3>1, WorkFacts DEF IInv, Typed
    <3> QED BY <1>1, <3>2 DEF Init, Over, Trouble
  <2> QED BY <2>1 DEF Batch!Init, Trouble
<1>2. ASSUME IInv, [Next]_vars PROVE [Batch!Next]_Batch!vars
  <2>1. UNCHANGED plan /\ (Trouble => Trouble')
    BY <1>2, TroubleStays
  <2>2. \/ SerialStep \/ Collect \/ Leave
        \/ Fill \/ Wait \/ Executor \/ Break \/ Done \/ UNCHANGED vars
    BY <1>2 DEF Next, Parent
  <2>3. ~Over => Outcome = "computing"
    BY DEF Outcome
  <2>4. /\ \/ Outcome = "computing" /\ Batch!Collect
           \/ UNCHANGED results
        /\ \/ UNCHANGED Outcome
           \/ /\ Outcome = "computing" /\ Outcome' = "returned"
              /\ Batch!EntriesOf(results') = 1 .. plan.tasks
           \/ Outcome = "computing" /\ Outcome' = "raised" /\ Trouble'
    <3>1. CASE SerialStep
      BY <1>2, <2>3, <3>1, SerialStepIsABatchStep
    <3>2. CASE Collect
      BY <1>2, <2>3, <3>2, CollectIsABatchStep
    <3>3. CASE Leave
      BY <1>2, <2>3, <3>3, LeaveIsABatchStep
    <3>4. CASE Fill \/ Wait \/ Executor \/ Break \/ Done \/ UNCHANGED vars
      BY <1>2, <3>4, OtherStepsAreBatchSteps
    <3> QED BY <2>2, <3>1, <3>2, <3>3, <3>4
  <2>5. Batch!Next
    BY <2>1, <2>4 DEF Batch!Next, Trouble, Outcome
  <2> QED BY <2>5
<1> QED BY <1>1, <1>2, Inductive, PTL DEF Spec, IsForceBatch, Batch!Spec
===============================================================================
