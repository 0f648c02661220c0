----------------------------- MODULE FifoSlotPool -----------------------------
(***************************************************************************)
(* What the CPU queue promises, whatever its clients do: there is a line   *)
(* of jobs and a set of holders.  In one step holders may go, jobs may     *)
(* leave the line, one that was not in it may join at the end, and then    *)
(* jobs may be admitted, only from the front and only if all holders       *)
(* together are within the limits of whoever admits them.  Those who stay  *)
(* in line keep their order.                                               *)
(***************************************************************************)
EXTENDS Sublists

CONSTANTS Job,
          Limits     \* the policies in use: records with total and maxRunning

VARIABLES waiting,   \* the jobs in line, the next one first
          holders    \* the admitted jobs, each with its slots

vars == <<waiting, holders>>

Init == waiting = <<>> /\ holders = {}

JobsIn(line) == {line[i] : i \in DOMAIN line}
JobsOf(H)    == {h.job : h \in H}
Taken(H)     == Cardinality(UNION {{h.job} \X (1 .. h.slots) : h \in H})

Within(H, limit) ==
  Cardinality(H) <= limit.maxRunning /\ Taken(H) <= limit.total

(* The first k of the line come in next to those who stayed.               *)
Admit(line, k, stayed) ==
  LET admitted == holders' \ stayed
  IN /\ waiting' = SubSeq(line, k + 1, Len(line))
     /\ stayed \subseteq holders'
     /\ Cardinality(admitted) = k
     /\ JobsOf(admitted) = JobsIn(SubSeq(line, 1, k))
     /\ k > 0 => \E limit \in Limits : Within(holders', limit)

Move(gone, ended, joining, k) ==
  LET rest   == KeepAt(waiting, {i \in DOMAIN waiting : waiting[i] \notin gone})
      stayed == holders \ ended
  IN /\ JobsIn(joining) \cap (JobsIn(waiting) \cup JobsOf(stayed)) = {}
     /\ k <= Len(rest \o joining)
     /\ Admit(rest \o joining, k, stayed)

Next ==
  \E gone \in SUBSET JobsIn(waiting), ended \in SUBSET holders,
     joining \in {<<>>} \cup {<<j>> : j \in Job}, k \in 0 .. Len(waiting) + 1 :
    Move(gone, ended, joining, k)

Spec == Init /\ [][Next]_vars
===============================================================================
