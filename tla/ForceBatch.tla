------------------------------ MODULE ForceBatch ------------------------------
(***************************************************************************)
(* What a force scheduler promises the workflow that hands it a batch of   *)
(* displaced structures, however many processes it computes them with: it  *)
(* collects the result of every task once, it returns when it has them     *)
(* all, and it raises an exception only if something went wrong.           *)
(***************************************************************************)
EXTENDS Integers, Sequences

VARIABLES size,       \* how many tasks there are
          results,    \* the collected results, named by their tasks
          trouble,    \* a task failed, a process died or was not started
          outcome     \* "computing", "returned" or "raised"

vars == <<size, results, trouble, outcome>>

EntriesOf(s) == {s[i] : i \in DOMAIN s}

Init ==
  /\ size \in Nat
  /\ results = <<>>
  /\ trouble = FALSE
  /\ outcome = "computing"

(* Results of tasks that were not collected before are added.              *)
Collect ==
  LET fresh == SubSeq(results', Len(results) + 1, Len(results'))
  IN /\ results' = results \o fresh
     /\ \A i, k \in DOMAIN fresh : fresh[i] = fresh[k] => i = k
     /\ EntriesOf(fresh) \subseteq (1 .. size) \ EntriesOf(results)

Next ==
  /\ UNCHANGED size
  /\ trouble => trouble'
  /\ \/ outcome = "computing" /\ Collect
     \/ UNCHANGED results
  /\ \/ UNCHANGED outcome
     \/ outcome = "computing" /\ outcome' = "returned" /\ EntriesOf(results') = 1 .. size
     \/ outcome = "computing" /\ outcome' = "raised" /\ trouble'

Spec == Init /\ [][Next]_vars
===============================================================================
