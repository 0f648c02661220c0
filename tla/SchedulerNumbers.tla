---------------------------- MODULE SchedulerNumbers ----------------------------
(***************************************************************************)
(* The numbers of phonoflow_scheduler/config.py: options that may not be   *)
(* given, and the smallest value every count is raised to.                 *)
(***************************************************************************)
EXTENDS Integers

None == 0       \* an option that was not given; a given one is at least 1

Larger(a, b)  == IF a >= b THEN a ELSE b
Smaller(a, b) == IF a <= b THEN a ELSE b

(* clean_positive_int on an integer.                                       *)
CleanPositiveInt(v) == Larger(1, v)
===============================================================================
