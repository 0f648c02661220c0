---------------------------- MODULE CpuQueueConfig ----------------------------
(***************************************************************************)
(* The slot arithmetic of phonoflow_scheduler/cpu_queue_config.py: how raw *)
(* option values become the policy a queue works with, and how a job's     *)
(* request is clamped by that policy.                                      *)
(*                                                                         *)
(* Times (poll interval, stale age, timeout) are not represented here: the *)
(* queue's model lets them elapse nondeterministically.                    *)
(***************************************************************************)
EXTENDS SchedulerNumbers

(* A slip: the maximum is not raised to the minimum.                       *)
FromValuesMaxUnderMin(total, maxRunning, default, min, max) ==
  [ total        |-> CleanPositiveInt(total),
    maxRunning   |-> CleanPositiveInt(maxRunning),
    minSlots     |-> CleanPositiveInt(min),
    defaultSlots |-> Smaller(Larger(CleanPositiveInt(min), CleanPositiveInt(default)),
                             CleanPositiveInt(total)),
    maxSlots     |-> IF max = None THEN None
                     ELSE Smaller(CleanPositiveInt(max), CleanPositiveInt(total)) ]

(* CpuQueueConfig.from_values for an enabled queue: every combination of   *)
(* numbers is accepted, and pulled into shape in the order of the code.    *)
FromValues(total, maxRunning, default, min, max) ==
  LET minSlots == CleanPositiveInt(min)
      floored  == Larger(minSlots, CleanPositiveInt(default))
      capped   == Larger(minSlots, CleanPositiveInt(max))
  IN [ total        |-> CleanPositiveInt(total),
       maxRunning   |-> CleanPositiveInt(maxRunning),
       minSlots     |-> minSlots,
       defaultSlots |-> Smaller(IF max = None THEN floored
                                              ELSE Smaller(floored, capped),
                                CleanPositiveInt(total)),
       maxSlots     |-> IF max = None THEN None
                        ELSE Smaller(capped, CleanPositiveInt(total)) ]

(* The policy cli.py builds from the four --cpu-queue-* options: the slots *)
(* of this process's job are both its default and its maximum.             *)
CliConfig(total, maxRunning, jobSlots) ==
  FromValues(total, maxRunning, jobSlots, 1, jobSlots)

(* Slips: a maximum that was not given taken for a maximum of none, and    *)
(* the size of the pool forgotten.                                         *)
JobSlotsCappedByNone(slots, cfg) ==
  Smaller(Smaller(Larger(cfg.minSlots, slots), cfg.maxSlots), cfg.total)

JobSlotsBeyondPool(slots, cfg) ==
  IF cfg.maxSlots = None THEN Larger(cfg.minSlots, slots)
  ELSE Smaller(Larger(cfg.minSlots, slots), cfg.maxSlots)

(* normalize_job_slots for a request that carries a number.                *)
JobSlots(slots, cfg) ==
  LET floored == Larger(cfg.minSlots, CleanPositiveInt(slots))
      capped  == IF cfg.maxSlots = None THEN floored
                                        ELSE Smaller(floored, cfg.maxSlots)
  IN CleanPositiveInt(Smaller(capped, cfg.total))

(* What from_values returns, as a set.                                     *)
Policy == [ total: Nat \ {0}, maxRunning: Nat \ {0}, minSlots: Nat \ {0},
            defaultSlots: Nat \ {0}, maxSlots: Nat ]
===============================================================================
