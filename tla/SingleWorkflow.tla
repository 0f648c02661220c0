---------------------------- MODULE SingleWorkflow ----------------------------
(***************************************************************************)
(* run_single_workflow of workflow/pipeline.py, called again and again over*)
(* output paths that keep what earlier runs left there: new runs, runs that*)
(* overwrite, resume or only try, and any of them cut short by an exception*)
(* or a kill at any point.                                                 *)
(*                                                                         *)
(* Several runs may be active, but no two with one output path: nothing in *)
(* the code keeps them apart.                                              *)
(***************************************************************************)
EXTENDS OutputDirectory

CONSTANTS
  LastRun,         \* runs are numbered from 1 to this
  Bases,           \* the output paths the users give
  Configs          \* the configurations they use

ASSUME WorkflowAssumption ==
  /\ LastRun \in Nat
  /\ Configs \subseteq ConfigsAt(Bases)

Runs    == 1 .. LastRun
Dirs    == Bases \X (0 .. LastRun)

VARIABLES
  disk,            \* the directories
  second,          \* the time, as far as it is in the names of directories
  pc,              \* where each run is
  conf,            \* its configuration
  dir,             \* its output directory
  pos,             \* how many steps of writing it has done
  report           \* the run whose result it returns

vars == <<disk, second, pc, conf, dir, pos, report>>

Over   == {"success", "dry-run", "skipped", "stopped"}
Active == {r \in Runs : pc[r] \notin Over \cup {"new"}}

Init ==
  /\ disk = [d \in Dirs |-> EmptyDir]
  /\ second = 0
  /\ pc = [r \in Runs |-> "new"]
  /\ conf = [r \in Runs |-> CHOOSE c \in Configs : TRUE]
  /\ dir = [r \in Runs |-> <<conf[r].base, 0>>]
  /\ pos = [r \in Runs |-> 0]
  /\ report = [r \in Runs |-> Nobody]

-------------------------------------------------------------------------------
(* The structure is read, the defaults are resolved, and the output        *)
(* directory is chosen.  Every run begins in a second of its own.          *)
Begin(r, c) ==
  /\ pc[r] = "new"
  /\ \A q \in Runs : q < r => pc[q] # "new"
  /\ \A q \in Active : conf[q].base # c.base
  /\ second' = second + 1
  /\ conf' = [conf EXCEPT ![r] = c]
  /\ dir' = [dir EXCEPT ![r] = Resolve(c, disk, second')]
  /\ pc' = [pc EXCEPT ![r] = "settings"]
  /\ UNCHANGED <<disk, pos, report>>

(* The settings are recorded before anything is decided.                   *)
WriteSettings(r) ==
  /\ pc[r] = "settings"
  /\ disk' = [disk EXCEPT ![dir[r]]["settings"] = By(r)]
  /\ pc' = [pc EXCEPT ![r] = "deciding"]
  /\ UNCHANGED <<second, conf, dir, pos, report>>

Accepts(r) == conf[r].resume /\ IsComplete(disk[dir[r]])

(* --resume finds a complete result and returns it.                        *)
Skip(r) ==
  /\ pc[r] = "deciding"
  /\ Accepts(r)
  /\ pc' = [pc EXCEPT ![r] = "skipped"]
  /\ report' = [report EXCEPT ![r] = disk[dir[r]]["result"].by]
  /\ UNCHANGED <<disk, second, conf, dir, pos>>

(* --resume finds a result.json it cannot read.                            *)
SkipRaises(r) ==
  /\ pc[r] = "deciding"
  /\ conf[r].resume /\ Unreadable(disk[dir[r]])
  /\ pc' = [pc EXCEPT ![r] = "stopped"]
  /\ UNCHANGED <<disk, second, conf, dir, pos, report>>

(* A slip: a complete result does not keep a run from computing.           *)
ProceedAnyway(r) ==
  /\ pc[r] = "deciding"
  /\ ~(conf[r].resume /\ Unreadable(disk[dir[r]]))
  /\ pc' = [pc EXCEPT ![r] = "writing"]
  /\ UNCHANGED <<disk, second, conf, dir, pos, report>>

Proceed(r) ==
  /\ pc[r] = "deciding"
  /\ ~Accepts(r)
  /\ ~(conf[r].resume /\ Unreadable(disk[dir[r]]))
  /\ pc' = [pc EXCEPT ![r] = "writing"]
  /\ UNCHANGED <<disk, second, conf, dir, pos, report>>

(* A file is opened, which empties it, is written, and is closed.          *)
Write(r) ==
  LET order == Writes(conf[r])
      state == <<"empty", "part", "whole">>[(pos[r] % 3) + 1]
  IN /\ pc[r] = "writing"
     /\ pos[r] < 3 * Len(order)
     /\ disk' = [disk EXCEPT ![dir[r]][order[(pos[r] \div 3) + 1]] = [by |-> r, size |-> state]]
     /\ pos' = [pos EXCEPT ![r] = @ + 1]
     /\ UNCHANGED <<second, pc, conf, dir, report>>

End(r) ==
  /\ pc[r] = "writing"
  /\ pos[r] = 3 * Len(Writes(conf[r]))
  /\ pc' = [pc EXCEPT ![r] = IF conf[r].dry THEN "dry-run" ELSE "success"]
  /\ report' = [report EXCEPT ![r] = r]
  /\ UNCHANGED <<disk, second, conf, dir, pos>>

(* A backend that is not there, a stage that raises, a disk that is full, a*)
(* kill: nothing is cleaned up.                                            *)
Stop(r) ==
  /\ r \in Active
  /\ pc' = [pc EXCEPT ![r] = "stopped"]
  /\ UNCHANGED <<disk, second, conf, dir, pos, report>>

Finished ==
  /\ \A r \in Runs : pc[r] \in Over
  /\ UNCHANGED vars

Next ==
  \/ \E r \in Runs :
       \/ \E c \in Configs : Begin(r, c)
       \/ WriteSettings(r) \/ Skip(r) \/ SkipRaises(r) \/ Proceed(r)
       \/ Write(r) \/ End(r) \/ Stop(r)
  \/ Finished

Spec == Init /\ [][Next]_vars

-------------------------------------------------------------------------------
(* What --resume returns is the result of a run that computed, and the     *)
(* force constants, bands and plot beside it are those of the same run and *)
(* complete: the code looks at the files one by one, and never at whose    *)
(* they are.                                                               *)
Reused(r) ==
  LET q == report[r]
  IN /\ conf[q].real /\ ~conf[q].dry
     /\ \A f \in {"force_constants", "band", "plot", "result"} : disk[dir[r]][f] = By(q)

ResumeReusesOneRun == \A r \in Runs : pc[r] = "skipped" => Reused(r)

Users(d)   == {r \in Runs : pc[r] # "new" /\ dir[r] = d}
CutOff(r)  == pc[r] = "stopped" /\ pos[r] % 3 # 0
Computing(c) == c.real /\ ~c.dry /\ ~c.overwrite

(* That holds, now and after any later run, in directories that only       *)
(* calculations without --overwrite used, which stopped anywhere but in the*)
(* middle of a file.                                                       *)
CalculationsResume ==
  \A r \in Runs :
    /\ pc[r] = "skipped"
    /\ \A q \in Users(dir[r]) : Computing(conf[q]) /\ ~CutOff(q)
    => Reused(r)

(* Where nobody overwrites, the files of a run that computed to its end    *)
(* stay, whatever runs come after it and wherever they stop: the choice of *)
(* the directory and the test for completeness together protect them.      *)
FinishedResultsStay ==
  \A q \in Runs :
    /\ pc[q] = "success" /\ conf[q].real
    /\ \A r \in Users(dir[q]) : r > q => ~conf[r].overwrite
    => \A i \in DOMAIN Writes(conf[q]) : disk[dir[q]][Writes(conf[q])[i]] = By(q)

(* A run with --resume that works on a path where an earlier run computed  *)
(* to its end has nothing to do: the two agree on the directory, and the   *)
(* order in which the earlier one wrote its files leaves it complete.      *)
FinishedWorkIsNotRepeated ==
  \A r, q \in Runs :
    /\ pc[r] = "writing" /\ conf[r].resume
    /\ pc[q] = "success" /\ conf[q].real /\ dir[q] = dir[r]
    => \E s \in Users(dir[r]) : q < s /\ s <= r /\ conf[s].overwrite

(* A run whose user asked neither to overwrite nor to resume writes into no*)
(* directory that has the result.json of another run, not even a broken    *)
(* one.                                                                    *)
KeepsOthersResults ==
  [][\A r \in Active :
       ~conf[r].overwrite /\ ~conf[r].resume /\ disk'[dir[r]] # disk[dir[r]]
       => disk[dir[r]]["result"].by \in {Nobody, r}]_vars
===============================================================================
