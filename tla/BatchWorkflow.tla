------------------------------ MODULE BatchWorkflow ------------------------------
(***************************************************************************)
(* run_batch_workflow of workflow/batch.py: one single workflow for every  *)
(* structure file of a directory, one after the other or in the threads of *)
(* a pool, and batches that follow each other on one output directory.     *)
(*                                                                         *)
(* What the threads share is the disk and the working directory of the     *)
(* process, which a workflow changes around its phono3py call because      *)
(* phono3py writes its kappa file there.  All paths given are absolute, and*)
(* all kappa meshes are equal.                                             *)
(***************************************************************************)
EXTENDS Naturals, FiniteSets

CONSTANTS
  Structures,      \* the structure files, as numbers in the order of their names
  Inputs,          \* functions from Structures to their names without extension
  LastBatch,       \* batches are numbered from 1 to this
  Options          \* what the user may ask of a batch

Stems == UNION {{input[s] : s \in Structures} : input \in Inputs}

ASSUME BatchAssumption ==
  /\ IsFiniteSet(Structures) /\ Structures # {} /\ Structures = 1 .. Cardinality(Structures)
  /\ Inputs # {} /\ LastBatch \in Nat
  /\ Options \subseteq [max_workers: Nat \ {0}, resume: BOOLEAN, overwrite: BOOLEAN, kappa: BOOLEAN]
  /\ Options # {}

Home    == <<"home", 0>>
Seconds == 0 .. LastBatch * Cardinality(Structures)
Dirs    == (Stems \X Seconds) \cup {Home}
None    == <<0, 0>>          \* no workflow
Flows   == (1 .. LastBatch) \X Structures
EmptyDir == [phonons |-> None, kappa |-> None, result |-> None, torn |-> FALSE, stability |-> None]
NoRow    == [status |-> "none", outdir |-> Home, kappa |-> None]

VARIABLES
  input,           \* the names without extension
  disk,            \* for each directory, the workflow that wrote each file last
  second,          \* the last of the seconds that directories are named after
  cwd,             \* the working directory of the process
  batch, state, opts,    \* the current or last batch, whether it runs, its options
  disturbed,       \* a batch was killed, or had --overwrite
  pc,              \* where the workflow of each structure is
  outdir,          \* the directory it writes to
  old,             \* the working directory it is going to restore
  kappa,           \* whose kappa file its conductivity was read from
  row,             \* what the batch reports of it
  silent,          \* the structures for which phono3py wrote no kappa file
  met              \* workflows of some batch could meet in their thermal stages

vars == <<input, disk, second, cwd, batch, state, opts, disturbed, pc, outdir, old, kappa, row,
          silent, met>>
flow == <<pc, outdir, old, kappa, row, silent>>
call == <<input, batch, state, opts, disturbed, met>>

Init ==
  /\ input \in Inputs
  /\ disk = [d \in Dirs |-> EmptyDir]
  /\ second = 0
  /\ cwd = Home
  /\ batch = 0 /\ state = "none" /\ disturbed = FALSE
  /\ opts = CHOOSE o \in Options : TRUE
  /\ pc = [s \in Structures |-> "waiting"]
  /\ outdir = [s \in Structures |-> Home]
  /\ old = [s \in Structures |-> Home]
  /\ kappa = [s \in Structures |-> None]
  /\ row = [s \in Structures |-> NoRow]
  /\ silent = {} /\ met = FALSE

-------------------------------------------------------------------------------
(* What the memory of a process holds begins anew.                         *)
NewProcess ==
  /\ cwd' = Home
  /\ pc' = [s \in Structures |-> "waiting"]
  /\ outdir' = [s \in Structures |-> Home]
  /\ old' = [s \in Structures |-> Home]
  /\ kappa' = [s \in Structures |-> None]
  /\ row' = [s \in Structures |-> NoRow]
  /\ silent' = {}

MayMeet(o) == o.max_workers > 1 /\ o.kappa

StartBatch(o) ==
  /\ state # "running" /\ batch < LastBatch
  /\ batch' = batch + 1 /\ state' = "running" /\ opts' = o
  /\ disturbed' = (disturbed \/ o.overwrite)
  /\ met' = (met \/ MayMeet(o))
  /\ NewProcess
  /\ UNCHANGED <<input, disk, second>>

(* A slip: the name is looked up when the thread runs, after the loop.     *)
LastNameDir(s) == <<input[CHOOSE t \in Structures : \A u \in Structures : u <= t], 0>>
OutdirFor(s) == <<input[s], 0>>

Active == {s \in Structures : pc[s] \notin {"waiting", "done"}}

(* A slip: there is always a pool.                                         *)
TurnInPool(s) ==
  /\ state = "running" /\ pc[s] = "waiting"
  /\ \A t \in Structures : t < s => pc[t] # "waiting"

(* The workflows start in the order of the files; at most max_workers are  *)
(* under way.                                                              *)
MyTurn(s) ==
  /\ state = "running" /\ pc[s] = "waiting"
  /\ \A t \in Structures : t < s => pc[t] # "waiting"
  /\ Cardinality(Active) < opts.max_workers

Report(s, status, dir, conductivity) ==
  /\ pc' = [pc EXCEPT ![s] = "done"]
  /\ row' = [row EXCEPT ![s] = [status |-> status, outdir |-> dir, kappa |-> conductivity]]

(* A slip: force constants are taken for a finished structure.             *)
HasPhonons(dir) == disk[dir].phonons # None
HasStabilityReport(dir) == disk[dir].stability # None

(* _run_one skips by the stability report.                                 *)
SkipStructure(s) ==
  /\ MyTurn(s)
  /\ opts.resume /\ HasStabilityReport(OutdirFor(s))
  /\ Report(s, "skipped", OutdirFor(s), None)
  /\ UNCHANGED <<disk, second, cwd, outdir, old, kappa, silent, call>>

(* Without one, the single workflow decides, by the result: it returns a   *)
(* complete one, and raises on one that was cut off.                       *)
ResumeStructure(s) ==
  /\ MyTurn(s)
  /\ opts.resume /\ ~HasStabilityReport(OutdirFor(s))
  /\ disk[OutdirFor(s)].result # None
  /\ Report(s, IF disk[OutdirFor(s)].torn THEN "failed" ELSE "skipped", OutdirFor(s), None)
  /\ UNCHANGED <<disk, second, cwd, outdir, old, kappa, silent, call>>

(* The single workflow chooses its directory.  One that finds a result it  *)
(* may not touch goes to a path named after the second, which is a new one *)
(* unless another thread began in the same second.                         *)
NewSeconds == {second + 1} \cup ({outdir[t][2] : t \in Active} \ {0})

Begin(s) ==
  /\ MyTurn(s)
  /\ opts.resume => ~HasStabilityReport(OutdirFor(s)) /\ disk[OutdirFor(s)].result = None
  /\ \/ /\ disk[OutdirFor(s)].result = None \/ opts.overwrite \/ opts.resume
        /\ outdir' = [outdir EXCEPT ![s] = OutdirFor(s)]
        /\ UNCHANGED second
     \/ /\ disk[OutdirFor(s)].result # None /\ ~opts.overwrite /\ ~opts.resume
        /\ \E n \in NewSeconds :
             /\ outdir' = [outdir EXCEPT ![s] = <<input[s], n>>]
             /\ second' = IF n > second THEN n ELSE second
  /\ pc' = [pc EXCEPT ![s] = "phonons"]
  /\ UNCHANGED <<disk, cwd, old, kappa, row, silent, call>>

Goto(s, from, to) == pc[s] = from /\ pc' = [pc EXCEPT ![s] = to]

Phonons(s) ==
  /\ Goto(s, "phonons", IF opts.kappa THEN "entering" ELSE "result")
  /\ disk' = [disk EXCEPT ![outdir[s]].phonons = <<batch, s>>]
  /\ UNCHANGED <<second, cwd, outdir, old, kappa, row, silent, call>>

(* _working_directory: remember the working directory, change it, ...      *)
Enter(s) ==
  /\ Goto(s, "entering", "phono3py")
  /\ old' = [old EXCEPT ![s] = cwd]
  /\ cwd' = outdir[s]
  /\ UNCHANGED <<disk, second, outdir, kappa, row, silent, call>>

(* ... let phono3py write where the process is, or return without having   *)
(* written, or raise, ...                                                  *)
Phono3py(s) ==
  /\ \/ /\ Goto(s, "phono3py", "leaving")
        /\ disk' = [disk EXCEPT ![cwd].kappa = <<batch, s>>]
        /\ silent' = silent
     \/ Goto(s, "phono3py", "leaving") /\ disk' = disk /\ silent' = silent \cup {s}
     \/ Goto(s, "phono3py", "giving up") /\ disk' = disk /\ silent' = silent
  /\ UNCHANGED <<second, cwd, outdir, old, kappa, row, call>>

(* ... and go back to what was remembered.  A thermal stage that raised    *)
(* leaves the workflow without a conductivity.                             *)
Leave(s) ==
  /\ \/ Goto(s, "leaving", "selecting")
     \/ Goto(s, "giving up", "result")
  /\ cwd' = old[s] /\ old' = [old EXCEPT ![s] = Home]
  /\ UNCHANGED <<disk, second, outdir, kappa, row, silent, call>>

(* The kappa file is looked for in the output directory of the workflow,   *)
(* and an older one that lies there does as well.  If there is none, the   *)
(* thermal stage raises, and the workflow has no conductivity.             *)
Select(s) ==
  /\ Goto(s, "selecting", "result")
  /\ kappa' = [kappa EXCEPT ![s] = disk[outdir[s]].kappa]
  /\ UNCHANGED <<disk, second, cwd, outdir, old, row, silent, call>>

(* result.json, the stability report, and result.json again.               *)
WriteResult(s) ==
  /\ Goto(s, "result", "stability")
  /\ disk' = [disk EXCEPT ![outdir[s]].result = <<batch, s>>, ![outdir[s]].torn = FALSE]
  /\ UNCHANGED <<second, cwd, outdir, old, kappa, row, silent, call>>

WriteStability(s) ==
  /\ Goto(s, "stability", "result again")
  /\ disk' = [disk EXCEPT ![outdir[s]].stability = <<batch, s>>]
  /\ UNCHANGED <<second, cwd, outdir, old, kappa, row, silent, call>>

Succeed(s) ==
  /\ pc[s] = "result again"
  /\ disk' = [disk EXCEPT ![outdir[s]].result = <<batch, s>>, ![outdir[s]].torn = FALSE]
  /\ Report(s, "success", outdir[s], kappa[s])
  /\ UNCHANGED <<second, cwd, outdir, old, kappa, silent, call>>

(* An exception of a workflow, between its files, becomes a row.  The row  *)
(* names the directory the batch chose.                                    *)
Fail(s) ==
  /\ pc[s] \in {"phonons", "result", "stability", "result again"}
  /\ Report(s, "failed", OutdirFor(s), None)
  /\ UNCHANGED <<disk, second, cwd, outdir, old, kappa, silent, call>>

EndBatch ==
  /\ state = "running" /\ \A s \in Structures : pc[s] = "done"
  /\ state' = "ended"
  /\ UNCHANGED <<input, disk, second, cwd, batch, opts, disturbed, met, flow>>

(* The process is killed; the results that are being written then are cut  *)
(* off.                                                                    *)
KillBatch ==
  /\ state = "running"
  /\ state' = "killed" /\ disturbed' = TRUE
  /\ \E cut \in SUBSET {s \in Structures : pc[s] \in {"result", "result again"}} :
       disk' = [d \in Dirs |->
         IF \E s \in cut : outdir[s] = d
         THEN [disk[d] EXCEPT !.result = <<batch, CHOOSE s \in cut : outdir[s] = d>>, !.torn = TRUE]
         ELSE disk[d]]
  /\ NewProcess
  /\ UNCHANGED <<input, second, batch, opts, met>>

Rest == state # "running" /\ batch = LastBatch /\ UNCHANGED vars

Next ==
  \/ \E o \in Options : StartBatch(o)
  \/ \E s \in Structures :
       \/ SkipStructure(s) \/ ResumeStructure(s) \/ Begin(s)
       \/ Phonons(s) \/ Enter(s) \/ Phono3py(s) \/ Leave(s) \/ Select(s)
       \/ WriteResult(s) \/ WriteStability(s) \/ Succeed(s) \/ Fail(s)
  \/ EndBatch \/ KillBatch \/ Rest

Spec == Init /\ [][Next]_vars

-------------------------------------------------------------------------------
DistinctNames == \A s, t \in Structures : s # t => input[s] # input[t]

(* A batch reports success of a structure whose own, complete files are in *)
(* the directory it names, and skips it for files of that structure.  The  *)
(* names without extension have to differ; else it takes a batch without   *)
(* threads, --overwrite and --resume.                                      *)
SummaryIsHonest ==
  state = "ended"
    /\ (DistinctNames \/ (opts.max_workers = 1 /\ ~opts.overwrite /\ ~opts.resume))
  => \A s \in Structures :
       LET dir == disk[row[s].outdir] IN
       /\ row[s].status = "success" =>
            /\ dir.phonons = <<batch, s>> /\ dir.stability = <<batch, s>>
            /\ dir.result = <<batch, s>> /\ ~dir.torn
       /\ row[s].status = "skipped" => dir.result[2] = s
       /\ row[s].status # "none"

(* When no two workflows of a batch can meet in their thermal stage, the   *)
(* process is back where it started, and the conductivity reported of a    *)
(* structure was computed from it in this batch.  One whose phono3py wrote *)
(* no kappa file may report that of an older file; unless threads of an    *)
(* earlier batch met, it is still one of a structure of its name.          *)
ConductivityIsOwn ==
  state = "ended" /\ ~MayMeet(opts)
  => cwd = Home /\ \A s \in Structures :
       \/ row[s].kappa \in {None, <<batch, s>>}
       \/ s \in silent /\ (met \/ input[row[s].kappa[2]] = input[s])

(* --resume skips finished structures: what it skips has a complete result *)
(* with the phonons it was made from, unless an earlier batch was killed or*)
(* overwrote files, or two threads shared a directory.                     *)
SkipsFinished ==
  state = "ended" /\ ~disturbed /\ DistinctNames
  => \A s \in Structures : row[s].status = "skipped" =>
       LET dir == disk[row[s].outdir] IN ~dir.torn /\ dir.phonons = dir.result
===============================================================================
