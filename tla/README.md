# PhonoFlow in TLA+

A verification project for PhonoFlow (`src/phonoflow`, `src/phonoflow_scheduler`):
TLA+ modules translated from the code, TLC configurations that check them on
small instances, and theorems about them that TLAPS checks for every value of
the constants. `PROJECT.json` lists components, runs, mutants, findings, hazards
and theorems, and maps every definition to the lines it stands for.

## 1. The system

PhonoFlow computes phonons and lattice thermal conductivities: it relaxes a
structure, displaces its atoms, evaluates forces with a machine-learned
potential, assembles force constants and derives bands, densities of states and
kappa from them. What can go wrong in it *as a program* lies in how the work is
admitted, spread over processes and kept on disk.

| Component | State | Operations | Interacts with | What makes it correct |
|---|---|---|---|---|
| CPU queue policy (`cpu_queue_config.py`) | none | `from_values`, `normalize_job_slots` | command line, queue | contradicting options become a policy no request of which is impossible |
| CPU queue state (`cpu_queue_state.py`) | pending requests, leases, recent records | enqueue, start, release, mark done, cancel, expire, time out | the two queues | a job is there once; admission in order and within limits |
| File queue (`cpu_queue_filelock.py`) | one JSON file under `flock`, shared by processes | submit, acquire (poll), release, cancel, status | processes on one host | slots in use never exceed the pool; everybody who waits gets an answer |
| In-memory queue (`cpu_queue.py`) | the same, in one object | submit, acquire, release, cancel | a caller | as above for one policy |
| Command line (`cli.py`) | one job id | submit, guard, limit force workers, run, release | file queue, pipeline | a workflow uses no more workers than its lease has slots |
| Force schedule (`force_eval.py`) | none | choice of scheduler, workers, chunks | schedulers | every option leads to a schedule that ends |
| Process pool (`process_pool.py`) | pending futures, results | fill, wait, collect, leave | `ProcessPoolExecutor` | all forces, once each, or an exception; in order (not checked, §6) |
| Worker queue (`worker_queue.py`) | two queues, worker processes | put, get, check, stop, terminate | `multiprocessing` | the same; no deadlock, no worker left |
| Pipeline (`workflow/pipeline.py`) | output directory | choice of the directory, settings, resume, stages, reports | schedulers, phonopy | a complete result is of one run; resume never accepts a mixture; finished results stay |
| Batch (`workflow/batch.py`) | threads, summary | run one, collect | pipeline | a success has its own files, a conductivity its own structure, a skip a complete result |
| Thermal stages (`thermal/`) | kappa files, the process's working directory | FC3, kappa, fallbacks | pipeline, phono3py | the kappa that is reported was computed for the mesh that was asked for |
| Model comparison (`compare_models.py`) | shared relaxation, a directory per model | subprocess per model, summary | command line | a row reports the run that was just made, on terms equal for all models |
| Options (`config.py`, `defaults.py`) | option sources | merge, infer, record, repeat | everything | explicit options win over inferred ones; the command that is recorded repeats the run; a vacuum is one for everybody |
| Native warning filter (`runtime_warnings.py`) | a pipe, a daemon thread | install, drain | the terminal | everything but known noise is shown; not modelled, see §6 |
| Backends, band paths, analysis, plots, reports, file formats | none of their own | calculations and formatting | pipeline | numerical; not a subject for a model checker |

Behaviour that is hard to test: processes that interleave between any two
critical sections of the file queue; processes that are killed; deadlines that
pass while another process answers; leases that outlive, or are outlived by,
their owners; futures that complete in any order; workers that die with a task;
bounded queues between processes; directories that several runs write to. The
list, with the lines, is under `hazards` in `PROJECT.json`.

## 2. Modules

```
SchedulerNumbers            clean_positive_int, options that may be missing
  CpuQueueConfig            from_values, normalize_job_slots
    CpuQueueState (+Sublists)   transitions of the queue's state
      FileCpuQueue          processes sharing the state file
        MCFileCpuQueue      instances for TLC
        FileCpuQueueProofs  (+CpuQueueStateProofs) theorems
      InMemoryCpuQueue      one caller, any order of calls
        MCInMemoryCpuQueue, InMemoryCpuQueueProofs (theorems)
  ForceSchedule             force_eval.py's choices, chunks
    ProcessPool             parent and executor       -> MCProcessPool, ProcessPoolProofs
    WorkerQueue             parent, workers, queues   -> MCWorkerQueue, WorkerQueueProofs
OutputDirectory             files of a run, choice of the directory, completeness
  SingleWorkflow            runs over directories     -> MCSingleWorkflow,
                                                         SingleWorkflowProofs
CalculationPlan             the files of one calculation, in order
  Calculation               calculations over one another's files, failures
                                                      -> MCCalculation
BatchWorkflow               a workflow per structure, threads, batches
                            -> MCBatchWorkflow, BatchWorkflowProofs (theorems)
CompareSettings             how options reach the workflow of each model
  RecordedSettings          what it records of them, the command that repeats it
SupercellDim                supercell, q-mesh, vacuum axes of a structure
  BandPath                  the k-path and its plane
    CompareModels (+RecordedSettings)  comparisons over one directory
                            -> MCCompareModels, CompareModelsProofs
FifoSlotPool                abstract: a line and holders; FileCpuQueue implements it
ForceBatch                  abstract: collect once, return all; both schedulers implement it
```

**FileCpuQueue.** A client is one `phonoflow single --cpu-queue` process. Its `pc`
is `new`, `queued` (submitted), `waiting` (polled in vain), `running` (inside
`cpu_job_guard`), or one of the ends `done`, `refused`, `timedOut`, `crashed`.
Every critical section under `flock` is one action: `Submit`, `Poll` (a turn of
`acquire_for_job`), `GiveUp` (the separate section that writes a timeout),
`Release`, `Cancel`, `Status` (which expires and starts jobs, as the code does).
`BecomeOverdue` lets the age limit of a lease pass; `Crash` kills a process;
`LoseState` deletes the file. A process that dies inside a critical section
leaves the old file or the new one, because the file is replaced by a rename;
that is a crash before or after the step. `queue` holds what the file holds:
requests in order, leases, `completed_recent`. Lease ids are increasing numbers
instead of random ones; counts are recomputed by the code on every read and are
derived here. `overdue` holds the ids of leases whose time is over.

`try_start_next_jobs` is a loop in the code and a closed form here (`StartCount`:
the longest prefix of the line that fits), because the proofs about slots need no
recursion then; `StartWhilePossible` is the loop, and `StartsLikeTheLoop` says that they do
the same.

**InMemoryCpuQueue.** The same transitions called by one caller in any order,
under policies made from contradicting options. Its `cancel`, unlike the file
queue's, neither touches leases nor starts anybody.

**ForceSchedule, ProcessPool, WorkerQueue.** A batch is a number of tasks and a
set of options; `Schedule` is the decision of `evaluate_forces_for_displacements`.
Tasks and results are named by the index of the displacement. `ProcessPool` has
the parent's loop (`Fill`, `Wait`, `Collect`, `Leave`) and the executor
(`Start`, `Finish`, `Break`), which is a library: it starts chunks in order,
breaks when a process dies, and lets nobody leave before its futures are
finished. `WorkerQueue` has the parent (`StartWorker`, `Put`, `Get`, `GetInVain`,
`CheckWorkers`, `PutStop`, `Join`), the workers (`MakeCalculator`, `Take`,
`Compute`) and `Killed`. A result is written in the step that computes it: a
worker killed between computing and writing is one killed while computing. A
worker killed while it waits for a task may keep the queue's read lock
(`locked`). Not represented: a worker that dies half way through writing a
message, and the feeder threads of the queues.

**OutputDirectory, SingleWorkflow.** `run_single_workflow` called again and again on
output paths that keep what was there. A file is who opened it last and how much
of it is written: `open("w")` empties it, then it is written in place (`Write`, three
steps per file). `Writes` is the order of the files for a calculation, the dummy and
a dry run; the files of one stage that nobody distinguishes are one file.
`Begin` chooses the directory (`Resolve`), `WriteSettings` records the settings,
and only then `Skip`, `SkipRaises` or `Proceed` decides about `--resume`. `Stop` is
an exception or a kill anywhere, in the middle of a file too: the code cleans
nothing up. Two things the code does not prevent are left out: two active
runs with one output path, and two runs that begin within one second, which may
evade an old result to the same directory. Which files a calculation writes, what
it catches and what it says of a failure is the subject of `Calculation`.

**CalculationPlan, Calculation.** `Plan(c)` is the list of the files and calls of one
calculation in the order of `pipeline.py`, `phonon.py`, `relax.py` and `thermal/`, for a
configuration reduced to the options that decide about files. `Calculation` goes
through it one step at a time (`WriteFile`, `Copy`, `Unlink`, `Available`, `RunPhono3py`,
`SelectKappa`, `Lifetime`, `WriteResult`), in a directory that still has the files of
earlier calculations. `files` holds who wrote a file last, `outcome` is what `result.json`
lists and says. Exceptions of the text export (`FailText`), the group velocities and
the thermal stage (`FailPart`) are caught in the code and lead on with a reason; any
other one is `StopCalculation`. `RunPhono3py` writes the kappa file of the mesh or, since the code
looks for the file afterwards and not at phono3py, returns without (`silent`).

**BatchWorkflow.** `run_batch_workflow`: `MyTurn` is the pool of `max_workers` threads (or the
loop, for one), `SkipStructure` and `ResumeStructure` the two places that decide about
`--resume` (`_run_one` by the stability report, the pipeline by the result), `Begin` the
choice of a directory. A workflow is then the sequence of the writes somebody else
looks at: `Phonons`, `Enter`, `Phono3py`, `Leave`, `Select`, `WriteResult`, `WriteStability`,
`Succeed`, or `Fail` between them. `Enter` and `Leave` are `_working_directory`, which saves
and changes the working directory of the *process*; phono3py writes its file wherever
that is at the moment. Files carry the batch and the structure that wrote them;
`KillBatch` stops everything and cuts off any results being written. As in `Calculation`,
phono3py may return without having written (`silent` has the structures it did that for
in this batch); `Select` then takes what lies in the workflow's directory from before, under
`--overwrite`, after a failure or from a file with the same stem, and gives no conductivity if
there is nothing. `met` remembers that some batch had threads and conductivities
(`MayMeet`), since after that a kappa file may lie in a directory of any structure.
What the process holds in memory begins anew with each batch (`NewProcess`).

**CompareSettings, RecordedSettings.** Options that take the same way are
alike, so one of each kind stands for all. `model_command` is the command line a child
gets, `merge_overrides`, `option_sources` and `infer_default_config` what the child makes of it,
`InProcessSettings` what `compare_models` makes itself with isolation off. Some options are
put on the line whether the request has them or not (`AlwaysSaid`), with the default as
their value: the child has the value it would have had, and records it as the user's.
`resolved_settings`, `source` and `resolved_command` are what the pipeline records.
`Unrepeated` are the options that it records and leaves out of the command; `optimizer`
stands for them.

**SupercellDim, BandPath.** Pure operators: `VacuumAxes` by gaps between atoms,
`infer_supercell_dim`, `resolve_fc3_supercell_dim`, `default_q_mesh_for_structure`, and, decided a
second time by another rule in the code, `infer_dimensionality_by_vacuum` and the path of
`generate_kpath`. The loop that shortens a supercell is a function of its turns: one turn
takes a repetition away while there are too many atoms (`TooLarge`), and changes nothing
afterwards. Lengths are whole angstroms, positions twentieths of a cell, axes at
right angles.

**CompareModels.** The parent (`StartCompare`, `Relax`, `Unknown`, `Collect`, `CollectTorn`,
`EndCompare`) and the child of the model whose turn it is (`Begin`, `Phonons`, `Thermals`,
`WriteResult`, `Fail`). `disk` has for each model's directory the child that wrote each
file; a child that finds a result it may not touch has `moved`, and the parent goes
on reading the directory it gave. A `Fail` with cause `killed` is a subprocess that
ran out of memory, and may leave a torn result. `KillCompare` takes parent and child
together. What a moved child leaves in its time-stamped directory is not
represented, because nobody reads it.

**Abstract specifications.** `FifoSlotPool`: a line of jobs and a set of holders;
whatever the clients do, jobs are admitted from the front only, and only within
the limits of whoever admits. `ForceBatch`: results are collected once each, the
batch returns when it has all of them and raises only after trouble.

## 3. Runs

| Run | Instance | Shows |
|---|---|---|
| `queue_admission` | 3 clients, own jobs of 2, 1, 2 slots, pool of 3, 2 leases, 2 deadlines, 2 may be killed, records for 2 jobs | types, one place per job, pool and limits, running workflows own their leases, honest records, leases that are accounted for |
| `queue_recovery` | 3 processes with pools of 3, 2, 3 and limits of 1, 2, 3 leases; two of them share a job; a cancellation, a deadline, a kill, a workflow that outlives its lease, one loss of the file, a log of 2 records | records never call a job running that has no lease; order of service (`FifoSlotPool`); no waiter polls for ever |
| `queue_overdue` | own jobs of 2, 1, 2 slots, each workflow with as many workers as its lease has slots; the first may outlive its lease | **violated**: two workflows, four workers, three slots (finding 1) |
| `memory_queue` | 24 policies, 3 jobs that ask for nothing, -1, 1 or 3 slots, 3 leases in all, jobs symmetric | allocations fit, nobody is larger than the pool, free slots are used, closed form = loop |
| `pool_batches` | up to 6 tasks, 0 to 3 workers, every backend, chunk size and bound, task 5 raises, the pool may break | chunks accounted for; nothing computes afterwards; every batch ends; `ForceBatch`: complete and collected once each, or an exception |
| `worker_queue` | up to 4 tasks, up to 3 workers; task 4 raises, worker 3 has no calculator, 1 and 2 may be killed, starts may fail; room for 3 tasks or more | types, tasks conserved, puts never block, no worker left, every batch ends; `ForceBatch` |
| `worker_queue_hang` | the same, workers 1 and 2 have no calculator | **violated**: the parent blocks on a stop mark (finding 2) |
| `output_resume` | 3 runs on one path: calculations (overwriting, resuming or neither), dummies, dry runs; stops anywhere | others' results are kept; finished files stay and are not computed again; a resumed result is of one run |
| `output_mixed_resume` | calculations and dry runs | **violated**: a dry run's result is resumed (finding 3) |
| `calculation` | 2 calculations in one directory, each with any of 7 configurations (both ways to the third order, two meshes, three kinds of text export, a dummy, a dry run), exceptions at every step | what a result lists its own calculation wrote; what it lacks it explains; `validate_output.py` accepts it |
| `batch` | 2 structures with or without a common name, 2 batches with any of 4 option sets (plain, conductivities with `--overwrite`, two threads with conductivities, two threads with `--resume`), failures, kills | honest summaries, own conductivities also where phono3py writes none, `--resume` skips only complete results |
| `compare` | 2 comparisons of two or three models on one directory (aliases, paths, an unknown name), 5 requests (isolated or not, shared relaxation, safe mode, overwrite, dry), failures, kills; 2916 command lines; 175 structures, 48 limits | rows and plots are of this comparison; a row per model; equal terms; true records; supercells within limits; agreement on layers |

*Bounds.* Three clients are the fewest with one running, one at the head of the
line that does not fit and one behind it that would. A pool of three with requests of
two and one has jobs that fit together and jobs that do not. `RecentLimit` stands
for the code's 100; at 2 a record is pushed out while its job is still asked for.
Clients submit once; a client that came back would be another client. One loss
of the file is enough for a queue that forgets leases in force. Six tasks in
chunks of one and two on pools of two and three give full, partial and empty
waves; four tasks with three workers leave a worker its second task while others
are at their first. Three runs on a path are one that leaves something, one that
adds to it and one that decides; for the files of one directory two calculations
are enough, since a file is either the present one's or not. Two structures are
the fewest that can share a name, a second or the working directory; two batches
one that leaves something and one that finds it. Three models are two that share
a directory and one that is none. `MaxIssued` bounds the calls on the in-memory queue.
In the batch all paths are absolute and all kappa meshes equal, so that kappa
files of two workflows have one name; exceptions come between files, not within.

*Fairness.* `WF(Poll(c))`: `acquire_for_job` is a loop with a sleep. `WF(Release(c))`:
the workflow ends and the guard's `finally` runs, unless the process is killed.
`WF(BecomeOverdue)`: time passes. Nobody is obliged to submit, give up, cancel or
ask for a status. In the schedulers the parent and the processes keep running
and an evaluation ends; nothing has to be killed or to break. No run constrains
the scheduling otherwise, and weak fairness is enough throughout: `flock` is
handed out by the kernel, and a poll stays enabled until it is taken.

*What the conditions mean.* `RunningHoldsLease` and `WorkersWithinPool` hold when
each process has its own job id (the command line draws a random one), no
workflow outlives `stale_lease_s` and nobody cancels or deletes the file;
`queue_overdue` shows what happens without the second. `NoWorkerLeft` is about batches whose
processes were all started: the code starts them before its `try`. `BatchEnds` of
the worker queue needs room for the stop marks: with the default bound (four per
worker) there always is, with a smaller one see finding 2. `CalculationsResume` is
`ResumeReusesOneRun` for directories only calculations used, none of them
overwriting and none stopped in the middle of a file. Each condition is needed:
finding 3 drops the first; an overwriting run that stops leaves the old result
beside new phonons; a run killed while it rewrites `summary.txt`, and a `--resume`
killed while it writes its own, leave the first one's result beside the second
one's phonons, and the next `--resume` takes them for complete.

`ListsItsOwnFiles` excepts the kappa file when phono3py returned without writing one:
`_require_kappa_file` then finds that of an earlier calculation, and its "completed
without writing" never comes up. `FinishedRunsValidate` is about text files with
default names that could be exported, for reasons given in section 4.
`SummaryIsHonest` needs names that differ, or a batch without threads, `--overwrite` and
`--resume`. `ConductivityIsOwn` needs one thread or no conductivities, because of the shared
working directory; where phono3py returned without writing, the conductivity may be
that of an older file, and the property then says whose: a structure's with the same
name, unless threads with conductivities ran in this or an earlier batch (both exceptions
occur in `batch`). `RecordsAreTrue` says of the recorded command that it leads back to every
setting recorded but those of `Unrepeated`, and that these come back as the defaults;
commands with several temperatures, which are refused, are excepted (section 4).
`SkipsFinished` needs directories no earlier batch was killed in or
overwrote. `RowsAreTheirOwn` is about models with directories of their own
(`OwnDirectories`: aliases of one model, or two paths with one stem, share one), with no
result a child had to evade (`fresh`), about what the child computed and not about what an
earlier comparison left beside it (`computed`), and not about dry runs, whose rows show
whatever bands there are. `ChildrenAreComparable` leaves out, with isolation off, what DPA
models overrule in the process of the comparison (`Overruled`). `LayersAreRecognised`
asks for a `ClearLayer`: between 12 and 15 angstroms, with gaps below 8, and for layers that
straddle the boundary of the cell the two rules differ; and only when the vacuum is the
third axis do the bands stay in the plane (section 4).

## 4. Findings

1. `queue_overdue`: `expire_stale_leases` (`cpu_queue_state.py:292-306`) takes the
   lease from a workflow that still runs when the lease is a day old; nothing
   renews it. `cpu_queue_config.py:19` calls `total_cpu_slots` "the total CPU
   resource pool PhonoFlow may use". In the run the first workflow starts with two
   slots and two workers, its lease becomes overdue, and the poll of the third
   process drops it and gets two slots as well: two workflows with four workers on a
   pool of three.
2. `worker_queue_hang`: `task_queue.put(_STOP)` (`worker_queue.py:113`) is called for
   every worker, dead ones included, on a queue bounded by
   `force_max_pending_tasks`, which `docs/configuration.md:188` describes as a bound on
   tasks. Three workers, a bound of one, and two workers that cannot load the
   model: the third computes everything, takes one mark, one mark stays in the
   queue, and the parent waits for ever to put the last.
3. `output_mixed_resume`: `_is_complete_result` (`pipeline.py:1751`) asks for
   `success` in `result.json` and four other files; a dry run writes `success` too
   (`pipeline.py:1127`). A calculation that stops after its plot, a dry run, and a
   `--resume` that returns the dry run's result. `cli.py:717`: "Skip calculation if a
   complete successful result exists."

Smaller things met on the way, not runs of their own. Where a property has a
condition because of one, the property is named.

*Queue and schedulers.* A lease that is granted between the last poll and the timeout
of its job stays until it is stale, next to a `timeout` record (`LeasesAccountedFor`).
An exception in the process pool comes out only after all submitted chunks were
computed.

*Calculations.* A kappa file of an earlier calculation of the same mesh hides that
phono3py wrote none (`ListsItsOwnFiles`, `ConductivityIsOwn`): its result goes into the new
report, and in a batch it may be that of another structure with the same stem. The
audit of the harmonic force constants is overwritten by that of the thermal stage's. `validate_output.py` accepts an old
`FORCE_CONSTANTS_2ND` after an export that failed, and rejects a finished run whose
`fc2_text_name` is the user's in a directory with an old `FORCE_CONSTANTS`
(`FinishedRunsValidate`). The dummy, asked for conductivities, says they were not
requested. `_run_thermal_conductivity_compat` takes any `TypeError` for an old signature and
calls again without the isotope and boundary options.

*Layers.* `standardize_2d_for_ase_bandpath` (`kpath/dimensionality.py:64`, "Temporarily move
the vacuum axis to ``c``") permutes the axes, `generate_ase_2d_kpath` zeroes the third
coordinate, and `workflow/phonon.py:105-120` uses the points with the structure as it was:
with the vacuum along a or b the bands run across it, and a direction of the layer is
missing. `test_kpath_ase_2d.py` looks at `coords[2]` only (`LayersAreRecognised`). The
`custom` k-path mode (`docs/architecture.md:40`) raises in every workflow. The supercell for
third-order force constants is chosen without regard to vacuum.

*Settings.* `resolved_command` writes several temperatures in a form the command line
refuses, and it leaves out options that are recorded: `optimizer` (`pipeline.py:1368`),
`relax_backend`, `relax_model_path` and `allow_dpa_relax` (1343-1361), `band_npoints` (1422) and
`fc_method`. `single --relax --optimizer LBFGS` records LBFGS, and the command recorded
with it relaxes with FIRE (`RecordsAreTrue`; `docs/outputs.md:12` promises no more than the
"command used for the run", so this is no finding of a run). In-process
comparisons record no option as the user's (`RecordsAreTrue`), keep the default
displacement and let DPA defaults overrule the request (`ChildrenAreComparable`). What stands in a YAML file does not count as explicit for
`option_sources`, so DPA defaults overrule it too. `--mesh auto` is the same as no
option and cannot replace a mesh of a YAML file.

*Batches.* `max_workers` is "Reserved" (`README.md:811`, `docs/configuration.md:213`) and is
the number of threads; with conductivities the threads read each other's kappa
files and may leave the process in one of their directories (`ConductivityIsOwn`).
`Si.cif` and `Si.vasp` share a directory (`SummaryIsHonest`). A structure with a
stability report is skipped although a kill cut its result off or an overwriting
batch failed after the new phonons (`SkipsFinished`).

*Comparisons.* Without `--overwrite` the parent reads the earlier result while the new
one is elsewhere, and with `--relax` writes that earlier one again; conductivities,
lifetimes and densities of states of earlier comparisons appear in rows and plots
of later ones that did not compute them; an isolated dry run over earlier
results gives rows of success with the old bands (`RowsAreTheirOwn`).

## 5. Proofs

One proof module per component: `CpuQueueStateProofs` (transitions of the queue),
`FileCpuQueueProofs`, `InMemoryCpuQueueProofs`, `ProcessPoolProofs`, `WorkerQueueProofs`,
`SingleWorkflowProofs`, `BatchWorkflowProofs`, `CompareModelsProofs`. Every theorem holds for
all values of the constants its module's assumptions allow.

* `CpuQueueStateProofs`: `KeepAtEntries` says what a list filtered by position contains. The
  filter is a closed form over ranks (`Sublists`), so no recursion is needed.
  `AnyNumbersMakeAPolicy` and `SlotsWithinPolicy` are about the arithmetic;
  `TryStartIsSound` and one lemma per transition (`EnqueueIsSound`, `ReleaseShrinks`,
  `MarkDoneShrinks`, `CancelShrinks`, `TimeoutShrinks`, `ExpireShrinks`): each keeps
  the file *sound* - typed, every job once, ids not ahead of the counter - and
  either takes leases away or adds some within the caller's limits.
  `NobodyWaitsForFreeSlots`: the loop of `try_start_next_jobs` does not stop too early.
  It needs that the slots of the first k requests add up like disjoint sets
  (`DisjointSizesAdd`), since the loop counts while it starts and the model at once.
  `ClosedFormIsTheLoop` makes that exact: after i turns the loop has the file that the
  first i starts leave (`HeadIsNext`) until it stops, and what it asks about the head of
  the line is what the closed form asks about i + 1 starts (`HeadAfterStarts`).
  A section of its own is about the log of recent records. `OtherRecords` and `ReplaceRecords`
  are recursive functions on the positions of a list; that such a function exists
  and is determined follows from `UpTo`, induction on the numbers up to n
  (`RecursionExists`, `ReplacedInTurn`). `RecordsReplaced` then says what a log contains after
  the records of several jobs were replaced, for any limit of its length.
* `FileCpuQueueProofs`: the inductive invariant `IInv` says the file is sound, its
  leases are within the largest limits in use, and the client's own variables
  have their types. `TypeOK` and `QueueConsistent` are not inductive by themselves: that a
  job is not both waiting and holding depends on unique ids and on what
  `Enqueue` looks at. One lemma per action, then
  `TypeCorrect`, `EachJobOnce`, `PoolNeverExceeded`:
  `Spec => []TypeOK`, `[]QueueConsistent`, `[]LeasesWithinPool`, for any clients, jobs,
  slots and policies, with crashes, cancellation, expiry and loss of the file.
* `RunningIsBacked` and `WorkersFit`: `[]RunningHoldsLease` and `[]WorkersWithinPool` under
  `Undisturbed` (own job ids, no outliving, no cancellation, no loss); the second
  needs the first, and that distinct clients hold distinct leases, to compare
  the workers of running clients with the slots of leases.
* `NoLeaseForgotten`: `Spec => []LeasesAccountedFor`. The property speaks of leases; the
  invariant `OInv` has to speak of the line as well (`CaredFor`): a request becomes a
  lease in whatever process polls next, so that whoever is in line must already
  have a client that waits, crashed or gave up.
* `RunningRecordsHaveLeases` and `RecordedEndsAreTrue` (`FileCpuQueueProofs`): `[]RecordsBacked` and
  `[]RecordsHonest`, whatever happens to the file and its processes, with a log that forgets.
  The invariant `LogInv` relates every record of the log to a lease or to a client: `Recorded`
  says what an end in the log means, and `HeldFor` that a lease id a client holds was given
  out for that client's job and no other. Without the second, `Release` could
  report somebody else's job finished; it holds because ids are never given
  out again, whatever leases expire meanwhile.
* `InMemoryCpuQueueProofs`: `[]AllocationsFit`, `[]HeadFitsEmptyPool`, `[]StartsLikeTheLoop` and
  `FreeSlotsAreUsed` (an action property), for any raw numbers as options and as requests.
  The invariant adds that the queue is sound, the leases are within the policy, and that a
  policy made by `from_values` grants its minimum (`Granting`).
* `ServedInOrder` (`FileCpuQueueProofs`): `Spec => ServesInOrder`, that is `Spec => Pool!Spec`
  under the mapping of the requests to their jobs and the leases to jobs with slots,
  whatever happens to the file and its processes. Each critical section is cut into
  three parts the pool knows: some leave (`Leave`), perhaps one joins (`SomeoneJoins`), the
  first k start (`Starts`); `PoolMoves` puts them together into one step of the pool, for
  which `IInv` is needed: that nobody joins who holds a lease, and that k starts are k
  holders, follows only from a job being in the file once. Expired leases
  do not move the line (`ExpiryKeepsLine`), so that a poll may expire and enqueue in one step.

* `BatchWorkflowProofs`: for any structures, names, option sets and number of batches.
  `Typed` is the type invariant, with the arithmetic that there is a second left to
  name a directory after for every structure that may still begin.
  - `ConductivitiesAreOwn`: `Spec => []ConductivityIsOwn`, with `Conducting`: at most one
    workflow is under way, the working directory is `Home` outside phono3py and
    the workflow's own inside, and what it will restore is `Home`. A kill in phono3py
    ends all that, and each process begins with it anew (`NewProcess`). For the
    workflows phono3py wrote nothing for, the invariant has to speak of the disk
    (`Labelled`): as long as no threads met, a kappa file lies in a directory with the
    name of its structure, and nowhere else.
  - `SummariesAreHonest`: `Spec => []SummaryIsHonest`. The property speaks of batches that
    ended; the invariant has to speak of every state of the directories. `Filed`
    is about their whole history: stability reports have results beside them, and
    a result is of a structure with the name it is filed under. `Reported` is
    about the present batch: workflows under way and those that succeeded have
    directories of their own (by their names, or because one at a time moves
    on to new seconds), and a workflow's files are its own as far as it has come.
  - `FinishedAreSkipped`: `Spec => []SkipsFinished`, with `Fresh` on top: every directory is
    complete or has no result, workflows begin where there is none, and, the
    point that is easy to miss, a second shared by two threads is one that no
    structure still waiting has a result of.

* `ProcessPoolProofs`: `[]EveryChunkAccounted`, `[]QuietWhenOver` and `IsForceBatch`, for any number
  of tasks and workers, any chunk size and bound. The first half is about
  `_chunk_list` with `ceil`: the chunks are disjoint, not empty, and together all tasks
  (`WorkIsDivided`, from `CeilDivBounds` and `Quotients`). The invariant says that what the
  results contain is exactly the chunks that were submitted and are not waited for
  (`ResultsOfCollected`); with disjoint chunks a collected chunk is fresh, which is
  what `ForceBatch` asks, and none is lost among futures that complete meanwhile.
* `WorkerQueueProofs`: `[]TypeOK`, `[]TasksConserved`, `[]PutNeverBlocks`, `[]NoWorkerLeft` and
  `IsForceBatch`, with workers that are killed, factories and tasks that raise and
  starts that fail. `TasksConserved` counts places; `CountAppend` and `CountTail` say how a count
  changes with a list. `PutNeverBlocks` is not inductive: the bounded queue has
  room because what is under way - queued, with a worker, or reported - was
  submitted and not collected (`InFlight`), while the parent compares only those two
  counters. `IsForceBatch` needs `StopMarks` besides: no stop mark is put before
  all results are in.
* `SingleWorkflowProofs`: runs that follow each other in output directories, any number,
  with any options, stopped anywhere, also in the middle of a file. `Basics` is about
  one run: whose directory it may be in (`Placed`) and which of its files are its own
  so far (`Progress`). On it rest three parts about the history of a directory:
  - `Kept`: `[]FinishedResultsStay` and `[]FinishedWorkIsNotRepeated`. A calculation's files stay
    while nobody overwrites, because later runs there are runs with `--resume` that
    never get beyond the decision; the two properties need each other.
  - `OneOwner`: `[]CalculationsResume`. In a directory only calculations used and none
    stopped inside a file, once there is a result, everything it stands for is of
    one run. The step that is easy to miss is in the middle: the first of the two
    writes of `result.json` already makes the directory complete.
  - `OwnPlace`: the action property `KeepsOthersResults`.

  A second part is about the files of one calculation (`Calculation`), for any number of
  calculations with any configurations in `Configurations`, in a directory that has
  any files of earlier ones, with an exception at any step: `ListedFilesAreOwn`,
  `WhatIsMissingIsSaid` and `FinishedDirectoriesValidate` (`[]ListsItsOwnFiles`,
  `[]NothingMissingUnsaid`, `[]FinishedRunsValidate`). The properties look at the result
  when it is there; the invariant `CalcInv` follows the plan until then: the steps that
  are left are in the order of the plan and of no part that was given up (`Planned`),
  every other step of the plan has left its file, or its part's failure is noted
  (`Accounted`), what the result will list is the calculation's own (`Own`), and the
  result says what was noted (`Told`). The order is what the proofs turn on: the
  calculation deletes and copies files of the same names that it lists.

* `CompareModelsProofs`: comparisons that follow each other on one output directory, any
  number, with any options, whose children fail and are killed anywhere.
  - `EveryModelIsReported` and `RowsShowTheirOwn` (`[]EveryModelHasItsRow`, `[]RowsAreTheirOwn`) are
    about rows and plots at the end; the invariant follows the files until then.
    `Filed`: what this comparison wrote for a model is in that model's directory, and
    nothing is of a later comparison - with that a failed model cannot turn up in
    a plot through another's row. `Untouched`: a child that has not begun still finds no
    result, so that it stays in the directory given to it, which its row is read
    from. `ChildComputed`: what it computed is there, and not torn.
  - `ModelsOnEqualTerms` (`[]ChildrenAreComparable`): a row has the settings that
    `SettingsOf` gives its model; the rest is about both ways an option can take, for
    any values (`SettingsFollow`, `SettingsAgree`).
  - `RecordsTellTheTruth` (`[]RecordsAreTrue`): `CommandsRepeat` and `CommandsTell`, for any command
    line in which `relax`, if it is there, is on or off, and for any values of the
    options the command leaves out.
  - `SupercellsAlwaysFit` (`[]SupercellsFit`), for any structure and any limits. `LoopInv` is what a
    turn of the loop keeps: equal axes stay equal, an axis that was shortened is not
    further below the others than one, and with the repetitions back that were taken
    away the cell would have too many atoms. Each turn takes at least one repetition
    (`LoopTurns`), so after three times the largest dimension the loop has stopped (`LoopEnds`);
    what it stops at fits (`InferredFits`).
  - `LayersAreAlwaysRecognised` (`[]LayersAreRecognised`): what is beyond the atoms of a layer is one
    of the gaps between neighbours on the periodic axis (`GapBeyondTheAtoms`), so both rules
    find the same axis (`LayerIsFound`), and neither finds one in a cell of short axes
    (`NoLayerIsFound`).

The assumptions are those of the modules (`ClientAssumption`, `RecentLimitAssumption`,
`OptionsAssumption`, `PoolAssumption`, `QueueAssumption`, `WorkflowAssumption`, `BatchAssumption`,
`CompareAssumption`, `SupercellAssumption`, `CalculationAssumption`): options and requests are integers where the code
has integers, numbers of tasks are natural (the length of a list), the runs'
configurations are those of some output paths, one to three different models are
compared (the code refuses more), the limits of a supercell are positive and the
smallest repetition is not above the largest (`config.py` validates both); TLC evaluates
them in every run. `SingleWorkflow` and `Calculation` have no name in common, so that
one module can prove about both: the theorems about `Calculation` start from
`CalculationSpec`.

Only model-checked: liveness (`WaitersServed`, `BatchEnds`; the prover has no fairness). All
other properties of the passing runs are theorems.

## 6. Not modelled, and the plan

Left out of modules that exist: that the schedulers sort the collected forces by index
before they return them (`ForceBatch` says what is collected, not in which order it is
returned); the environment of a comparison's subprocess, a child that goes on after its
parent was killed alone, the row at 300 K; the choice of the relaxation backend; the
fallbacks of the thermal stage to fewer arguments, Wigner and symmetrization; two runs
at a time on one output path.

Modules that could follow: configuration files, their validation and the `run`
command; the queue policy from environment and admin files; resource estimates;
the pipe and the daemon thread in front of descriptor 2 (what the thread has not
copied when the interpreter shuts down, such as the traceback of an uncaught
exception, is not shown).

Theorems that could follow: the safety half of `BatchEnds`, that a batch which cannot
move any more has ended.

Out of scope: the numerical libraries and formulas, plots, report texts and
file formats.
