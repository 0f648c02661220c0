------------------------------- MODULE CompareModels -------------------------------
(***************************************************************************)
(* compare_models of compare_models.py: one single workflow after the other*)
(* for the selected models, in subprocesses (the command line) or in its   *)
(* own process, from a structure that was relaxed once for all of them, if *)
(* they were to relax; then a row for each model, and the plots.           *)
(*                                                                         *)
(* Comparisons follow each other on one output directory.  Its own files   *)
(* are always replaced.  A child that finds a result in its directory moves*)
(* to one named after the second, unless there is --overwrite; the rows and*)
(* plots are made from the directory that the comparison gave to it, and   *)
(* what is in the other one nobody reads.                                  *)
(***************************************************************************)
EXTENDS RecordedSettings, BandPath

CONSTANTS
  LastCompare,     \* comparisons are numbered from 1 to this
  Selections,      \* the lists of models they are asked for
  Requests,        \* the options they are given
  Commands,        \* command lines of single, for which the records are checked
  Structures,      \* structures, and ...
  Limits           \* ... limits, for which the supercells are checked

ASSUME CompareAssumption ==
  /\ LastCompare \in Nat
  /\ Requests # {}
  /\ Selections \subseteq Seq(STRING)
  /\ \A models \in Selections :
       /\ Len(models) \in 1 .. 3
       /\ \A i, j \in DOMAIN models : i # j => models[i] # models[j]
  /\ \A command \in Commands :
       "relax" \in DOMAIN command => command["relax"] \in {"true", "false"}

(* What the settings are validated to be, and any cell of atoms.           *)
ASSUME SupercellAssumption ==
  /\ Structures \subseteq [lengths : [Axes -> Nat], positions : [Axes -> SUBSET (0 .. Parts - 1)],
                           atoms : Nat]
  /\ Limits \subseteq [target : Nat \ {0}, min_dim : Nat \ {0}, max_dim : Nat \ {0},
                       max_atoms : Nat \ {0}]
  /\ \A limits \in Limits : limits.min_dim <= limits.max_dim

Subdirs == {subdir(s) : s \in {t \in UNION {{models[i] : i \in DOMAIN models} : models \in Selections} : Known(t)}}
Child   == (1 .. LastCompare) \X (1 .. 3)
None    == <<0, 0>>            \* no child
NoResult   == [by |-> None, thermal |-> "skipped", relaxed |-> 0, torn |-> FALSE]
DataFiles  == {"band", "dos", "velocity", "conductivity", "lifetime"}
NoData     == [f \in DataFiles |-> None]
EmptyDir   == [data |-> NoData, result |-> NoResult]
NoSettings == [o \in Settings |-> "unset"]
NoChild    == [pc |-> "none", dir |-> "", moved |-> FALSE, thermal |-> "skipped",
               computed |-> {}, settings |-> NoSettings, structure |-> 0]
NoRow      == [status |-> "failed", category |-> "none", by |-> None, data |-> NoData,
               computed |-> {}, settings |-> NoSettings, structure |-> 0, outcome |-> "failed"]

VARIABLES
  disk,            \* for each directory, the child that wrote each file last
  shared,          \* the comparison that wrote the shared relaxed structure
  compare, state, request, models,    \* the current or last comparison
  fresh,           \* no child of it finds a result that it may not touch
  child,           \* the workflow of the next model
  rows,            \* the rows so far
  plots            \* the children whose data each plot shows

vars == <<disk, shared, compare, state, request, models, fresh, child, rows, plots>>

PlotNames == DataFiles \cup {"kappa_bar"}

Init ==
  /\ disk = [d \in Subdirs |-> EmptyDir]
  /\ shared = 0
  /\ compare = 0 /\ state = "none" /\ fresh = TRUE
  /\ request = CHOOSE r \in Requests : TRUE
  /\ models = <<>>
  /\ child = NoChild
  /\ rows = <<>>
  /\ plots = [p \in PlotNames |-> {}]

-------------------------------------------------------------------------------
StartCompare(r, selected) ==
  /\ state \notin {"relaxing", "running"} /\ compare < LastCompare
  /\ compare' = compare + 1
  /\ state' = IF r.relax THEN "relaxing" ELSE "running"
  /\ request' = r /\ models' = selected
  /\ fresh' = (r.overwrite \/ \A i \in DOMAIN selected :
       Known(selected[i]) => disk[subdir(selected[i])].result.by = None)
  /\ child' = NoChild
  /\ rows' = <<>>
  /\ plots' = [p \in PlotNames |-> {}]
  /\ UNCHANGED <<disk, shared>>

(* The shared relaxation writes its structure, or the comparison raises.   *)
Relax ==
  /\ state = "relaxing"
  /\ \/ state' = "running" /\ shared' = compare
     \/ state' = "raised" /\ shared' = shared
  /\ UNCHANGED <<disk, compare, request, models, fresh, child, rows, plots>>

Index    == Len(rows) + 1
Me       == <<compare, Index>>
Selected == models[Index]
Pending  == state = "running" /\ Index <= Len(models) /\ child.pc = "none"

(* A selection that is no model gets a failed row.                         *)
Unknown ==
  /\ Pending /\ ~Known(Selected)
  /\ rows' = Append(rows, [NoRow EXCEPT !.category = "runtime_error"])
  /\ UNCHANGED <<disk, shared, compare, state, request, models, fresh, child, plots>>

(* A slip: --overwrite does not reach the child.                           *)
MovesAnyway(dir) == disk[dir].result.by # None
Moves(dir)       == disk[dir].result.by # None /\ ~request.overwrite

(* A child chooses its directory and reads its structure.                  *)
Begin ==
  /\ Pending /\ Known(Selected)
  /\ child' = [NoChild EXCEPT
       !.pc        = IF request.dry_run THEN "result" ELSE "phonons",
       !.dir       = subdir(Selected),
       !.moved     = Moves(subdir(Selected)),
       !.settings  = SettingsOf(request, Selected),
       !.structure = IF request.relax THEN shared ELSE 0]
  /\ UNCHANGED <<disk, shared, compare, state, request, models, fresh, rows, plots>>

Goto(from, to) == child.pc = from /\ child' = [child EXCEPT !.pc = to]

(* What the child writes does not appear in the directory given to it when *)
(* it has moved.                                                           *)
InGivenDir(files, result) ==
  IF child.moved THEN disk
  ELSE [disk EXCEPT ![child.dir] =
         [data   |-> [f \in DataFiles |-> IF f \in files THEN Me ELSE @.data[f]], result |-> result]]
Given == disk[child.dir]

Write(files)  == InGivenDir(files, Given.result)

(* The phonon stage writes the bands, the density of states if it is asked *)
(* for, and the group velocities unless their calculation fails.           *)
Phonons ==
  /\ child.pc = "phonons"
  /\ \E velocities \in {{}, {"velocity"}} :
       LET files == {"band"} \cup velocities
                    \cup (IF child.settings["dos"] = "true" THEN {"dos"} ELSE {})
       IN  /\ disk' = Write(files)
           /\ child' = [child EXCEPT !.pc = IF request.compute_kappa THEN "thermal" ELSE "result",
                                     !.computed = files]
  /\ UNCHANGED <<shared, compare, state, request, models, fresh, rows, plots>>

(* The thermal stage writes the conductivities, and the lifetimes where it *)
(* has them, or gives a reason, and the workflow goes on.                  *)
Thermals ==
  /\ child.pc = "thermal"
  /\ \E thermal \in {"completed", "failed"},
        files \in {{}, {"conductivity"}, {"conductivity", "lifetime"}} :
       /\ IF thermal = "completed" THEN files # {} ELSE files # {"conductivity", "lifetime"}
       /\ disk' = Write(files)
       /\ child' = [child EXCEPT !.pc = "result", !.thermal = thermal, !.computed = @ \cup files]
  /\ UNCHANGED <<shared, compare, state, request, models, fresh, rows, plots>>

Result(torn) == [by |-> Me, thermal |-> child.thermal, relaxed |-> 0, torn |-> torn]

WriteResult ==
  /\ Goto("result", "exited")
  /\ disk' = InGivenDir({}, Result(FALSE))
  /\ UNCHANGED <<shared, compare, state, request, models, fresh, rows, plots>>

-------------------------------------------------------------------------------
Report == IF request.isolate THEN Given.result ELSE Result(FALSE)

(* The conductivities are taken from the report, or from the file.         *)
ConductivityOf(report) ==
  IF report.thermal = "completed" THEN report.by ELSE Given.data["conductivity"]

(* The row of a child that succeeded: its report, and the files that there *)
(* are in its directory.                                                   *)
SummaryRow ==
  [status    |-> IF request.dry_run /\ ~request.isolate THEN "dry-run" ELSE "success",
   category  |-> "none",
   by        |-> Report.by,
   data      |-> [Given.data EXCEPT !["conductivity"] = ConductivityOf(Report)],
   computed  |-> child.computed,
   settings  |-> child.settings,
   structure |-> child.structure,
   outcome   |-> "success"]

FailedRow(category, outcome) ==
  [NoRow EXCEPT !.category = category, !.outcome = outcome,
                !.settings = child.settings, !.structure = child.structure]

(* With a shared relaxation the parent notes it in the result, which it    *)
(* writes again, to the directory given.                                   *)
WithSharedRelax(report) == [report EXCEPT !.relaxed = compare]

Collect ==
  /\ child.pc = "exited"
  /\ ~Report.torn
  /\ disk' = IF request.relax
             THEN [disk EXCEPT ![child.dir].result = WithSharedRelax(Report)]
             ELSE disk
  /\ rows' = Append(rows, SummaryRow)
  /\ child' = NoChild
  /\ UNCHANGED <<shared, compare, state, request, models, fresh, plots>>

(* A report that was cut off cannot be read, and counts as a failure.      *)
CollectTorn ==
  /\ child.pc = "exited"
  /\ Report.torn
  /\ rows' = Append(rows, FailedRow("runtime_error", "success"))
  /\ child' = NoChild
  /\ UNCHANGED <<disk, shared, compare, state, request, models, fresh, plots>>

(* A child fails between its files: an exception of its own, or, in a      *)
(* subprocess, a kill, which may cut its result off.                       *)
Classify(cause) == IF cause = "killed" THEN "out_of_memory" ELSE "runtime_error"

(* A slip: the return code of the subprocess is not looked at.             *)
FailUnseen(cause) ==
  /\ child.pc \in {"phonons", "thermal", "result"}
  /\ rows' = Append(rows, [SummaryRow EXCEPT !.outcome = "failed"])
  /\ disk' = disk
  /\ child' = NoChild
  /\ UNCHANGED <<shared, compare, state, request, models, fresh, plots>>

Fail(cause) ==
  /\ child.pc \in {"phonons", "thermal", "result"}
  /\ cause = "killed" => request.isolate
  /\ rows' = Append(rows, FailedRow(Classify(cause), "failed"))
  /\ \/ disk' = disk
     \/ cause = "killed" /\ child.pc = "result" /\ disk' = InGivenDir({}, Result(TRUE))
  /\ child' = NoChild
  /\ UNCHANGED <<shared, compare, state, request, models, fresh, plots>>

(* A plot shows the children that succeeded and have its data.             *)
Shown(file, statuses) ==
  {rows[i].data[file] : i \in {j \in DOMAIN rows : rows[j].status \in statuses}} \ {None}

KappaBars      == Shown("conductivity", {"success", "dry-run"})
ThermalCurves  == Shown("conductivity", {"success"})
BandCurves     == Shown("band", {"success"})
DosCurves      == Shown("dos", {"success"})
VelocityClouds == Shown("velocity", {"success"})
LifetimeClouds == IF request.compute_kappa THEN Shown("lifetime", {"success"}) ELSE {}

EndCompare ==
  /\ state = "running" /\ Index > Len(models)
  /\ state' = "ended"
  /\ plots' = [kappa_bar |-> KappaBars, conductivity |-> ThermalCurves, band |-> BandCurves,
               dos |-> DosCurves, velocity |-> VelocityClouds, lifetime |-> LifetimeClouds]
  /\ UNCHANGED <<disk, shared, compare, request, models, fresh, child, rows>>

(* The comparison and its child are killed together, the rows are lost.    *)
KillCompare ==
  /\ state \in {"relaxing", "running"}
  /\ state' = "killed"
  /\ \/ disk' = disk
     \/ child.pc = "result" /\ disk' = InGivenDir({}, Result(TRUE))
  /\ child' = NoChild /\ rows' = <<>>
  /\ UNCHANGED <<shared, compare, request, models, fresh, plots>>

Rest == state \notin {"relaxing", "running"} /\ compare = LastCompare /\ UNCHANGED vars

Next ==
  \/ \E r \in Requests, selected \in Selections : StartCompare(r, selected)
  \/ Relax \/ Unknown \/ Begin \/ Phonons \/ Thermals \/ WriteResult
  \/ Collect \/ CollectTorn \/ (\E cause \in {"exception", "killed"} : Fail(cause))
  \/ EndCompare \/ KillCompare \/ Rest

Spec == Init /\ [][Next]_vars

-------------------------------------------------------------------------------
OwnDirectories ==
  \A i, j \in DOMAIN models :
    i # j /\ Known(models[i]) /\ Known(models[j]) => subdir(models[i]) # subdir(models[j])

(* What a comparison shows of a model was computed by that model in this   *)
(* comparison, and nothing that it computed is missing from the plots.  It *)
(* takes models with directories of their own, none of which had a result  *)
(* that the child had to move away from, and a real calculation; what this *)
(* one's child did not compute (no density of states asked for, no group   *)
(* velocities, conductivities or lifetimes to be had) is left over from an *)
(* earlier comparison.                                                     *)
RowsAreTheirOwn ==
  state = "ended" /\ OwnDirectories /\ fresh /\ ~request.dry_run =>
    \A i \in DOMAIN rows :
      LET own == <<compare, i>> IN
      rows[i].status = "success" =>
        /\ rows[i].by = own
        /\ "band" \in rows[i].computed
        /\ \A f \in rows[i].computed : rows[i].data[f] = own /\ own \in plots[f]

(* Every model selected has its row, in the order of the selection; a model*)
(* that fails does not keep the others from being compared, and is in no   *)
(* plot.  The row tells success from failure, unless an earlier comparison *)
(* left a result that cannot be read.                                      *)
EveryModelHasItsRow ==
  state = "ended" =>
    /\ Len(rows) = Len(models)
    /\ \A i \in DOMAIN rows :
         /\ rows[i].status = "failed" => rows[i].outcome = "failed" \/ ~fresh \/ ~OwnDirectories
         /\ rows[i].status # "failed" => rows[i].outcome = "success" /\ Known(models[i])
         /\ rows[i].category = "none" <=> rows[i].status # "failed"
         /\ (rows[i].status = "failed" /\ OwnDirectories) =>
              \A p \in PlotNames : <<compare, i>> \notin plots[p]

(* The models are compared on equal terms: the children started from one   *)
(* structure, with the options of the command wherever they apply, and     *)
(* alike in all but the policies of DeepMD and the safe target.  In the    *)
(* process of the comparison DPA models overrule some of the options.      *)
Applies(o, selection) ==
  /\ o \in Thermal \cup HiphiveOptions => request.compute_kappa
  /\ o \in HiphiveOptions => request.hiphive
  /\ o \in DeepMD => IsDeepMD(selection)
  /\ o = "target_supercell_length" => ~Safe(request, selection)
Overruled == IF request.isolate THEN {} ELSE DOMAIN DpaDefaults \cup {"displacement"}

ChildrenAreComparable ==
  LET started == {i \in DOMAIN rows : rows[i].settings # NoSettings} IN
  state = "ended" =>
    \A i \in started :
      /\ rows[i].structure = IF request.relax THEN compare ELSE 0
      /\ rows[i].settings["relax"] = "false"
      /\ \A o \in Settable \ Overruled :
           request.options[o] # "unset" /\ Applies(o, models[i])
           => rows[i].settings[o] = request.options[o]
      /\ \A j \in started, o \in Settable \ (DeepMD \cup Overruled) :
           \/ o = "target_supercell_length" /\ request.dpa_safe_mode
           \/ rows[i].settings[o] = rows[j].settings[o]

(* The records are true: the command that a workflow gives for repeating it*)
(* leads to the same recorded settings, except for the few options it      *)
(* leaves out, which are the default again whatever they were; a setting   *)
(* that is recorded as nobody's is a default; the command in the row of a  *)
(* child leads to the settings the child had.  The command of several      *)
(* temperatures is refused, and in the process of the comparison no option *)
(* counts as the user's.                                                   *)
RecordsAreTrue ==
  /\ compare = 0 =>
       \A command \in Commands, deepmd, dpa \in BOOLEAN :
         (dpa => deepmd) => /\ Repeats(single(command, dpa), deepmd)
                            /\ TellsWhoDecided(single(command, dpa), merge_overrides(command),
                                               option_sources(command))
  /\ \A i \in {j \in DOMAIN rows : rows[j].settings # NoSettings} :
       LET command == model_command(request, models[i])
       IN  /\ Repeats(rows[i].settings, IsDeepMD(models[i]))
           /\ request.isolate => TellsWhoDecided(rows[i].settings, merge_overrides(command),
                                                 option_sources(command))
           /\ \A o \in Settable \ Overruled :
                Applies(o, models[i]) => single(command, IsAlias(models[i]))[o] = rows[i].settings[o]

(* The supercell a workflow chooses fits its limits, for force constants of*)
(* second and of third order.  It depends on no variable; one state is     *)
(* enough to look at it.                                                   *)
SupercellsFit ==
  compare = 0 =>
    \A structure \in Structures, limits \in Limits :
      LET vacuum == VacuumAxes(structure) IN
      /\ Fits(infer_supercell_dim(structure, vacuum, limits), structure, vacuum, limits)
      /\ Fits(resolve_fc3_supercell_dim(structure, limits), structure, {},
              [limits EXCEPT !.min_dim = 1, !.max_dim = 6])
      /\ \A a \in vacuum : default_q_mesh_for_structure(vacuum)[a] = 1

(* Where a layer begins and ends within the cell and its vacuum is clear,  *)
(* the two ways to recognise it agree: the vacuum is neither repeated nor  *)
(* sampled nor crossed by the bands.  The last only if it is the third     *)
(* axis.  In a cell of short axes there is no vacuum for either.           *)
ClearLayer(s, axis) ==
  /\ s.lengths[axis] >= 15 /\ \A a \in Axes \ {axis} : s.lengths[a] < 12
  /\ (Parts - Span(s.positions[axis])) * 100 >= 35 * Parts
  /\ VacuumLength(s, axis) >= 8 * Parts

LayersAreRecognised ==
  compare = 0 =>
    \A s \in Structures :
      LET vacuum == VacuumAxes(s)
          path   == generate_kpath(s, "auto")
      IN  /\ path # Raises
          /\ (\A a \in Axes : s.lengths[a] < 12) => vacuum = {} /\ path.mode = "3d_seekpath"
          /\ \A axis \in Axes : ClearLayer(s, axis) =>
               /\ vacuum = {axis} /\ path.mode = "2d_ase" /\ path.vacuum = axis
               /\ \A limits \in Limits : infer_supercell_dim(s, vacuum, limits)[axis] = 1
               /\ default_q_mesh_for_structure(vacuum)[axis] = 1
               /\ axis = 3 => axis \notin path.axes
===============================================================================
