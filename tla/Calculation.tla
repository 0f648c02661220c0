------------------------------- MODULE Calculation -------------------------------
(***************************************************************************)
(* Calculations that follow each other in one output directory (--overwrite*)
(* or --resume without a result): each writes its files over those of the  *)
(* earlier ones, which nothing removes first, leaves out what the stage    *)
(* that fails would have written, and reports what it has.                 *)
(*                                                                         *)
(* Exceptions are of two kinds.  In the text export, the group velocities  *)
(* and the thermal stage they are caught, and the calculation goes on with *)
(* a warning or a reason; anywhere else they end it.                       *)
(***************************************************************************)
EXTENDS CalculationPlan, FiniteSets

CONSTANTS
  LastCalculation, \* calculations are numbered from 1 to this
  Setups          \* the configurations they use

ASSUME CalculationAssumption ==
  /\ LastCalculation \in Nat
  /\ Setups \subseteq Configurations /\ Setups # {}

NoCalculation == 0
Calculations  == 1 .. LastCalculation
NoReport == [by |-> NoCalculation, listed |-> {}, said |-> {}, thermal |-> "skipped"]

VARIABLES
  files,           \* the calculation that wrote each file last
  run,             \* the current or last calculation
  state,           \* none yet, running, finished or stopped
  setup,           \* its configuration
  todo,            \* the steps it has before it
  done,            \* what it will list in its result, with the part that made it
  said,            \* the parts it gave a warning or a reason for
  silent,          \* phono3py wrote no kappa file for it
  outcome          \* result.json

calculationVars == <<files, run, state, setup, todo, done, said, silent, outcome>>

CalculationInit ==
  /\ files = [f \in FileNames |-> NoCalculation]
  /\ run = NoCalculation
  /\ state = "none"
  /\ setup = CHOOSE c \in Setups : TRUE
  /\ todo = <<>>
  /\ done = {}
  /\ said = {}
  /\ silent = FALSE
  /\ outcome = NoReport

-------------------------------------------------------------------------------
Exists(f) == files[f] # NoCalculation

Start(c) ==
  /\ state # "running"
  /\ run < LastCalculation
  /\ run' = run + 1
  /\ state' = "running"
  /\ setup' = c
  /\ todo' = Plan(c)
  /\ done' = {}
  /\ said' = {}
  /\ silent' = FALSE
  /\ UNCHANGED <<files, outcome>>

NextIs(name) == state = "running" /\ todo # <<>> /\ Head(todo).name = name

(* The step that is next leaves a file that belongs to this calculation.   *)
Wrote(f) ==
  /\ files' = [files EXCEPT ![f] = run]
  /\ done' = done \cup {[part |-> Head(todo).part, name |-> f]}
  /\ todo' = Tail(todo)

WriteFile ==
  /\ state = "running" /\ todo # <<>>
  /\ Head(todo).name \notin Calls \cup {"result.json"}
  /\ Wrote(Head(todo).name)
  /\ UNCHANGED <<run, state, setup, said, silent, outcome>>

Listed ==
  CASE setup.backend = "dry"   -> DryListed
    [] setup.backend = "dummy" -> DummyListed
    [] setup.backend = "real"  -> {d.name : d \in done} \ Unlisted

ThermalStatus ==
  CASE setup.kappa = "no" \/ setup.backend # "real" -> "skipped"
    [] OTHER -> IF "thermal" \in said THEN "failed" ELSE "completed"

WriteResult ==
  /\ NextIs("result.json")
  /\ Wrote("result.json")
  /\ outcome' = [by |-> run, listed |-> Listed, said |-> said, thermal |-> ThermalStatus]
  /\ UNCHANGED <<run, state, setup, said, silent>>

(* shutil.copyfile refuses to copy a file onto itself.                     *)
Copy ==
  /\ NextIs("copy")
  /\ fc2_text_name(setup) # shengbte_fc2_name
  /\ Wrote(shengbte_fc2_name)
  /\ UNCHANGED <<run, state, setup, said, silent, outcome>>

Unlink ==
  /\ NextIs("unlink")
  /\ LET duplicate == fc2_text_name(setup) IN
       files' = IF Exists(duplicate) /\ Exists(shengbte_fc2_name) /\ duplicate # shengbte_fc2_name
                THEN [files EXCEPT ![duplicate] = NoCalculation]
                ELSE files
  /\ todo' = Tail(todo)
  /\ UNCHANGED <<run, state, setup, done, said, silent, outcome>>

(* phono3py can be imported, and HiPhive or the WTE plugin where they are  *)
(* asked for; FailPart stands for the case that one of them cannot.        *)
Available ==
  /\ NextIs("available")
  /\ todo' = Tail(todo)
  /\ UNCHANGED <<files, run, state, setup, done, said, silent, outcome>>

(* phono3py writes the kappa file of the mesh, or it returns without.      *)
RunPhono3py ==
  /\ NextIs("phono3py")
  /\ \/ files' = [files EXCEPT ![KappaFiles[setup.mesh]] = run] /\ silent' = FALSE
     \/ files' = files /\ silent' = TRUE
  /\ todo' = Tail(todo)
  /\ UNCHANGED <<run, state, setup, done, said, outcome>>

SomeKappa == {m \in Meshes : Exists(KappaFiles[m])}

(* A slip: the last of the kappa files, whatever the mesh is.              *)
LastKappa == KappaFiles[CHOOSE m \in SomeKappa : \A n \in SomeKappa : n <= m]

(* The file of the mesh is preferred; without it, the last one in order.   *)
SelectedKappa ==
  IF Exists(KappaFiles[setup.mesh])
  THEN KappaFiles[setup.mesh]
  ELSE KappaFiles[CHOOSE m \in SomeKappa : \A n \in SomeKappa : n <= m]

SelectKappa ==
  /\ NextIs("select")
  /\ SomeKappa # {}
  /\ done' = done \cup {[part |-> "thermal", name |-> SelectedKappa]}
  /\ todo' = Tail(todo)
  /\ UNCHANGED <<files, run, state, setup, said, silent, outcome>>

(* The lifetimes are written, or the kappa file has none.                  *)
Lifetime ==
  /\ NextIs("lifetime")
  /\ \/ Wrote("phonon_lifetime.csv") /\ said' = said
     \/ said' = said \cup {"lifetime"} /\ todo' = Tail(todo) /\ UNCHANGED <<files, done>>
  /\ UNCHANGED <<run, state, setup, silent, outcome>>

-------------------------------------------------------------------------------
(* A caught exception may come after the file of the step was written.     *)
MaybeWritten ==
  \/ files' = files
  \/ /\ Head(todo).name \notin Calls
     /\ files' = [files EXCEPT ![Head(todo).name] = run]

(* The steps of the part that are left are skipped.                        *)
GiveUpPart(part) ==
  /\ \E n \in DOMAIN todo :
       /\ \A i \in 1 .. n : todo[i].part = part
       /\ n < Len(todo) => todo[n + 1].part # part
       /\ todo' = SubSeq(todo, n + 1, Len(todo))
  /\ done' = {d \in done : d.part # part}

(* A slip: the failed export is logged and not warned of.                  *)
LogText ==
  /\ state = "running" /\ todo # <<>> /\ Head(todo).part = "text" /\ Head(todo).name # "unlink"
  /\ MaybeWritten /\ GiveUpPart("text")
  /\ UNCHANGED <<run, state, setup, said, silent, outcome>>

(* The text export fails: a warning, and no text files in the result.      *)
FailText ==
  /\ state = "running" /\ todo # <<>> /\ Head(todo).part = "text" /\ Head(todo).name # "unlink"
  /\ MaybeWritten /\ GiveUpPart("text")
  /\ said' = said \cup {"text"}
  /\ UNCHANGED <<run, state, setup, silent, outcome>>

(* Group velocities and the thermal stage give a reason for what they lack.*)
FailPart ==
  /\ state = "running" /\ todo # <<>> /\ Head(todo).part \in {"velocity", "thermal"}
  /\ MaybeWritten /\ GiveUpPart(Head(todo).part)
  /\ said' = said \cup {Head(todo).part}
  /\ UNCHANGED <<run, state, setup, silent, outcome>>

(* Any other exception, or a kill, ends the calculation where it is.       *)
StopCalculation ==
  /\ state = "running"
  /\ state' = "stopped"
  /\ UNCHANGED <<files, run, setup, todo, done, said, silent, outcome>>

Finish ==
  /\ state = "running" /\ todo = <<>>
  /\ state' = "finished"
  /\ UNCHANGED <<files, run, setup, todo, done, said, silent, outcome>>

Rest == state # "running" /\ run = LastCalculation /\ UNCHANGED calculationVars

CalculationNext ==
  \/ \E c \in Setups : Start(c)
  \/ WriteFile \/ WriteResult \/ Copy \/ Unlink
  \/ Available \/ RunPhono3py \/ SelectKappa \/ Lifetime
  \/ FailText \/ FailPart \/ StopCalculation \/ Finish \/ Rest

CalculationSpec == CalculationInit /\ [][CalculationNext]_calculationVars

-------------------------------------------------------------------------------
(* A finished calculation lists no file that an earlier one left: neither  *)
(* text force constants, nor lifetimes, nor a kappa file of another mesh.  *)
(* The exception is a phono3py that returns without writing: then the kappa*)
(* file of an earlier calculation is taken for its own.                    *)
ListsItsOwnFiles ==
  state = "finished" =>
    /\ outcome.by = run
    /\ \A f \in outcome.listed : files[f] = run \/ (silent /\ f \in Range(KappaFiles))

(* Everything the user asked for is in the result, or the result says that *)
(* it is not and why.                                                      *)
NothingMissingUnsaid ==
  state = "finished" /\ setup.backend = "real" =>
    /\ setup.dos => "phonon_dos.dat" \in outcome.listed
    /\ setup.text # "no" => shengbte_fc2_name \in outcome.listed \/ "text" \in outcome.said
    /\ "phonon_group_velocity.csv" \in outcome.listed \/ "velocity" \in outcome.said
    /\ setup.kappa # "no" =>
         \/ "thermal" \in outcome.said /\ outcome.thermal = "failed"
         \/ /\ outcome.thermal = "completed"
            /\ {"fc3.hdf5", "thermal_conductivity.csv"} \subseteq outcome.listed
            /\ "phonon_lifetime.csv" \in outcome.listed \/ "lifetime" \in outcome.said

(* What scripts/validate_output.py looks for in the directory of a real    *)
(* workflow, files only.                                                   *)
Required ==
  { "resolved_config.yaml", "input_structure.vasp", "relaxed.vasp", "relax.log",
    "force_constants.hdf5", "phonopy.yaml", "band.yaml", "result.json",
    "stability_report.json", "spacegroup_report.json", "summary.txt" }

ValidText ==
  setup.text # "no" => ~Exists("FORCE_CONSTANTS") /\ Exists(shengbte_fc2_name)

ValidThermal ==
  outcome.thermal = "completed" =>
    /\ Exists("fc3.hdf5") /\ Exists("thermal_conductivity.csv")
    /\ \E f \in outcome.listed \cap Range(KappaFiles) : Exists(f)

ValidVelocity ==
  "velocity" \notin outcome.said => Exists("phonon_group_velocity.csv")

Validates ==
  /\ \A f \in Required \cup outcome.listed : Exists(f)
  /\ setup.dos => Exists("phonon_dos.dat")
  /\ ValidText
  /\ ValidThermal
  /\ ValidVelocity

(* The validator accepts every finished real workflow, whatever earlier    *)
(* calculations left in the directory, unless the text files have names of *)
(* the user's or could not be exported.                                    *)
FinishedRunsValidate ==
  state = "finished" /\ setup.backend = "real"
    /\ setup.text \in {"no", "default"} /\ "text" \notin outcome.said
  => Validates
===============================================================================
