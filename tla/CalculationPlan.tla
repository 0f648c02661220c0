----------------------------- MODULE CalculationPlan -----------------------------
(***************************************************************************)
(* What one calculation writes into its output directory, in the order of  *)
(* the code: workflow/pipeline.py, workflow/phonon.py, workflow/relax.py   *)
(* and the stages of thermal/.  Files written by one call stand for one    *)
(* name, the first of them.                                                *)
(***************************************************************************)
EXTENDS Naturals, Sequences, SequencesExt

Meshes == 1 .. 2       \* kappa meshes, in the order in which their files are sorted

KappaFiles == <<"kappa-m111.hdf5", "kappa-m222.hdf5">>

(* A configuration, reduced to the options that decide which files are     *)
(* written: the backend, which a dry run does not use, relaxation, the     *)
(* export of text force constants ("same": both files have one name;       *)
(* "renamed": the first is not called FORCE_CONSTANTS), the audit of       *)
(* forces, the density of states, and how the third-order force constants  *)
(* are made, for which mesh.                                               *)
Configurations ==
  [backend: {"real", "dummy", "dry"}, relax: BOOLEAN, text: {"no", "default", "same", "renamed"},
   audit: BOOLEAN, dos: BOOLEAN, kappa: {"no", "finite-displacement", "hiphive"},
   mesh: Meshes]

fc2_text_name(c) ==
  CASE c.text = "same"    -> "FORCE_CONSTANTS_2ND"
    [] c.text = "renamed" -> "fc2.txt"
    [] OTHER              -> "FORCE_CONSTANTS"
shengbte_fc2_name == "FORCE_CONSTANTS_2ND"

(* A step belongs to a part of the calculation, which decides what an      *)
(* exception in it does.                                                   *)
StepsOf(part, names) == [i \in DOMAIN names |-> [part |-> part, name |-> names[i]]]
Only(condition, names) == IF condition THEN names ELSE <<>>

(* relax.log is written by the optimizer, or, without relaxation, by the   *)
(* pipeline; the dummy's own relaxation writes none.                       *)
Relaxation(c) == Only(c.backend = "real" \/ ~c.relax, <<"relax.log">>)

(* Settings and structure, then the harmonic phonons.                      *)
StructureStage(c) ==
  StepsOf("core", <<"resolved_config.yaml", "input_structure.vasp">>
                \o Relaxation(c)
                \o <<"relaxed.vasp", "spacegroup_report.json">>)

(* The audit of the forces of one order, over the one of an earlier stage. *)
ForceAudit(c, order) ==
  Only(c.audit, <<IF order = 2 THEN "fd_fc2_forces_stats.csv" ELSE "fd_fc3_forces_stats.csv">>)

(* A slip: the first text file is left beside its copy.                    *)
TextExportTwice(c) ==
  StepsOf("text", Only(c.text # "no", <<fc2_text_name(c), "copy">>))

(* Text force constants are written, copied to the second name, and then   *)
(* the first file is removed.                                              *)
TextExport(c) ==
  StepsOf("text", Only(c.text # "no", <<fc2_text_name(c), "copy", "unlink">>))

HarmonicForceConstants(c) ==
  StepsOf("core", ForceAudit(c, 2) \o <<"force_constants.hdf5">>)
  \o TextExport(c)
  \o StepsOf("core", <<"phonopy.yaml">>)

Bands              == StepsOf("core", <<"band.yaml">>)
DensityOfStates(c) == StepsOf("core", Only(c.dos, <<"phonon_dos.dat">>))
GroupVelocities    == StepsOf("velocity", <<"phonon_group_velocity.csv">>)

PhononStage(c) ==
  HarmonicForceConstants(c) \o Bands \o DensityOfStates(c) \o GroupVelocities

(* Both ways to the conductivity end alike: phono3py runs in the output    *)
(* directory, its kappa file is looked for and read.                       *)
ConductivityTable == <<"thermal_conductivity.csv">>
Conductivity == <<"phono3py_params.yaml", "phono3py", "select">> \o ConductivityTable \o <<"lifetime">>

FdDiagnostics        == <<"fd_fc3_diagnostics.json">>
HiphiveDiagnostics   == <<"hiphive_fit_diagnostics.json">>
TransportDiagnostics == <<"hiphive_fit_diagnostics.json">>      \* once more, with the transport

FiniteDisplacement(c) ==
  <<"available">>
  \o ForceAudit(c, 3) \o ForceAudit(c, 2)
  \o <<"fc3.hdf5">> \o Conductivity \o FdDiagnostics

Hiphive ==
  <<"available", "hiphive_model.fcp", "fc3.hdf5">> \o HiphiveDiagnostics
  \o <<"hiphive_fit_summary.json">> \o Conductivity \o TransportDiagnostics

ThermalStage(c) ==
  StepsOf("thermal",
        CASE c.kappa = "no"                  -> <<>>
          [] c.kappa = "finite-displacement" -> FiniteDisplacement(c)
          [] c.kappa = "hiphive"             -> Hiphive)

(* The reports of the real workflow are timed, and written again with the  *)
(* time they took.                                                         *)
RealReportSteps  == StepsOf("core", <<"timing_breakdown.json", "summary.txt", "result.json",
                                   "stability_report.json", "timing_breakdown.json",
                                   "summary.txt", "result.json">>)
DummyReportSteps == StepsOf("core", <<"timing_breakdown.json", "summary.txt", "result.json",
                                   "stability_report.json">>)

(* A dry run writes its result before the summary that it lists.           *)
DryReportSteps   == StepsOf("core", <<"timing_breakdown.json", "spacegroup_report.json",
                                   "result.json", "summary.txt", "timing_breakdown.json",
                                   "result.json", "summary.txt">>)

(* What these two list is fixed.                                           *)
DryListed   == {"resolved_config.yaml", "timing_breakdown.json", "spacegroup_report.json",
                "summary.txt"}
DummyListed == DryListed \cup {"input_structure.vasp", "relaxed.vasp"}

Plan(c) ==
  CASE c.backend = "real"  -> StructureStage(c) \o PhononStage(c) \o ThermalStage(c) \o RealReportSteps
    [] c.backend = "dummy" -> StructureStage(c) \o DummyReportSteps
    [] c.backend = "dry"   -> StepsOf("core", <<"resolved_config.yaml">>) \o DryReportSteps

(* Steps that write no file under their own name.                          *)
Calls == {"copy", "unlink", "available", "phono3py", "select", "lifetime"}

FileNames ==
  { "resolved_config.yaml", "input_structure.vasp", "relax.log", "relaxed.vasp",
    "spacegroup_report.json", "fd_fc2_forces_stats.csv", "force_constants.hdf5",
    "FORCE_CONSTANTS", "FORCE_CONSTANTS_2ND", "fc2.txt", "phonopy.yaml", "band.yaml",
    "phonon_dos.dat", "phonon_group_velocity.csv", "fd_fc3_forces_stats.csv", "fc3.hdf5",
    "phono3py_params.yaml", "thermal_conductivity.csv", "phonon_lifetime.csv",
    "fd_fc3_diagnostics.json", "hiphive_model.fcp", "hiphive_fit_summary.json",
    "hiphive_fit_diagnostics.json", "timing_breakdown.json", "summary.txt", "result.json",
    "stability_report.json" } \cup {KappaFiles[m] : m \in Meshes}

(* What output_files of the result never lists, although it is written.    *)
Unlisted ==
  { "FORCE_CONSTANTS", "fc2.txt", "fd_fc2_forces_stats.csv", "fd_fc3_forces_stats.csv",
    "hiphive_model.fcp", "result.json", "stability_report.json" }
===============================================================================
