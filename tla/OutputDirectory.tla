---------------------------- MODULE OutputDirectory ----------------------------
(***************************************************************************)
(* The output directory of a single workflow (workflow/pipeline.py): which *)
(* files a run writes and in which order, where it writes them, and when a *)
(* later run accepts the directory as complete.                            *)
(*                                                                         *)
(* A directory is a function from the files that matter to the state they  *)
(* are in: who opened the file last, and how much of it is written.  Every *)
(* file is opened for writing, which empties it, and then written in place.*)
(***************************************************************************)
EXTENDS Naturals, Sequences

Files == { "settings",          \* resolved_config.yaml, resolved_settings.*, run_command.txt
           "structure",         \* input_structure.vasp .. spacegroup_report.txt
           "force_constants",   \* force_constants.hdf5, phonopy.yaml
           "band",              \* band.yaml
           "plot",              \* phonon_band.png
           "summary",           \* summary.txt
           "result",            \* result.json
           "stability" }        \* stability_report.json and .txt

Sizes == {"absent", "empty", "part", "whole"}

Nobody   == 0
NoFile   == [by |-> Nobody, size |-> "absent"]
EmptyDir == [f \in Files |-> NoFile]
By(run)  == [by |-> run, size |-> "whole"]

(* A configuration, reduced to the options the handling of files depends   *)
(* on: the output path, --overwrite, --resume, --dry-run (or               *)
(* --print-config), and whether the backend computes or is the dummy.      *)
ConfigsAt(bases) ==
  [base: bases, overwrite: BOOLEAN, resume: BOOLEAN, dry: BOOLEAN, real: BOOLEAN]

(* The files a run writes after its settings, in order: for the structure, *)
(* the harmonic phonons, the reports (which are timed and written again),  *)
(* the reports of the dummy and of a dry run.                              *)
StructureWrites == <<"structure">>
HarmonicWrites  == <<"force_constants", "band", "plot">>
ReportWrites    == <<"summary", "result", "stability", "summary", "result">>
DummyReports    == <<"summary", "result", "stability">>
DryReports      == <<"result", "summary", "result", "summary">>

Writes(config) ==
  CASE config.dry  -> DryReports
    [] ~config.dry /\ config.real  -> StructureWrites \o HarmonicWrites \o ReportWrites
    [] ~config.dry /\ ~config.real -> StructureWrites \o DummyReports

(* Slips: nobody looks whether there is a result; only one that can be read*)
(* counts.                                                                 *)
ResolveGiven(config, disk, second) == <<config.base, 0>>
ResolveWhole(config, disk, second) ==
  IF disk[<<config.base, 0>>]["result"].size = "whole" /\ ~config.overwrite /\ ~config.resume
  THEN <<config.base, second>>
  ELSE <<config.base, 0>>

(* Where a run writes: an output path that has a result.json is left alone,*)
(* unless the user says what to do with it; the run then goes to a path    *)
(* named after the second.  0 stands for the path as it was given.         *)
Resolve(config, disk, second) ==
  IF disk[<<config.base, 0>>]["result"].size # "absent" /\ ~config.overwrite /\ ~config.resume
  THEN <<config.base, second>>
  ELSE <<config.base, 0>>

(* A result.json that was cut off is no JSON, and reading it raises.       *)
Unreadable(files) == files["result"].size \in {"empty", "part"}

(* _is_complete_result.  All runs that get as far as result.json claim     *)
(* success in it.                                                          *)
IsComplete(files) ==
  /\ files["result"].size = "whole"
  /\ \A f \in {"force_constants", "band", "plot", "summary"} : files[f].size \in {"part", "whole"}
===============================================================================
