------------------------------ MODULE CompareSettings ------------------------------
(***************************************************************************)
(* How the options of one compare-models command reach the workflow of     *)
(* each model: compare_models.py puts them on the command line of a        *)
(* subprocess, cli.py merges that line into the defaults of config.py, and *)
(* infer_default_config of defaults.py adds what DPA models want; or       *)
(* compare_models.py builds the configuration itself, in its own process.  *)
(*                                                                         *)
(* Options that take the same way are alike, so one of each kind stands    *)
(* for all.  A value is a string; "unset" is None.                         *)
(***************************************************************************)
EXTENDS Naturals, Sequences

(* The models that can be selected, by name or by path.                    *)
Registry    == {"dpa31", "dpa32", "dpa33", "dpa4neo"}
Aliases     == [dpa3 |-> "dpa32", dpa4 |-> "dpa4neo"]
CustomPaths == [x \in {"a/net.pt", "b/net.pt", "a/nep.txt"} |->
                  IF x = "a/nep.txt" THEN [stem |-> "custom_nep", deepmd |-> FALSE]
                                     ELSE [stem |-> "custom_net", deepmd |-> TRUE]]

canonical_dpa_alias(name) == IF name \in DOMAIN Aliases THEN Aliases[name] ELSE name

Known(selection) ==
  \/ selection = "nep89"
  \/ canonical_dpa_alias(selection) \in Registry
  \/ selection \in DOMAIN CustomPaths

(* The directory of the model, and its backend.                            *)
subdir(selection) ==
  IF selection \in DOMAIN CustomPaths THEN CustomPaths[selection].stem
                                      ELSE canonical_dpa_alias(selection)
backend(selection) ==
  CASE selection = "nep89" -> "calorine"
    [] canonical_dpa_alias(selection) \in Registry -> canonical_dpa_alias(selection)
    [] selection \in DOMAIN CustomPaths ->
         IF CustomPaths[selection].deepmd THEN "deepmd" ELSE "calorine"

IsAlias(selection)  == backend(selection) \in Registry
IsDeepMD(selection) == IsAlias(selection) \/ backend(selection) = "deepmd"

-------------------------------------------------------------------------------
(* Options for every calculation, for the conductivity, for HiPhive, and   *)
(* for DeepMD models.                                                      *)
Common   == {"supercell_dim", "target_supercell_length", "displacement", "force_workers", "dos",
             "phonopy_symprec"}
Thermal  == {"kappa_mesh", "kappa_method", "temperatures", "phono3py_symmetrize_fc2"}
HiphiveOptions == {"n_structures"}
DeepMD   == {"deepmd_device", "deepmd_deterministic", "deepmd_reuse_calculator", "save_force_audit"}
Settable == Common \cup Thermal \cup HiphiveOptions \cup DeepMD

(* Options compare-models does not have, and that a recorded command leaves*)
(* out: the optimizer, the method of the force constants, the points of a  *)
(* band, the backend and model of the relaxation, and the consent to DPA's.*)
Unrepeated == {"optimizer"}

Settings == Settable \cup Unrepeated \cup {"relax", "relax_cell"}

(* WorkflowConfig, as far as a default differs from "default".             *)
Default ==
  [o \in Settings |->
     CASE o \in {"deepmd_deterministic", "save_force_audit"} -> "false"
       [] o \in {"relax", "relax_cell", "dos", "phono3py_symmetrize_fc2", "deepmd_reuse_calculator"} -> "true"
       [] OTHER -> "default"]

(* What DPA models want instead, where the user has not said.              *)
DpaDefaults ==
  [relax |-> "false", deepmd_reuse_calculator |-> "true", deepmd_deterministic |-> "true",
   save_force_audit |-> "true", phono3py_symmetrize_fc2 |-> "true"]

(* A request: the options with their values, and the flags.                *)
Safe(request, selection) == request.dpa_safe_mode /\ backend(selection) = "dpa4neo"

(* What is said to a child even if it is the default; "auto" meshes and    *)
(* supercells are said, too, but a child reads them as if they were not.   *)
AlwaysSaid(request) ==
  {"relax", "phonopy_symprec"}
  \cup (IF request.compute_kappa THEN {"kappa_method", "temperatures"} ELSE {})

(* The command line of a child.  A child of a shared relaxation is told not*)
(* to relax, and without one it was not asked to.                          *)
OnCommandLine(request, selection) ==
  AlwaysSaid(request)
  \cup {o \in Common : request.options[o] # "unset"}
  \cup (IF Safe(request, selection) THEN {"target_supercell_length"} ELSE {})
  \cup {o \in Thermal : request.compute_kappa /\ request.options[o] # "unset"}
  \cup {o \in HiphiveOptions : request.compute_kappa /\ request.hiphive /\ request.options[o] # "unset"}
  \cup {o \in DeepMD : IsDeepMD(selection) /\ request.options[o] # "unset"}

model_command(request, selection) ==
  [o \in OnCommandLine(request, selection) |->
     CASE o = "relax" -> "false"
       [] o = "target_supercell_length" /\ Safe(request, selection) -> "12.0"
       [] OTHER -> IF request.options[o] = "unset" THEN Default[o] ELSE request.options[o]]

(* single: what is on the line replaces the default, and counts as the     *)
(* user's.                                                                 *)
option_sources(command) == DOMAIN command
merge_overrides(command) ==
  [o \in Settings |-> IF o \in DOMAIN command THEN command[o] ELSE Default[o]]

(* A slip: DPA models get what they want in any case.                      *)
InferAnyway(config, dpa_requested, sources) ==
  [o \in Settings |-> IF dpa_requested /\ o \in DOMAIN DpaDefaults
                      THEN DpaDefaults[o] ELSE config[o]]

infer_default_config(config, dpa_requested, sources) ==
  [o \in Settings |-> IF dpa_requested /\ o \in DOMAIN DpaDefaults \ sources
                      THEN DpaDefaults[o] ELSE config[o]]

single(command, dpa_requested) ==
  infer_default_config(merge_overrides(command), dpa_requested, option_sources(command))

ChildSettings(request, selection) == single(model_command(request, selection), IsAlias(selection))

(* In the process of compare-models: the displacement is not handed on,    *)
(* DeepMD models get their policies, and no option counts as the user's.   *)
InProcessConfig(request, selection) ==
  [o \in Settings |->
     CASE o = "relax" -> "false"
       [] o = "relax_cell" -> IF request.relax THEN "false" ELSE Default[o]
       [] o \in {"displacement"} \cup Unrepeated -> Default[o]
       [] o = "target_supercell_length" /\ Safe(request, selection) -> "12.0"
       [] o \in {"deepmd_deterministic", "save_force_audit"} /\ request.options[o] = "unset" ->
            IF IsDeepMD(selection) THEN "true" ELSE "false"
       [] OTHER -> IF request.options[o] = "unset" THEN Default[o] ELSE request.options[o]]

InProcessSettings(request, selection) ==
  infer_default_config(InProcessConfig(request, selection), IsAlias(selection), {})

SettingsOf(request, selection) ==
  IF request.isolate THEN ChildSettings(request, selection) ELSE InProcessSettings(request, selection)
===============================================================================
