------------------------------ MODULE RecordedSettings ------------------------------
(***************************************************************************)
(* What a workflow records of its settings in resolved_settings.json       *)
(* (_build_resolved_settings of pipeline.py), and the command it says would*)
(* repeat it (_resolved_command).  What was found in place of "auto" is    *)
(* recorded and repeated; the command names the backend, not the alias it  *)
(* was asked for, so that a repetition gets none of the DPA defaults.  Some*)
(* options are recorded and not repeated.                                  *)
(***************************************************************************)
EXTENDS CompareSettings

(* The workers are not recorded, and DeepMD's settings only for DeepMD.    *)
RecordedOptions(deepmd) ==
  Settings \ ({"force_workers"} \cup (IF deepmd THEN {} ELSE DeepMD))

resolved_settings(settings, deepmd) ==
  [o \in RecordedOptions(deepmd) |->
     CASE o = "supercell_dim" /\ settings[o] = "default"    -> "found"
       [] o = "relax_cell" /\ settings["relax"] = "false"   -> "false"
       [] OTHER -> settings[o]]

(* Who decided: the command line, the structure, or nobody.                *)
source(o, requested, sources) ==
  IF o \in sources THEN "user"
  ELSE IF o = "supercell_dim" /\ requested[o] = "default" THEN "auto"
  ELSE "default"

(* A slip: flags are repeated when they are on.                            *)
OnlyTrueFlags(settings, deepmd) ==
  LET recorded == resolved_settings(settings, deepmd) IN
  [o \in {p \in DOMAIN recorded \ Unrepeated : recorded[p] # "false"} |-> recorded[o]]

resolved_command(settings, deepmd) ==
  LET recorded == resolved_settings(settings, deepmd) IN
  [o \in DOMAIN recorded \ (Unrepeated \cup IF settings["relax"] = "true" THEN {} ELSE {"relax_cell"})
     |-> recorded[o]]

(* Several temperatures follow one option, which takes a single one: such a*)
(* command is refused.                                                     *)
Accepted(command) == "temperatures" \in DOMAIN command => command["temperatures"] # "several"

(* Run again from its own command, a workflow records the same settings,   *)
(* but for the options that the command leaves out: they are the default.  *)
Repeats(settings, deepmd) ==
  LET command == resolved_command(settings, deepmd)
      again   == resolved_settings(single(command, FALSE), deepmd)
  IN  Accepted(command) =>
        \A o \in RecordedOptions(deepmd) :
          again[o] = IF o \in Unrepeated THEN Default[o] ELSE resolved_settings(settings, deepmd)[o]

(* A setting recorded as nobody's is a default of the program, and one     *)
(* recorded as found was not asked for.                                    *)
TellsWhoDecided(settings, requested, sources) ==
  \A o \in Settings :
    CASE source(o, requested, sources) = "default" ->
           settings[o] = Default[o] \/ (o \in DOMAIN DpaDefaults /\ settings[o] = DpaDefaults[o])
      [] source(o, requested, sources) = "auto" -> settings[o] = "default"
      [] source(o, requested, sources) = "user" -> settings[o] = requested[o]
===============================================================================
