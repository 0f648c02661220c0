----------------------------- MODULE MCCompareModels -----------------------------
(* Two models of a kind of its own, two names of one model beside a name of*)
(* none; requests with a shared relaxation or without, in subprocesses or  *)
(* not, overwriting, dry, with options that take every way; structures of  *)
(* equal and unequal axes, with and without vacuum.                        *)
EXTENDS CompareModels, TLC

SomeSelections == { <<"dpa4", "nep89">>, <<"a/net.pt", "b/net.pt", "nickel">> }

Unset == [o \in Settable |-> "unset"]
Given1 ==
  [Unset EXCEPT !["supercell_dim"] = "2 2 2", !["displacement"] = "0.02",
                !["kappa_method"] = "lbte", !["phono3py_symmetrize_fc2"] = "false",
                !["deepmd_reuse_calculator"] = "false", !["n_structures"] = "50", !["temperatures"] = "several"]
Given2 ==
  [Unset EXCEPT !["target_supercell_length"] = "10.0", !["dos"] = "false",
                !["deepmd_deterministic"] = "false", !["phono3py_symmetrize_fc2"] = "false"]

Plain == [options |-> Unset, isolate |-> TRUE, relax |-> FALSE, compute_kappa |-> FALSE,
          hiphive |-> FALSE, dpa_safe_mode |-> FALSE, overwrite |-> FALSE, dry_run |-> FALSE]

SomeRequests ==
  { [Plain EXCEPT !.options = Given1, !.compute_kappa = TRUE, !.relax = TRUE],
    [Plain EXCEPT !.options = Given2, !.overwrite = TRUE, !.dpa_safe_mode = TRUE],
    [Plain EXCEPT !.options = Given1, !.compute_kappa = TRUE, !.hiphive = TRUE, !.isolate = FALSE, !.relax = TRUE],
    [Plain EXCEPT !.dry_run = TRUE, !.overwrite = TRUE],
    [Plain EXCEPT !.dry_run = TRUE, !.isolate = FALSE] }

(* Command lines of single: any flags, a supercell or none, temperatures,  *)
(* an optimizer of its own.                                                *)
Flags == {"relax", "relax_cell", "dos", "deepmd_deterministic", "phono3py_symmetrize_fc2"}
SomeCommands ==
  { [o \in {p \in DOMAIN line : line[p] # "unset"} |-> line[o]] :
      line \in { flags @@ [supercell_dim |-> dim, temperatures |-> several,
                                optimizer |-> optimizer] :
                   flags \in [Flags -> {"unset", "true", "false"}],
                   dim \in {"unset", "2 2 2"}, several \in {"unset", "one", "several"},
                   optimizer \in {"unset", "LBFGS"} } }

Even   == {0, 10}
Layer  == {0, 2, 4}
Thick  == {2, 8, 14}
Across == {1, 19}
SomeStructures ==
  { Structure(lengths, positions, atoms) :
      lengths \in { <<4, 4, 4>>, <<3, 3, 9>>, <<2, 5, 7>>, <<3, 3, 20>>, <<16, 7, 3>>,
                   <<3, 24, 13>>, <<20, 20, 20>> },
      positions \in { <<Even, Even, Even>>, <<Even, Even, Layer>>, <<Layer, Even, Even>>,
                     <<Even, Thick, Even>>, <<Even, Even, Across>> },
      atoms \in {1, 2, 8, 60, 300} }
SomeLimits ==
  [target : {10, 15, 31}, min_dim : {1, 2}, max_dim : {2, 6}, max_atoms : {1, 60, 200, 400}]
===============================================================================
