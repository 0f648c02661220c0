------------------------------ MODULE MCCalculation ------------------------------
(* Configurations for TLC: the ways to the conductivity with two meshes,   *)
(* the text exports, and what leaves the most behind for the others.       *)
EXTENDS Calculation

Plain == [backend |-> "real", relax |-> TRUE, text |-> "no", audit |-> FALSE, dos |-> FALSE,
          kappa |-> "no", mesh |-> 1]

SomeSetups ==
  { [Plain EXCEPT !.text = "default", !.audit = TRUE, !.dos = TRUE, !.kappa = "finite-displacement"],
    [Plain EXCEPT !.text = "default", !.kappa = "finite-displacement", !.mesh = 2],
    [Plain EXCEPT !.kappa = "hiphive", !.relax = FALSE],
    [Plain EXCEPT !.text = "same"],
    [Plain EXCEPT !.text = "renamed", !.dos = TRUE],
    [Plain EXCEPT !.backend = "dummy", !.relax = FALSE],
    [Plain EXCEPT !.backend = "dry", !.kappa = "hiphive"] }
===============================================================================
