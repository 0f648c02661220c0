----------------------------- MODULE MCBatchWorkflow -----------------------------
(* Two structures with or without a common name, and batches with the      *)
(* options that meet: threads and conductivities, plain, overwriting and   *)
(* resuming.                                                               *)
EXTENDS BatchWorkflow

TwoInputs == {<<"Si", "Ge">>, <<"Si", "Si">>}

Plain == [max_workers |-> 1, resume |-> FALSE, overwrite |-> FALSE, kappa |-> FALSE]

SomeOptions ==
  { Plain,
    [Plain EXCEPT !.kappa = TRUE, !.overwrite = TRUE],
    [Plain EXCEPT !.max_workers = 2, !.kappa = TRUE],
    [Plain EXCEPT !.max_workers = 2, !.resume = TRUE] }
===============================================================================
