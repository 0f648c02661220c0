--------------------------- MODULE MCSingleWorkflow ---------------------------
(***************************************************************************)
(* SingleWorkflow for TLC: the configurations of each run.                 *)
(***************************************************************************)
EXTENDS SingleWorkflow

(* Calculations, which may overwrite or resume, and the dummy and dry runs,*)
(* which may resume.                                                       *)
AllConfigs ==
  {c \in ConfigsAt(Bases) :
     /\ ~(c.overwrite /\ c.resume)
     /\ c.dry \/ c.overwrite => c.real
     /\ ~(c.dry /\ c.overwrite)}

(* Calculations and dry runs that never overwrite.                         *)
TryingConfigs == {c \in AllConfigs : c.real /\ ~c.overwrite}
===============================================================================
