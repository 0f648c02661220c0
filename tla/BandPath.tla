--------------------------------- MODULE BandPath ---------------------------------
(***************************************************************************)
(* The path through the Brillouin zone that the bands are computed along:  *)
(* generate_kpath of analysis/bandpath.py, infer_dimensionality_by_vacuum  *)
(* of kpath/dimensionality.py and generate_ase_2d_kpath.                   *)
(*                                                                         *)
(* Whether a structure is a layer is decided a second time here, and not as*)
(* in structure_type.py.  The axes of the cells are at right angles.       *)
(***************************************************************************)
EXTENDS SupercellDim

(* From the first atom to the last, and what is beyond them.               *)
Span(P)               == IF P = {} THEN 0 ELSE Max(P) - Min(P)
VacuumLength(s, axis) == s.lengths[axis] * (Parts - Span(s.positions[axis]))     \* in 1/Parts

(* 12 angstroms, 8 of them empty, and 70 percent at most for the layer.    *)
VacuumCandidates(s) ==
  { a \in Axes : /\ s.lengths[a] >= 12
                 /\ VacuumLength(s, a) >= 8 * Parts
                 /\ Span(s.positions[a]) * 100 <= 70 * Parts }

(* The candidate with the longest vacuum, the first of several; 0 if none. *)
infer_dimensionality_by_vacuum(s) ==
  LET C == VacuumCandidates(s) IN
  IF C = {} THEN 0
  ELSE Min({a \in C : \A b \in C : VacuumLength(s, b) <= VacuumLength(s, a)})

(* ASE wants the vacuum along the third axis; the two others keep their    *)
(* order.                                                                  *)
standardize_2d_for_ase_bandpath(axis) ==
  [i \in Axes |-> IF i = 3 THEN axis ELSE IF i < axis THEN i ELSE i + 1]

(* A path: the axes its points have coordinates on, in the order of the    *)
(* cell it was made for, and the vacuum it knows of.                       *)
Path(mode, axes, vacuum) == [mode |-> mode, axes |-> axes, vacuum |-> vacuum]
Raises                   == Path("raises", {}, 0)

(* The points are those of the rearranged cell with a third coordinate of  *)
(* zero, and are taken as they are for the cell that was not rearranged.   *)
generate_ase_2d_kpath(s) ==
  LET axis        == infer_dimensionality_by_vacuum(s)
      permutation == standardize_2d_for_ase_bandpath(axis)
      in_plane    == {i \in Axes : permutation[i] # axis}
  IN  IF axis = 0 THEN Raises ELSE Path("2d_ase", in_plane, axis)

generate_3d_seekpath_kpath(s) == Path("3d_seekpath", Axes, 0)

(* A workflow hands no points on for "custom".                             *)
generate_kpath(s, kpath_mode) ==
  CASE kpath_mode = "custom"      -> Raises
    [] kpath_mode = "3d_seekpath" -> generate_3d_seekpath_kpath(s)
    [] kpath_mode = "2d_ase"      -> generate_ase_2d_kpath(s)
    [] kpath_mode = "auto"        -> IF infer_dimensionality_by_vacuum(s) # 0
                                     THEN generate_ase_2d_kpath(s)
                                     ELSE generate_3d_seekpath_kpath(s)
===============================================================================
