------------------------------- MODULE SupercellDim -------------------------------
(***************************************************************************)
(* The supercell and the q-mesh a workflow takes when the user names none: *)
(* analysis/structure_type.py, infer_supercell_info of defaults.py and     *)
(* default_q_mesh_for_structure of config.py.                              *)
(*                                                                         *)
(* Lengths are whole angstroms, positions twentieths of a cell; the        *)
(* tolerance of the comparison of lengths is left out with the fractions.  *)
(***************************************************************************)
EXTENDS Integers, FiniteSets, FiniteSetsExt

Axes  == 1 .. 3
Parts == 20            \* positions along an axis are 0 .. Parts - 1

(* A structure: cell lengths, where its atoms are along each axis, and how *)
(* many they are.                                                          *)
Structure(lengths, positions, atoms) ==
  [lengths |-> lengths, positions |-> positions, atoms |-> atoms]

(* The largest gap between neighbours on the periodic axis; one atom, or   *)
(* none, leaves all of it.                                                 *)
NextPosition(p, P) == IF \E q \in P : q > p THEN Min({q \in P : q > p}) ELSE Min(P) + Parts

(* A slip: the gap across the boundary of the cell is not looked at.       *)
InnerGap(P)   == Max({0} \cup {NextPosition(p, P) - p : p \in P \ {Max(P)}})
LargestGap(P) == IF P = {} THEN Parts ELSE Max({NextPosition(p, P) - p : p \in P})

(* An axis of 15 angstroms whose atoms leave 35 percent of it empty.       *)
VacuumAxes(structure) ==
  { a \in Axes : /\ structure.lengths[a] >= 15
                 /\ LargestGap(structure.positions[a]) * 100 >= 35 * Parts }

default_q_mesh_for_structure(vacuum) ==
  [a \in Axes |-> IF a \in vacuum THEN 1
                  ELSE IF Cardinality(vacuum) = 1 THEN 51 ELSE 21]

-------------------------------------------------------------------------------
(* Limits: the length the supercell should have, the smallest and the      *)
(* largest repetition, and how many atoms it may have.                     *)
Ceiling(n, d)     == (n + d - 1) \div d
Clip(n, low, top) == Min({Max({n, low}), top})

Active(vacuum)       == Axes \ vacuum
Atoms(dims, atoms)   == dims[1] * dims[2] * dims[3] * atoms
LongestDim(dims)     == Max({dims[a] : a \in Axes})

EqualLengths(lengths, vacuum) ==
  Active(vacuum) # {} /\ \E l \in {lengths[a] : a \in Active(vacuum)} :
    l > 0 /\ \A a \in Active(vacuum) : lengths[a] = l

InitialDims(lengths, vacuum, limits) ==
  [a \in Axes |->
     IF a \in vacuum THEN 1
     ELSE IF lengths[a] = 0 THEN limits.min_dim
     ELSE Clip(Ceiling(limits.target, lengths[a]), limits.min_dim, limits.max_dim)]

(* A slip: the first axis that can be shorter, instead of the longest.     *)
FirstShorter(dims, equal, vacuum) ==
  [dims EXCEPT ![Min({a \in Axes : dims[a] > 1})] = @ - 1]

(* Equal axes are shortened together, others the longest first.            *)
Shorter(dims, equal, vacuum) ==
  IF equal
  THEN [a \in Axes |-> IF a \in vacuum THEN dims[a] ELSE dims[a] - 1]
  ELSE [dims EXCEPT ![Min({a \in Axes : dims[a] = LongestDim(dims)})] = @ - 1]

(* While it has too many atoms the supercell is shortened, but no axis     *)
(* below the smallest repetition.  Each turn takes a repetition away, and  *)
(* there are not more than the axes can have.                              *)
TooLarge(dims, structure, limits) ==
  Atoms(dims, structure.atoms) > limits.max_atoms /\ LongestDim(dims) > limits.min_dim

infer_supercell_dim(structure, vacuum, limits) ==
  LET equal == EqualLengths(structure.lengths, vacuum)
      turns == 3 * limits.max_dim
      After(d) == IF TooLarge(d, structure, limits) THEN Shorter(d, equal, vacuum) ELSE d
      dims[turn \in 0 .. turns] ==
        IF turn = 0 THEN InitialDims(structure.lengths, vacuum, limits) ELSE After(dims[turn - 1])
  IN  dims[turns]

(* The third-order force constants have limits of their own, and no axis is*)
(* vacuum to them.                                                         *)
resolve_fc3_supercell_dim(structure, limits) ==
  infer_supercell_dim(structure, {}, [limits EXCEPT !.min_dim = 1, !.max_dim = 6])

-------------------------------------------------------------------------------
(* What a supercell has to be, whatever the loop does: between the limits  *)
(* and no longer than the target asks, small enough unless nothing can be  *)
(* shortened, no shorter than the atoms require, and even where the cell   *)
(* is; the vacuum is not repeated.                                         *)
Fits(dims, structure, vacuum, limits) ==
  LET active    == Active(vacuum)
      initial   == InitialDims(structure.lengths, vacuum, limits)
      shortened == {a \in active : dims[a] < initial[a]}
      Again(A)  == [a \in Axes |-> IF a \in A THEN dims[a] + 1 ELSE dims[a]]
  IN  /\ \A a \in vacuum : dims[a] = 1
      /\ \A a \in active : limits.min_dim <= dims[a] /\ dims[a] <= initial[a]
      /\ \/ Atoms(dims, structure.atoms) <= limits.max_atoms
         \/ \A a \in active : dims[a] = limits.min_dim
      /\ shortened # {} => Atoms(Again(shortened), structure.atoms) > limits.max_atoms
      /\ \A a, b \in active :
           structure.lengths[a] = structure.lengths[b] => dims[a] - dims[b] \in {-1, 0, 1}
      /\ EqualLengths(structure.lengths, vacuum) => \A a, b \in active : dims[a] = dims[b]
      /\ \A a \in shortened, b \in active : dims[b] <= dims[a] + 1
===============================================================================
