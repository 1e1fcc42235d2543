--------------------------- MODULE MCContainers ----------------------------
(* Instances of Table and of Vector, which share no state: a behaviour     *)
(* works on tables or on a vector, and both are checked in one run.        *)
(* Tables are interchangeable, the values in them, and the vector's two    *)
(* values of one kind, beside which it has one of another.                 *)
EXTENDS Table, Vector, TLC

CONSTANTS t1, t2, x, y, n1, n2, s1

KindDef == [v \in Items |-> IF v = s1 THEN "str" ELSE "num"]
IndexesDef == -1 .. 5

ContainersInit == Init /\ VecInit

\* Once one of the two has taken a step the other one rests.
ContainersNext ==
  \/ VecInit /\ Next /\ UNCHANGED vecVars
  \/ Init /\ VecNext /\ UNCHANGED vars

ContainersSpec == ContainersInit /\ [][ContainersNext]_<<vars, vecVars>>

Symmetry == Permutations(Tables) \cup Permutations(Vals)
            \cup Permutations({n1, n2})
=============================================================================
