-------------------------------- MODULE Sums --------------------------------
(***************************************************************************)
(* The total of a function of naturals over a finite set, counted: element *)
(* x contributes f[x] units, and the total is the number of units.  It is  *)
(* what a fold of + computes, in a form that the theorems about finite     *)
(* sets apply to.                                                          *)
(***************************************************************************)
EXTENDS Integers, FiniteSets

Units(f, S) == UNION {{x} \X (1 .. f[x]) : x \in S}

Total(f, S) == Cardinality(Units(f, S))
=============================================================================
