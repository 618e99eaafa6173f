-------------------------------- MODULE Sums --------------------------------
(***************************************************************************)
(* The sum of the values of a function, natural numbers, as the number of  *)
(* their units.  Unlike a fold it needs no order of the arguments, and     *)
(* what it adds up to follows from facts about cardinalities.              *)
(***************************************************************************)
EXTENDS Naturals, FiniteSets

\* Every unit of every value, beside the argument it belongs to.
Units(f) == UNION {{x} \X (1 .. f[x]) : x \in DOMAIN f}

SumOf(f) == Cardinality(Units(f))
=============================================================================
