------------------------------ MODULE Totals -------------------------------
(***************************************************************************)
(* Sums of natural numbers.                                                *)
(***************************************************************************)
EXTENDS Integers, FiniteSets

\* The sum of the natural numbers f[k], as the size of a set with f[k]
\* elements for every k.
Units(f) == UNION {{k} \X (1..f[k]) : k \in DOMAIN f}
Total(f) == Cardinality(Units(f))

=============================================================================
