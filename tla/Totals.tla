------------------------------- MODULE Totals -------------------------------
(***************************************************************************)
(* The total of a function of natural numbers, counted unit by unit: what  *)
(* is known of cardinalities is then known of totals.                      *)
(***************************************************************************)
EXTENDS Naturals, FiniteSets

Units(f) == UNION {{x} \X (1..f[x]) : x \in DOMAIN f}

Total(f) == Cardinality(Units(f))
=============================================================================
