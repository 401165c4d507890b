------------------------------- MODULE Totals -------------------------------
(***************************************************************************)
(* SELECT COALESCE(SUM(column), 0) over a finite set of rows.              *)
(*                                                                         *)
(* The sum of natural numbers is written without recursion, as the size of *)
(* the disjoint union that gives every row one unit per nanousd it holds,  *)
(* so that facts about sums follow from facts about cardinalities.         *)
(***************************************************************************)
EXTENDS Integers, FiniteSets

\* The units row x contributes.
UnitsOf(amount, x) == {x} \X (1 .. amount[x])

Units(amount, rows) == UNION {UnitsOf(amount, x) : x \in rows}

\* The sum of amount[x] over the rows x.
Total(amount, rows) == Cardinality(Units(amount, rows))

=============================================================================
