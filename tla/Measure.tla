------------------------------ MODULE Measure ------------------------------
(***************************************************************************)
(* Measures of what is left of a computation: tuples of numbers in their   *)
(* lexicographic order.  A computation each of whose steps makes such a    *)
(* measure lower has finitely many steps.                                  *)
(***************************************************************************)
EXTENDS Naturals

\* The first number in which r and q differ is smaller in r.
Lower(r, q) == \E i \in DOMAIN q : r[i] < q[i] /\ \A j \in 1 .. i - 1 : r[j] = q[j]

\* What a loop that has made i of m rounds has still to make.
Left(m, i) == IF i < m THEN m - i ELSE 0
=============================================================================
