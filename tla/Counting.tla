------------------------------- MODULE Counting -------------------------------
(***************************************************************************)
(* Sums without recursion, which no proof could unfold: what a row of      *)
(* numbers adds up to is the cardinality of the set of its units.          *)
(***************************************************************************)
EXTENDS Integers, Sequences, FiniteSets

\* One element for every unit of every number of the row f.
Units(f) == UNION {{x} \X (1 .. f[x]) : x \in DOMAIN f}
===============================================================================
