----------------------------- MODULE Selection ------------------------------
(* A comprehension over a list: the elements with a property, in their order. *)
EXTENDS Integers, Sequences, SequencesExt

Select(s, wanted) ==
    FoldLeft(LAMBDA acc, x : IF x \in wanted THEN Append(acc, x) ELSE acc, << >>, s)
=============================================================================
