------------------------------- MODULE MCPlans -------------------------------
(* Plans with small sets of model values.  Readers, writers and the texts   *)
(* of plans are interchangeable.                                             *)
EXTENDS Plans, TLC

Symmetry == Permutations(Writer) \cup Permutations(Text)
=============================================================================
