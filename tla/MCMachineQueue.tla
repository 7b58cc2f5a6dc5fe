--------------------------- MODULE MCMachineQueue ---------------------------
(* MachineQueue on small sets.                                             *)
EXTENDS MachineQueue, TLC

\* Machines, plans, steps and requests are interchangeable.
Symmetry ==
  Permutations(Machine) \cup Permutations(Plan) \cup Permutations(Step) \cup Permutations(Request)
=============================================================================
