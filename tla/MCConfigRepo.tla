------------------------------ MODULE MCConfigRepo ------------------------------
(* ConfigRepo with two operators, two restores, two generations of the     *)
(* backup key at a time and one successor of the machine.                  *)
EXTENDS ConfigRepo, TLC

AnySymmetry == Permutations(Operators) \cup Permutations(Restores) \cup Permutations(Initialisers)
=============================================================================
