--------------------------- MODULE MCStreamWriter ---------------------------
(* Model-checking instances of StreamWriter.                               *)
EXTENDS StreamWriter, TLC

\* Callers of Push are interchangeable.
Symmetry == Permutations(Callers)
=============================================================================
