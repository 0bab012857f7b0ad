--------------------------- MODULE MCStreamReader ---------------------------
(* Model-checking instances of StreamReader.                               *)
EXTENDS StreamReader, TLC

\* Subscriptions are interchangeable where the cfg treats them alike.
Symmetry == Permutations(Subs)
=============================================================================
