------------------------ MODULE MCClientSubscription ------------------------
(* Model-checking instances of ClientSubscription.                         *)
EXTENDS ClientSubscription, TLC

\* Calls are interchangeable.
Symmetry == Permutations(Subs)
=============================================================================
