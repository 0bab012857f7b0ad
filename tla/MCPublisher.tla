---------------------------- MODULE MCPublisher -----------------------------
(* Model-checking instances of Publisher.                                  *)
EXTENDS Publisher, TLC
=============================================================================
