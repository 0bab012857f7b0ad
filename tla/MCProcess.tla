----------------------------- MODULE MCProcess ------------------------------
(* Model-checking instances of Process.                                    *)
EXTENDS Process
=============================================================================
