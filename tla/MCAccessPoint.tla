--------------------------- MODULE MCAccessPoint ----------------------------
(* Model-checking instances of AccessPoint.                                *)
EXTENDS AccessPoint

Declares(kind) == [kind |-> kind, size |-> 1]

\* A vocal that is accepted, and one with a kind that is unknown.
MCRequests == {<<Declares("TEXT")>>, <<Declares("TEXT"), Declares("other")>>}

\* No number, every id, and the first number that does not fit one.
MCIds == {Convert!OtherText} \union {Convert!Decimal(n) : n \in 0..IdRange}
=============================================================================
