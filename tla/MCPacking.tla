------------------------------ MODULE MCPacking -----------------------------
(* Small instances of Packing.                                             *)
EXTENDS Packing

Boundaries == {0} \cup 160 .. 170
SomeDigits == {0, 3, 8, 9}
=============================================================================
