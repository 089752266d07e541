---------------------------- MODULE MCOpTracking ----------------------------
(* Small instances of OpTracking.                                          *)
EXTENDS OpTracking

CONSTANTS c1, c2

TwoCalls == {c1, c2}
=============================================================================
