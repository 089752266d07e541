-------------------------- MODULE MCRootstockCalls --------------------------
(* Small instances of RootstockCalls.                                      *)
EXTENDS RootstockCalls, TLC

CONSTANTS alice, bob, c1, c2, c3

OneOwner == {alice}
TwoOwners == {alice, bob}
TwoCallers == {c1, c2}
ThreeCallers == {c1, c2, c3}
JustOne == {1}
ZeroAndOne == {0, 1}

Symmetry == Permutations(Owners) \cup Permutations(Callers)
=============================================================================
