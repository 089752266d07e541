\* A token is unlocked, and two deposits follow, one of which brings an approval all the same.
SPECIFICATION Spec
CONSTANTS
    alice = alice
    bob = bob
    c1 = c1
    c2 = c2
    c3 = c3
    Other = Other
    Owners <- OneOwner
    Callers <- ThreeCallers
    Amounts <- JustOne
    Unlimited = 4
    MaxForeign = 0
    MaxCredits = 0
    MaxFailures = 0
INVARIANTS UnlockedForever
CHECK_DEADLOCK FALSE
