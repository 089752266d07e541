\* Two calls at once of any kind, another program on the account, one failure.
SPECIFICATION Spec
CONSTANTS
    alice = alice
    bob = bob
    c1 = c1
    c2 = c2
    c3 = c3
    Other = Other
    Owners <- TwoOwners
    Callers <- TwoCallers
    Amounts <- ZeroAndOne
    Unlimited = 4
    MaxForeign = 1
    MaxCredits = 2
    MaxFailures = 1
INVARIANTS TypeOK ApprovedDepositSucceeds WithdrawalOfAllSucceeds
SYMMETRY Symmetry
CHECK_DEADLOCK FALSE
