\* Two concurrent calls on a priority operation, over any provider, one revert.
SPECIFICATION FairSpec
CONSTANTS
    c1 = c1
    c2 = c2
    Calls <- TwoCalls
    ProviderTypes = {"Rest", "HTTP", "WS"}
    MaxReverts = 1
    Verdicts = {TRUE}
    L1Outcomes = {"mined", "reverted", "unlogged"}
INVARIANTS TypeOK VerifyResolvesFinal VerifiedIsFinal AsksWithPriorityId
    StateAgreesWithLedger
PROPERTIES StateAdvances EveryCallSettles
CHECK_DEADLOCK FALSE
