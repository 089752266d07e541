\* Two concurrent calls on a transaction, over any provider, one revert.
SPECIFICATION FairSpec
CONSTANTS
    c1 = c1
    c2 = c2
    Calls <- TwoCalls
    ProviderTypes = {"Rest", "HTTP", "WS"}
    MaxReverts = 1
    Verdicts = {TRUE, FALSE}
INVARIANTS TypeOK StateAgreesWithLedger VerifiedIsFinal VerifyReceiptIsFinal
PROPERTIES StateAdvances ImplementsContract EveryCallSettles
CHECK_DEADLOCK FALSE
