\* Two calls, one after the other: does awaitReceipt always give a receipt?
SPECIFICATION Spec
CONSTANTS
    c1 = c1
    c2 = c2
    Calls <- TwoCalls
    ProviderTypes = {"Rest", "HTTP", "WS"}
    MaxReverts = 0
    Verdicts = {TRUE}
INVARIANTS AwaitReceiptGivesReceipt
CHECK_DEADLOCK FALSE
