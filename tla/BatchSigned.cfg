\* A batch with a ChangePubKey signed before: is it sent as it was signed?
SPECIFICATION Spec
CONSTANTS
    b1 = b1
    DAI = DAI
    RBTC = RBTC
    NoToken = NoToken
    Committed = Committed
    Builds <- OneBuild
    Tokens <- TwoTokens
    StartNonce = Committed
    MaxTxs = 2
    MaxNonce = 1
INVARIANTS SignedAsSent
CHECK_DEADLOCK FALSE
