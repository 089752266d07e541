\* One build at a time of a builder of up to three transactions.
SPECIFICATION Spec
CONSTANTS
    b1 = b1
    DAI = DAI
    RBTC = RBTC
    NoToken = NoToken
    Committed = Committed
    Builds <- OneBuild
    Tokens <- TwoTokens
    StartNonce = Committed
    MaxTxs = 3
    MaxNonce = 1
INVARIANTS TypeOK Numbered FeesAccounted LastPaysForAll
SYMMETRY TokenSymmetry
CHECK_DEADLOCK FALSE
